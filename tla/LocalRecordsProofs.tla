-------------------------- MODULE LocalRecordsProofs --------------------------
(***************************************************************************)
(* What holds of the two ways the project keeps records of local           *)
(* regulations, for any constants: of InnsynRequests, that no letter goes  *)
(* out twice and that no answer is undone in the ledger; of Promotion,     *)
(* that what a commit shows is a version, or a withdrawal, with all of its *)
(* files, its history and an approval of each, but where a killed migrate  *)
(* or withdraw, run again, found nothing to do; and that a document that   *)
(* was withdrawn stays out.                                                *)
(***************************************************************************)
EXTENDS InnsynRequests, Promotion, FiniteSetTheorems, TLAPS

-----------------------------------------------------------------------------
(* Sequences of whatever elements. *)
Sequence(s) == s \in Seq(ToSet(s))

\* What an append does to a sequence.
LEMMA Appending ==
    ASSUME NEW s, Sequence(s), NEW x
    PROVE  /\ Sequence(Append(s, x))
           /\ DOMAIN s = 1..Len(s) /\ Len(s) \in Nat
           /\ Len(Append(s, x)) = Len(s) + 1
           /\ DOMAIN Append(s, x) = DOMAIN s \cup {Len(s) + 1} /\ Len(s) + 1 \notin DOMAIN s
           /\ \A i \in DOMAIN s : Append(s, x)[i] = s[i]
           /\ Append(s, x)[Len(s) + 1] = x
<1> DEFINE T == ToSet(s) \cup {x}
           t == Append(s, x)
<1>1. s \in Seq(T)
  BY DEF Sequence
<1>2. /\ t \in Seq(T) /\ Len(t) = Len(s) + 1 /\ Len(s) \in Nat
      /\ DOMAIN s = 1..Len(s) /\ DOMAIN t = 1..Len(t)
      /\ \A i \in 1..Len(s) : t[i] = s[i]
      /\ t[Len(s) + 1] = x
  BY <1>1
<1>3. \A i \in 1..Len(t) : t[i] \in ToSet(t)
  BY <1>2 DEF ToSet
<1>4. t \in Seq(ToSet(t))
  BY <1>2, <1>3
<1> QED
  BY <1>2, <1>4 DEF Sequence

\* Appending what is not there keeps a sequence without repetition.
LEMMA AppendingNew ==
    ASSUME NEW s, Sequence(s), IsInjective(s), NEW x, x \notin ToSet(s)
    PROVE  IsInjective(Append(s, x))
<1>1. \A i \in DOMAIN s : s[i] # x
  BY DEF ToSet
<1> QED
  BY <1>1, Appending DEF IsInjective

\* Taking the first element off a sequence.
LEMMA TakingOff ==
    ASSUME NEW s, Sequence(s), s # <<>>
    PROVE  /\ Sequence(Tail(s)) /\ Len(s) \in Nat \ {0} /\ Len(Tail(s)) = Len(s) - 1
           /\ DOMAIN s = 1..Len(s) /\ DOMAIN Tail(s) = 1..(Len(s) - 1)
           /\ \A i \in DOMAIN Tail(s) : Tail(s)[i] = s[i + 1]
           /\ Head(s) = s[1]
           /\ ToSet(s) = {Head(s)} \cup ToSet(Tail(s))
           /\ Len(s) # 1 => Tail(s) # <<>>
<1> DEFINE T == ToSet(s)
           t == Tail(s)
<1>1. s \in Seq(T)
  BY DEF Sequence
<1> HIDE DEF T
<1>2. /\ Len(s) \in Nat \ {0} /\ t \in Seq(T) /\ Len(t) = Len(s) - 1
      /\ DOMAIN s = 1..Len(s) /\ DOMAIN t = 1..Len(t)
      /\ \A i \in 1..Len(t) : t[i] = s[i + 1]
      /\ Head(s) = s[1]
  BY <1>1
<1> HIDE DEF t
<1>3. t \in Seq(ToSet(t))
  BY <1>2 DEF ToSet
<1>4. \A i \in 1..Len(s) : i = 1 \/ (i - 1 \in 1..Len(t) /\ s[i] = t[i - 1])
  <2> SUFFICES ASSUME NEW i \in 1..Len(s), i # 1 PROVE i - 1 \in 1..Len(t) /\ s[i] = t[i - 1]
    OBVIOUS
  <2>1. i - 1 \in 1..Len(t) /\ (i - 1) + 1 = i
    BY <1>2
  <2> QED
    BY <1>2, <2>1
<1>5. \A i \in 1..Len(t) : i + 1 \in 1..Len(s) /\ t[i] = s[i + 1]
  BY <1>2
<1>6. ToSet(s) = {Head(s)} \cup ToSet(t)
  <2>1. ASSUME NEW x \in ToSet(s) PROVE x = Head(s) \/ x \in ToSet(t)
    <3>1. PICK i \in 1..Len(s) : s[i] = x
      BY <1>2, <2>1 DEF ToSet
    <3> QED
      BY <1>2, <1>4, <3>1 DEF ToSet
  <2>2. ASSUME NEW x \in ToSet(t) PROVE x \in ToSet(s)
    <3>1. PICK i \in 1..Len(t) : t[i] = x
      BY <1>2, <2>2 DEF ToSet
    <3> QED
      BY <1>2, <1>5, <3>1 DEF ToSet
  <2>3. Head(s) \in ToSet(s)
    BY <1>2 DEF ToSet
  <2> QED
    BY <2>1, <2>2, <2>3
<1>7. Len(s) # 1 => t # <<>>
  BY <1>2
<1> QED
  BY <1>2, <1>3, <1>6, <1>7 DEF Sequence, t

\* ... and off one without repetition.
LEMMA TakingOffNew ==
    ASSUME NEW s, Sequence(s), s # <<>>, IsInjective(s)
    PROVE  IsInjective(Tail(s)) /\ Head(s) \notin ToSet(Tail(s))
<1>1. ASSUME NEW i \in DOMAIN Tail(s)
      PROVE  Tail(s)[i] = s[i + 1] /\ i + 1 \in DOMAIN s /\ i + 1 # 1 /\ i \in Int
  BY TakingOff
<1>2. ASSUME NEW i \in DOMAIN Tail(s), NEW j \in DOMAIN Tail(s), Tail(s)[i] = Tail(s)[j]
      PROVE  i = j
  <2>1. i + 1 = j + 1
    BY <1>1, <1>2 DEF IsInjective
  <2> QED
    BY <1>1, <2>1
<1>3. ASSUME NEW i \in DOMAIN Tail(s) PROVE Tail(s)[i] # Head(s)
  <2>1. 1 \in DOMAIN s /\ Head(s) = s[1]
    BY TakingOff
  <2> QED
    BY <1>1, <2>1 DEF IsInjective
<1> QED
  BY <1>2, <1>3 DEF IsInjective, ToSet

\* A function on the first numbers is a sequence.
LEMMA Listing ==
    ASSUME NEW n \in Nat, NEW q, q = [i \in 1..n |-> q[i]]
    PROVE  Sequence(q) /\ Len(q) = n /\ DOMAIN q = 1..n
<1>1. q \in [1..n -> ToSet(q)]
  BY DEF ToSet
<1>2. q \in Seq(ToSet(q))
  BY <1>1
<1> QED
  BY <1>1, <1>2 DEF Sequence

\* A sequence is what it has at its numbers.
LEMMA Indexed ==
    ASSUME NEW s, Sequence(s)
    PROVE  Len(s) \in Nat /\ DOMAIN s = 1..Len(s)
BY DEF Sequence

-----------------------------------------------------------------------------
(* Numbers *)

\* The library's induction theorems cannot be instantiated; NatLessThanWellFounded can be cited.
LEMMA LeastNumber ==
    ASSUME NEW A, A # {}, \A x \in A : x \in Nat
    PROVE  \E k \in A : \A m \in A : k <= m
<1> DEFINE R == OpToRel(<, Nat)
<1>1. IsWellFoundedOn(R, Nat)
  BY NatLessThanWellFounded
<1>2. A \subseteq Nat
  OBVIOUS
<1> HIDE DEF R
<1>3. PICK k \in A : \A m \in A : <<m, k>> \notin R
  BY <1>1, <1>2, WFMin
<1>4. ASSUME NEW m \in A PROVE k <= m
  <2>1. ~(m < k)
    BY <1>2, <1>3 DEF R, OpToRel
  <2> QED
    BY <1>2, <2>1
<1> QED
  BY <1>4

LEMMA GreatestNumber ==
    ASSUME NEW n \in Nat, NEW A, A # {}, \A x \in A : x \in 1..n
    PROVE  \E k \in A : \A m \in A : m <= k
<1> DEFINE B == {n - x : x \in A}
<1>1. B # {} /\ \A y \in B : y \in Nat
  OBVIOUS
<1>2. \A x \in A : n - x \in B
  OBVIOUS
<1>3. \A y \in B : \E x \in A : y = n - x
  OBVIOUS
<1> HIDE DEF B
<1>4. PICK y \in B : \A z \in B : y <= z
  BY <1>1, LeastNumber
<1>5. PICK k \in A : y = n - k
  BY <1>3
<1>6. ASSUME NEW m \in A PROVE m <= k
  <2>1. n - k <= n - m /\ m \in Int /\ k \in Int
    BY <1>2, <1>4, <1>5
  <2> QED
    BY <2>1
<1> QED
  BY <1>6

\* How many of a set are no greater: no two of its numbers have as many.
LEMMA RanksDiffer ==
    ASSUME NEW B, IsFiniteSet(B), \A x \in B : x \in Nat
    PROVE  /\ \A i \in B : Cardinality({j \in B : j <= i}) \in 1..Cardinality(B)
           /\ \A i, k \in B :
                 Cardinality({j \in B : j <= i}) = Cardinality({j \in B : j <= k}) => i = k
<1>1. Cardinality(B) \in Nat
  BY FS_CardinalityType
<1>2. ASSUME NEW i \in B
      PROVE  /\ IsFiniteSet({j \in B : j <= i})
             /\ Cardinality({j \in B : j <= i}) \in 1..Cardinality(B)
  <2> DEFINE D == {j \in B : j <= i}
  <2>1. D \in SUBSET B /\ i \in D
    OBVIOUS
  <2> HIDE DEF D
  <2>2. IsFiniteSet(D) /\ Cardinality(D) <= Cardinality(B)
    BY <2>1, FS_Subset
  <2>3. Cardinality(D) \in Nat /\ Cardinality(D) # 0
    BY <2>1, <2>2, FS_CardinalityType, FS_EmptySet
  <2> QED
    BY <1>1, <2>2, <2>3 DEF D
<1>3. ASSUME NEW i \in B, NEW k \in B, i < k
      PROVE  Cardinality({j \in B : j <= i}) # Cardinality({j \in B : j <= k})
  <2> DEFINE D == {j \in B : j <= i}
             E == {j \in B : j <= k}
  <2>1. D \in SUBSET E /\ k \in E /\ k \notin D
    BY <1>3
  <2>2. IsFiniteSet(E)
    BY <1>2
  <2> HIDE DEF D, E
  <2>3. Cardinality(E) = Cardinality(D) => E = D
    BY <2>1, <2>2, FS_Subset
  <2>4. Cardinality(D) # Cardinality(E)
    BY <2>1, <2>3
  <2> QED
    BY <2>4 DEF D, E
<1>4. ASSUME NEW i \in B, NEW k \in B,
             Cardinality({j \in B : j <= i}) = Cardinality({j \in B : j <= k})
      PROVE  i = k
  <2>1. ~(i < k) /\ ~(k < i)
    BY <1>3, <1>4
  <2> QED
    BY <2>1
<1> QED
  BY <1>2, <1>4

\* In a finite set of numbers there is one of every rank.
LEMMA EveryRank ==
    ASSUME NEW B, IsFiniteSet(B), \A x \in B : x \in Nat, NEW n \in 1..Cardinality(B)
    PROVE  \E i \in B : Cardinality({j \in B : j <= i}) = n
<1> DEFINE N == Cardinality(B)
           rank == [i \in B |-> Cardinality({j \in B : j <= i})]
<1>1. N \in Nat
  BY FS_CardinalityType
<1>2. rank \in [B -> 1..N]
  BY RanksDiffer
<1>3. ASSUME NEW i \in B, NEW k \in B, rank[i] = rank[k] PROVE i = k
  <2>1. Cardinality({j \in B : j <= i}) = Cardinality({j \in B : j <= k})
    BY <1>3
  <2> HIDE DEF rank
  <2> QED
    BY <2>1, RanksDiffer
<1> HIDE DEF rank, N
<1>4. rank \in Injection(B, 1..N)
  BY <1>2, <1>3 DEF Injection, IsInjective
<1>5. IsFiniteSet(1..N) /\ Cardinality(1..N) = N
  BY <1>1, FS_Interval
<1>6. rank \in Surjection(B, 1..N)
  BY <1>4, <1>5, FS_Injection DEF N
<1>7. PICK i \in B : rank[i] = n
  BY <1>6 DEF Surjection, N
<1> QED
  BY <1>7 DEF rank

-----------------------------------------------------------------------------
(* InnsynRequests: the inductive invariant *)

RunShape ==
    \/ run = Idle
    \/ /\ run.at \in {"judge", "deliver", "check", "append"}
       /\ run = [at |-> run.at, wave |-> run.wave, queue |-> run.queue, sent |-> run.sent,
                 id |-> run.id]

Recording == run # Idle /\ run.at \in {"check", "append"}

IsRequest(r) == r = [letter |-> r.letter, delivered |-> r.delivered, outcome |-> r.outcome]

\* A request of the ledger is of the letter that went out under its number.
Filed ==
    \A n \in DOMAIN ledger : n \in DOMAIN mail /\ IsRequest(ledger[n]) /\ ledger[n].letter = mail[n]

\* Every letter that was mailed is in the ledger, but for that of the run that has not recorded
\* it yet, and of one that stopped before it had.
MailIsFiled ==
    \A n \in DOMAIN mail :
        mail[n].channel = "email" /\ n \notin DOMAIN ledger => owes \/ (Recording /\ run.id = n)

StoppedRests == owes => run = Idle

\* The letter that is on its way never went.
LetterIsNew ==
    run # Idle /\ run.at = "deliver" =>
        Head(run.queue).channel = "email" /\ Head(run.queue) \notin ToSet(mail)

\* The letter that is being recorded was mailed and, once the ledger was checked, is not in it.
RecordedIsMailed ==
    Recording =>
        /\ run.id \in DOMAIN mail /\ mail[run.id].channel = "email"
        /\ run.at = "append" => run.id \notin DOMAIN ledger

\* What a command checked of the ledger holds until it appends its line.
CheckedStands ==
    command # NoCommand =>
        \/ /\ command.event = "sent"
           /\ command.id \in DOMAIN mail \ DOMAIN ledger /\ command.letter = mail[command.id]
           /\ mail[command.id].channel = "email" => owes
        \/ command.event = "outcome" /\ command.outcome \in Outcome
        \/ command.event = "undelivered"

AskInv ==
    /\ Sequence(mail) /\ NoLetterTwice
    /\ RunShape /\ Filed /\ MailIsFiled /\ StoppedRests
    /\ LetterIsNew /\ RecordedIsMailed /\ CheckedStands

-----------------------------------------------------------------------------
(* What the helpers do. *)

\* Going on with a run: it rests, or it judges the next letter.
LEMMA Continuing ==
    ASSUME RunShape, run # Idle, NEW queue, NEW sent, run' = Continue(queue, sent)
    PROVE  RunShape' /\ (run' # Idle => run'.at = "judge")
<1>1. CASE run' = Idle
  BY <1>1 DEF RunShape
<1>2. CASE run' = [run EXCEPT !.at = "judge", !.queue = queue, !.sent = sent]
  BY <1>2 DEF RunShape
<1> QED
  BY <1>1, <1>2 DEF Continue

\* The line of a letter sent begins its request, and leaves the others.
LEMMA SentStep ==
    ASSUME NEW n
    PROVE  LET held == Step(ledger, SentLine(n)) IN
           /\ DOMAIN held = DOMAIN ledger \cup {n}
           /\ IsRequest(held[n]) /\ held[n].letter = mail[n]
           /\ \A m \in DOMAIN ledger \ {n} : held[m] = ledger[m]
BY DEF Step, SentLine, IsRequest

\* Any other line changes a request it finds, and neither its letter nor, but with another
\* answer, what was answered.
LEMMA OtherStep ==
    ASSUME NEW line,
           (line.event = "outcome" /\ line.outcome \in Outcome) \/ line.event = "undelivered",
           \A n \in DOMAIN ledger : IsRequest(ledger[n])
    PROVE  LET held == Step(ledger, line) IN
           /\ DOMAIN held = DOMAIN ledger
           /\ \A m \in DOMAIN ledger :
                 /\ held[m].letter = ledger[m].letter
                 /\ ledger[m].outcome # NoOutcome => held[m].outcome # NoOutcome
                 /\ IsRequest(held[m])
<1> DEFINE held == Step(ledger, line)
<1> SUFFICES /\ DOMAIN held = DOMAIN ledger
             /\ \A m \in DOMAIN ledger :
                   /\ held[m].letter = ledger[m].letter
                   /\ ledger[m].outcome # NoOutcome => held[m].outcome # NoOutcome
                   /\ IsRequest(held[m])
  OBVIOUS
<1>1. CASE line.event = "outcome" /\ line.outcome \in Outcome
  <2>1. held = [ledger EXCEPT ![line.id].outcome = line.outcome]
    BY <1>1 DEF Step
  <2>2. line.outcome # NoOutcome
    BY <1>1, InnsynAssumption DEF Outcome
  <2> DEFINE Changed(r) == [r EXCEPT !.outcome = line.outcome]
  <2>3. DOMAIN held = DOMAIN ledger
    BY <2>1
  <2>4. \A m \in DOMAIN ledger : held[m] = IF m = line.id THEN Changed(ledger[m]) ELSE ledger[m]
    BY <2>1
  <2>5. \A r : IsRequest(r) => /\ IsRequest(Changed(r)) /\ Changed(r).letter = r.letter
                              /\ Changed(r).outcome = line.outcome
    BY DEF IsRequest
  <2> HIDE DEF held, Changed
  <2> QED
    BY <2>2, <2>3, <2>4, <2>5
<1>2. CASE line.event = "undelivered"
  <2>1. held = [ledger EXCEPT ![line.id].delivered = FALSE]
    BY <1>2 DEF Step
  <2> DEFINE Changed(r) == [r EXCEPT !.delivered = FALSE]
  <2>3. DOMAIN held = DOMAIN ledger
    BY <2>1
  <2>4. \A m \in DOMAIN ledger : held[m] = IF m = line.id THEN Changed(ledger[m]) ELSE ledger[m]
    BY <2>1
  <2>5. \A r : IsRequest(r) => /\ IsRequest(Changed(r)) /\ Changed(r).letter = r.letter
                              /\ Changed(r).outcome = r.outcome
    <3> SUFFICES ASSUME NEW r, IsRequest(r)
                 PROVE  /\ IsRequest(Changed(r)) /\ Changed(r).letter = r.letter
                        /\ Changed(r).outcome = r.outcome
      OBVIOUS
    <3>1. \A v : [r EXCEPT !.delivered = v] =
                   [letter |-> r.letter, delivered |-> v, outcome |-> r.outcome]
      BY DEF IsRequest
    <3>2. Changed(r) = [letter |-> r.letter, delivered |-> FALSE, outcome |-> r.outcome]
      BY <3>1
    <3> HIDE DEF Changed
    <3> QED
      BY <3>2 DEF IsRequest
  <2> HIDE DEF held, Changed
  <2> QED
    BY <2>3, <2>4, <2>5
<1> QED
  BY <1>1, <1>2


-----------------------------------------------------------------------------
(* Steps that leave the mail and the ledger *)

\* What the invariant reads of a run that goes on, or that stops.
LEMMA RunGoesOn ==
    ASSUME AskInv, UNCHANGED <<mail, ledger, command, owes>>, RunShape',
           run # Idle, ~Recording, run' # Idle => run'.at = "judge"
    PROVE  AskInv'
BY DEF AskInv, NoLetterTwice, Filed, MailIsFiled, StoppedRests, LetterIsNew, RecordedIsMailed,
       CheckedStands, Recording

LEMMA BeginKeeps == ASSUME AskInv, NEW w, Begin(w) PROVE AskInv'
<1>1. /\ run = Idle /\ ~owes /\ UNCHANGED <<mail, ledger, command, owes>>
      /\ RunShape' /\ run'.at = "judge"
  BY DEF Begin, RunShape, Idle
<1> QED
  BY <1>1 DEF AskInv, NoLetterTwice, Filed, MailIsFiled, StoppedRests, LetterIsNew,
              RecordedIsMailed, CheckedStands, Recording

LEMMA RejudgeKeeps == ASSUME AskInv, Rejudge PROVE AskInv'
<1> DEFINE l == Head(run.queue)
<1>0. /\ UNCHANGED <<mail, ledger, command, owes>>
      /\ run # Idle /\ run.at = "judge" /\ ~owes /\ ~Recording
  BY DEF Rejudge, AskInv, StoppedRests, Recording
<1>1. CASE JudgeIn(run.wave, l) = "ready" /\ run' = [run EXCEPT !.at = "deliver"]
  <2>1. RunShape' /\ run'.at = "deliver" /\ Head(run'.queue) = l
    BY <1>0, <1>1 DEF AskInv, RunShape, Idle
  <2>2. l.channel = "email" /\ \A r \in Of(ledger, l.authority) : r.letter # l
    BY <1>1 DEF JudgeIn, Judge
  <2>3. ASSUME NEW n \in DOMAIN mail, mail[n] = l PROVE FALSE
    <3>1. n \in DOMAIN ledger /\ ledger[n].letter = l
      BY <1>0, <2>2, <2>3 DEF AskInv, MailIsFiled, Filed
    <3> QED
      BY <2>2, <3>1 DEF Of
  <2>4. l \notin ToSet(mail)
    BY <2>3 DEF ToSet
  <2> HIDE DEF l
  <2> QED
    BY <1>0, <2>1, <2>2, <2>4
    DEF AskInv, NoLetterTwice, Filed, MailIsFiled, StoppedRests, LetterIsNew, RecordedIsMailed,
        CheckedStands, Recording
<1>2. CASE run' = Continue(Tail(run.queue), run.sent)
  BY <1>0, <1>2, Continuing, RunGoesOn DEF AskInv
<1> QED
  BY <1>1, <1>2 DEF Rejudge

LEMMA LettersWait ==
    ASSUME AskInv, NEW held, UNCHANGED <<mail, ledger, command, owes>>,
           run' = run \/ (run # Idle /\ run' = [run EXCEPT !.wave = held])
    PROVE  AskInv'
<1>1. RunShape' /\ (run' # Idle <=> run # Idle)
  BY DEF AskInv, RunShape, Idle
<1>2. run # Idle => run'.at = run.at /\ run'.queue = run.queue /\ run'.id = run.id
  BY DEF AskInv, RunShape, Idle
<1> QED
  BY <1>1, <1>2
  DEF AskInv, NoLetterTwice, Filed, MailIsFiled, StoppedRests, LetterIsNew, RecordedIsMailed,
      CheckedStands, Recording

-----------------------------------------------------------------------------
(* Letters that go out *)

\* A run that stops, having mailed nothing that is not in the ledger but what is owed.
LEMMA StopKeeps ==
    ASSUME AskInv, Stop, UNCHANGED <<mail, ledger, command>>
    PROVE  AskInv'
BY DEF AskInv, Stop, NoLetterTwice, RunShape, Filed, MailIsFiled, StoppedRests, LetterIsNew,
       RecordedIsMailed, CheckedStands, Recording

\* Whatever letter goes out that never did before, what the ledger and a command say of the
\* others stands.
LEMMA Mailed ==
    ASSUME AskInv, NEW l, l \notin ToSet(mail), mail' = Append(mail, l),
           UNCHANGED <<ledger, command>>, owes => owes'
    PROVE  /\ Sequence(mail)' /\ NoLetterTwice' /\ Filed' /\ CheckedStands'
           /\ DOMAIN mail' = DOMAIN mail \cup {Len(mail')} /\ Len(mail') \notin DOMAIN mail
           /\ \A n \in DOMAIN mail : mail'[n] = mail[n]
           /\ mail'[Len(mail')] = l
           /\ Len(mail') \notin DOMAIN ledger
<1>1. /\ Sequence(mail') /\ IsInjective(mail')
      /\ DOMAIN mail' = DOMAIN mail \cup {Len(mail')} /\ Len(mail') \notin DOMAIN mail
      /\ \A n \in DOMAIN mail : mail'[n] = mail[n]
      /\ mail'[Len(mail')] = l
  BY Appending, AppendingNew DEF AskInv, NoLetterTwice
<1>2. Filed' /\ Len(mail') \notin DOMAIN ledger
  BY <1>1 DEF AskInv, Filed
<1>3. CheckedStands'
  BY <1>1 DEF AskInv, CheckedStands
<1> QED
  BY <1>1, <1>2, <1>3 DEF NoLetterTwice, Sequence

LEMMA DeliverKeeps == ASSUME AskInv, Deliver PROVE AskInv'
<1> DEFINE l == Head(run.queue)
<1>1. /\ l.channel = "email" /\ l \notin ToSet(mail) /\ mail' = Append(mail, l)
      /\ UNCHANGED <<ledger, command, owes>> /\ run # Idle /\ ~owes /\ ~Recording
  BY DEF Deliver, AskInv, LetterIsNew, StoppedRests, Recording
<1>2. /\ RunShape' /\ run'.at = "check" /\ run'.id = Len(mail') /\ run' # Idle
  BY DEF Deliver, AskInv, RunShape, Idle
<1> HIDE DEF l
<1> QED
  BY <1>1, <1>2, Mailed
  DEF AskInv, MailIsFiled, StoppedRests, LetterIsNew, RecordedIsMailed, Recording

LEMMA RefusedKeeps == ASSUME AskInv, Refused PROVE AskInv'
<1> DEFINE l == Head(run.queue)
<1>1. CASE mail' = mail
  BY <1>1, StopKeeps DEF Refused
<1>2. CASE mail' = Append(mail, l)
  <2>1. l \notin ToSet(mail) /\ UNCHANGED <<ledger, command>> /\ run' = Idle /\ owes'
    BY DEF Refused, Stop, AskInv, LetterIsNew
  <2> HIDE DEF l
  <2> QED
    BY <1>2, <2>1, Mailed
    DEF AskInv, RunShape, MailIsFiled, StoppedRests, LetterIsNew, RecordedIsMailed, Recording
<1> QED
  BY <1>1, <1>2 DEF Refused

LEMMA SendByHandKeeps == ASSUME AskInv, NEW w, SendByHand(w) PROVE AskInv'
<1>1. PICK l \in ToSet(waves[w].letters) :
        /\ JudgeIn(w, l) = "by hand" /\ l \notin ToSet(mail) /\ mail' = Append(mail, l)
        /\ UNCHANGED <<ledger, run, command, owes>>
  BY DEF SendByHand
<1>2. l.channel # "email"
  BY <1>1 DEF JudgeIn, Judge
<1>3. \A m : m \in ToSet(mail') => m = l \/ m \in ToSet(mail)
  BY <1>1, Mailed DEF ToSet
<1> QED
  BY <1>1, <1>2, <1>3, Mailed
  DEF AskInv, RunShape, MailIsFiled, StoppedRests, LetterIsNew, RecordedIsMailed, Recording

-----------------------------------------------------------------------------
(* The ledger *)

LEMMA CheckSentKeeps == ASSUME AskInv, CheckSent PROVE AskInv'
<1>1. CASE Check(ledger, SentLine(run.id)) /\ run' = [run EXCEPT !.at = "append"] /\ UNCHANGED owes
  <2>1. run.id \notin DOMAIN ledger
    BY <1>1 DEF Check, SentLine
  <2>2. /\ UNCHANGED <<mail, ledger, command, owes>> /\ Recording /\ run # Idle
        /\ RunShape' /\ run'.at = "append" /\ run'.id = run.id /\ run' # Idle
    BY <1>1 DEF CheckSent, AskInv, RunShape, Idle, Recording
  <2> QED
    BY <2>1, <2>2
    DEF AskInv, NoLetterTwice, Filed, MailIsFiled, StoppedRests, LetterIsNew, RecordedIsMailed,
        CheckedStands, Recording
<1>2. CASE Stop
  BY <1>2, StopKeeps DEF CheckSent
<1> QED
  BY <1>1, <1>2 DEF CheckSent

\* A request that begins under a number the ledger does not have undoes no answer.
LEMMA AppendSentKeeps ==
    ASSUME AskInv, AppendSent
    PROVE  AskInv' /\ run.id \notin DOMAIN ledger
<1>1. /\ run # Idle /\ run.at = "append" /\ Recording /\ ~owes
      /\ run.id \in DOMAIN mail \ DOMAIN ledger /\ mail[run.id].channel = "email"
      /\ UNCHANGED <<mail, command, owes>>
      /\ ledger' = Step(ledger, SentLine(run.id))
  BY DEF AppendSent, AskInv, StoppedRests, RecordedIsMailed, Recording
<1>2. RunShape' /\ (run' # Idle => run'.at = "judge")
  BY <1>1, Continuing DEF AppendSent, AskInv
<1>3. /\ DOMAIN ledger' = DOMAIN ledger \cup {run.id}
      /\ IsRequest(ledger'[run.id]) /\ ledger'[run.id].letter = mail[run.id]
      /\ \A m \in DOMAIN ledger \ {run.id} : ledger'[m] = ledger[m]
  BY <1>1, SentStep
<1>4. Filed'
  BY <1>1, <1>3 DEF AskInv, Filed
<1>5. CheckedStands'
  BY <1>1, <1>3 DEF AskInv, CheckedStands
<1>6. MailIsFiled'
  BY <1>1, <1>3 DEF AskInv, MailIsFiled, Recording
<1> QED
  BY <1>1, <1>2, <1>4, <1>5, <1>6
  DEF AskInv, NoLetterTwice, StoppedRests, LetterIsNew, RecordedIsMailed, Recording

\* A command's line is about what it found when it checked.
LEMMA AppendCommandKeeps ==
    ASSUME AskInv, AppendCommand
    PROVE  /\ AskInv'
           /\ \A n \in DOMAIN ledger :
                 ledger[n].outcome # NoOutcome => ledger'[n].outcome # NoOutcome
<1>0. /\ command # NoCommand /\ command' = NoCommand /\ UNCHANGED <<mail, run, owes>>
      /\ ledger' = Step(ledger, command)
  BY DEF AppendCommand
<1>1. CASE /\ command.event = "sent"
           /\ command.id \in DOMAIN mail \ DOMAIN ledger /\ command.letter = mail[command.id]
           /\ mail[command.id].channel = "email" => owes
  <2> DEFINE n == command.id
  <2>1. /\ DOMAIN ledger' = DOMAIN ledger \cup {n}
        /\ IsRequest(ledger'[n]) /\ ledger'[n].letter = mail[n]
        /\ \A m \in DOMAIN ledger \ {n} : ledger'[m] = ledger[m]
    BY <1>0, <1>1 DEF Step, IsRequest
  <2>2. Recording => run.id # n
    BY <1>0, <1>1 DEF AskInv, RecordedIsMailed, StoppedRests, Recording
  <2>3. Filed' /\ MailIsFiled'
    BY <1>0, <1>1, <2>1 DEF AskInv, Filed, MailIsFiled, Recording
  <2>4. RecordedIsMailed'
    BY <1>0, <2>1, <2>2 DEF AskInv, RecordedIsMailed, Recording
  <2> QED
    BY <1>0, <1>1, <2>1, <2>3, <2>4
    DEF AskInv, NoLetterTwice, RunShape, StoppedRests, LetterIsNew, CheckedStands
<1>2. CASE (command.event = "outcome" /\ command.outcome \in Outcome) \/ command.event = "undelivered"
  <2>1. /\ DOMAIN ledger' = DOMAIN ledger
        /\ \A m \in DOMAIN ledger :
              /\ ledger'[m].letter = ledger[m].letter
              /\ ledger[m].outcome # NoOutcome => ledger'[m].outcome # NoOutcome
              /\ IsRequest(ledger'[m])
    BY <1>0, <1>2, OtherStep DEF AskInv, Filed
  <2>2. Filed' /\ MailIsFiled' /\ RecordedIsMailed'
    BY <1>0, <2>1 DEF AskInv, Filed, MailIsFiled, RecordedIsMailed, Recording
  <2> QED
    BY <1>0, <2>1, <2>2
    DEF AskInv, NoLetterTwice, RunShape, StoppedRests, LetterIsNew, CheckedStands
<1> QED
  BY <1>0, <1>1, <1>2 DEF AskInv, CheckedStands

\* A command that has checked its line.
LEMMA CommandKeeps ==
    ASSUME AskInv, NEW n \in DOMAIN mail,
           RecordSent(n) \/ RecordUndelivered(n) \/ \E o \in Outcome : RecordOutcome(n, o)
    PROVE  AskInv'
<1>0. UNCHANGED <<mail, ledger, run, owes>>
  BY DEF RecordSent, RecordUndelivered, RecordOutcome, CheckCommand
<1>1. CheckedStands'
  <2>1. CASE RecordSent(n)
    BY <1>0, <2>1 DEF RecordSent, CheckCommand, Check, SentLine, CheckedStands
  <2>2. CASE RecordUndelivered(n)
    BY <1>0, <2>2 DEF RecordUndelivered, CheckCommand, UndeliveredLine, CheckedStands
  <2>3. CASE \E o \in Outcome : RecordOutcome(n, o)
    BY <1>0, <2>3 DEF RecordOutcome, CheckCommand, OutcomeLine, CheckedStands
  <2> QED
    BY <2>1, <2>2, <2>3
<1> QED
  BY <1>0, <1>1
  DEF AskInv, NoLetterTwice, RunShape, Filed, MailIsFiled, StoppedRests, LetterIsNew,
      RecordedIsMailed, Recording

LEMMA LookedKeeps == ASSUME AskInv, Looked PROVE AskInv'
BY DEF Looked, AskInv, NoLetterTwice, RunShape, Filed, MailIsFiled, StoppedRests, LetterIsNew,
       RecordedIsMailed, CheckedStands, Recording

-----------------------------------------------------------------------------
LEMMA AskInitially == AskInit => AskInv
<1> SUFFICES ASSUME AskInit PROVE AskInv
  OBVIOUS
<1>1. mail = <<>> /\ ledger = <<>> /\ run = Idle /\ command = NoCommand /\ owes = FALSE
  BY DEF AskInit
<1>2. Sequence(mail) /\ DOMAIN mail = {}
  BY <1>1 DEF Sequence
<1> QED
  BY <1>1, <1>2
  DEF AskInv, NoLetterTwice, IsInjective, RunShape, Filed, MailIsFiled, StoppedRests, LetterIsNew,
      RecordedIsMailed, CheckedStands, Recording

\* A step keeps the invariant, and every answer there is.
LEMMA AskStep ==
    ASSUME AskInv, [AskNext]_askVars
    PROVE  /\ AskInv'
           /\ \A n \in DOMAIN ledger :
                 ledger[n].outcome # NoOutcome => ledger'[n].outcome # NoOutcome
<1>1. ASSUME UNCHANGED <<mail, ledger, command, owes, run>> PROVE AskInv'
  BY <1>1, LettersWait
<1>2. CASE Send
  <2>1. CASE AppendSent
    <3>1. AskInv' /\ run.id \notin DOMAIN ledger /\ ledger' = Step(ledger, SentLine(run.id))
      BY <2>1, AppendSentKeeps DEF AppendSent
    <3> QED
      BY <3>1, SentStep
  <2>2. CASE (\E w \in DOMAIN waves : Begin(w)) \/ Rejudge \/ Deliver \/ CheckSent \/ Refused \/ Die
    <3>1. ledger' = ledger
      BY <2>2 DEF Begin, Rejudge, Deliver, CheckSent, Refused, Die
    <3>2. AskInv'
      BY <2>2, BeginKeeps, RejudgeKeeps, DeliverKeeps, CheckSentKeeps, RefusedKeeps, StopKeeps DEF Die
    <3> QED
      BY <3>1, <3>2
  <2> QED
    BY <1>2, <2>1, <2>2 DEF Send
<1>3. CASE Owner
  <2>1. CASE AppendCommand
    BY <2>1, AppendCommandKeeps
  <2>2. CASE WriteWave
    <3>1. /\ UNCHANGED <<mail, ledger, command, owes>>
          /\ run' = run \/ (run # Idle /\ run' = [run EXCEPT !.wave = 1])
      BY <2>2 DEF WriteWave
    <3> QED
      BY <3>1, LettersWait
  <2>3. CASE Looked
    BY <2>3, LookedKeeps DEF Looked
  <2>4. CASE \E n \in DOMAIN mail :
                RecordSent(n) \/ RecordUndelivered(n) \/ \E o \in Outcome : RecordOutcome(n, o)
    BY <2>4, CommandKeeps DEF RecordSent, RecordUndelivered, RecordOutcome, CheckCommand
  <2>5. CASE \E w \in DOMAIN waves : SendByHand(w) \/ EditLetter(w)
    BY <1>1, <2>5, SendByHandKeeps DEF SendByHand, EditLetter
  <2> QED
    BY <1>3, <2>1, <2>2, <2>3, <2>4, <2>5 DEF Owner
<1>4. CASE World
  BY <1>1, <1>4 DEF World, SetRoute, Link, Hold
<1>5. CASE UNCHANGED askVars
  BY <1>1, <1>5 DEF askVars
<1> QED
  BY <1>2, <1>3, <1>4, <1>5 DEF AskNext

\* No letter goes out twice, whatever sends are killed or stopped and wherever, whatever is
\* edited, and however many authorities, letters and addresses there are.
THEOREM LettersGoOnce == AskSpec => []NoLetterTwice
<1>1. AskInv /\ [AskNext]_askVars => AskInv'
  BY AskStep
<1>2. AskInv => NoLetterTwice
  BY DEF AskInv
<1> QED
  BY <1>1, <1>2, AskInitially, PTL DEF AskSpec

\* No line of the ledger undoes an answer, though a command appends its line to another ledger
\* than the one it checked.
THEOREM AnswersAreKept == AskSpec => AnswersStay
<1>1. AskInv /\ [AskNext]_askVars => AskInv'
  BY AskStep
<1>2. AskInv /\ [AskNext]_askVars =>
        [\A n \in DOMAIN ledger :
            ledger[n].outcome # NoOutcome => ledger'[n].outcome # NoOutcome]_askVars
  BY AskStep
<1> QED
  BY <1>1, <1>2, AskInitially, PTL DEF AskSpec, AnswersStay

-----------------------------------------------------------------------------
(* Promotion: the inductive invariant *)

FileKind == {"page", "evidence", "obs", "record"}

\* What is in the files, where they are there.
Shaped(files) ==
    /\ DOMAIN files = FileKind
    /\ files.page # None => files.page \in PageFile
    /\ files.obs # None => files.obs \in ObsFile
    /\ files.record # None => files.record \in ManifestRecord

\* A decision is of a text observed by then, and later ones are made later.
IsDecision(i) == i \in DOMAIN log /\ log[i].kind = "decision"
LogIsSound ==
    /\ Sequence(log) /\ seen \in Seq(Text) /\ extractor \in 1..MaxExtractor
    /\ \A i \in DOMAIN log :
          IsDecision(i) => /\ log[i].at \in 1..Len(seen)
                           /\ \E j \in 1..log[i].at : seen[j] = log[i].text
    /\ \A i, j \in DOMAIN log : IsDecision(i) /\ IsDecision(j) /\ i < j => log[i].at <= log[j].at

\* A version was approved, by a decision that may not have been carried yet.
Decided(v) ==
    /\ v.first \in Nat
    /\ \E i \in Decisions(v.text) :
          /\ log[i].approves /\ log[i].at = v.decided /\ v.first <= v.decided
          /\ ~v.carried => log[i].by = v.by

\* ... and is, once these lines are in the log, or a repetition of the migration took them to be.
WillBeApproved(v, lines) ==
    \E i \in Decisions(v.text) :
        /\ log[i].approves /\ log[i].at = v.decided /\ v.first <= v.decided
        /\ IF v.carried
           THEN \/ \E line \in ToSet(log) \cup ToSet(lines) :
                      line.kind = "carried" /\ line.text = v.text /\ line.to = v.by
                \/ <<"migrate", v.by>> \in passed
           ELSE log[i].by = v.by
AreApproved(files, lines) ==
    \A m \in DOMAIN files.obs.versions : WillBeApproved(files.obs.versions[m], lines)

\* The versions that the observations list are those that were published, in their order.
Story(files) ==
    LET versions == files.obs.versions
        n == files.record.version
    IN  /\ files.record # None /\ files.obs # None
        /\ Len(versions) = n /\ versions[n].text = files.record.text
        /\ \A m \in 1..(n - 1) : versions[m].first < versions[m + 1].first
        /\ \A m \in 1..n : Decided(versions[m])
        /\ \A p \in pages : p.version \in 1..n /\ versions[p.version].text = p.text

Unpublished(files) == files.record = None /\ files.page = None /\ pages = {}
Told(files, lines) == IsWhole(files) /\ Story(files) /\ AreApproved(files, lines)

\* The command that runs, or else the one that was killed.
Doing == IF job # NoJob THEN job.kind ELSE owed

\* What there is of the files while a command writes them, and once it was killed.
TreeStands ==
    /\ Doing \in {"none", "observe", "refresh"} => Unpublished(tree) \/ Told(tree, <<>>)
    /\ Doing = "migrate" => IsWhole(tree) /\ Story(tree) /\ tree.record.status = "current"
    /\ Doing = "withdraw" =>
          /\ Story(tree) /\ AreApproved(tree, <<>>)
          /\ tree.page = None \/ PageFits(tree)
          /\ EvidenceFits(tree)
          /\ tree.record.status = "removed" => tree.obs.withdrawn
    /\ Doing \in {"local", "backfill"} =>
          IF tree.record = None THEN pages = {}
          ELSE tree.obs # None /\ Len(tree.obs.versions) = tree.record.version
                  => Story(tree) /\ AreApproved(tree, <<>>)

\* The writes that a promotion has left: its record is the last of them.
Promoting ==
    /\ job.lines = <<>>
    /\ ToSet(job.queue) \subseteq FileKind /\ IsInjective(job.queue)
    /\ job.queue[Len(job.queue)] = "record"
    /\ job.target.record.version = NextNumber
    /\ job.target.page # None

Withdrawing ==
    /\ \/ job.queue = WithdrawalQueue /\ job.lines = <<[kind |-> "withdrawal"]>>
       \/ /\ job.lines = <<>> /\ Withdrawn
          /\ job.queue \in {<<"obs", "record", "page", "evidence">>, <<"record", "page", "evidence">>,
                            <<"page", "evidence">>, <<"evidence">>}
    /\ tree.record # None /\ tree.obs # None
    /\ job.target.record.version = tree.record.version
    /\ job.target.record.text = tree.record.text /\ job.target.record.status = "removed"
    /\ job.target.obs.versions = tree.obs.versions
    /\ job.target.page = None /\ job.target.obs.withdrawn

\* The lines of a migration come after its files.
Migrating ==
    /\ \A i \in DOMAIN job.queue : job.queue[i] = "log" <=> i > Len(job.queue) - Len(job.lines)
    /\ \A i \in DOMAIN job.lines : job.lines[i].kind = "carried"
    /\ Len(job.lines) <= Len(job.queue)
    /\ ToSet(job.queue) \subseteq {"evidence", "obs", "record", "log"}
    /\ tree.record # None /\ tree.obs # None
    /\ tree.evidence = job.target.evidence
    /\ \A f \in {"version", "text", "status"} : job.target.record[f] = tree.record[f]

JobStands ==
    job # NoJob =>
        /\ owed = "none"
        /\ DOMAIN job = {"kind", "queue", "target", "lines"}
        /\ Sequence(job.queue) /\ job.queue # <<>> /\ Sequence(job.lines)
        /\ job.kind \in {"local", "backfill", "observe", "withdraw", "migrate", "refresh"}
        /\ Shaped(job.target) /\ Told(job.target, job.lines)
        /\ \A f \in FileKind : f \notin ToSet(job.queue) => tree[f] = job.target[f]
        /\ job.kind \in {"local", "backfill"} => Promoting
        /\ job.kind = "observe" => job.queue = <<"obs">> /\ job.lines = <<>>
        /\ job.kind = "refresh" =>
              job.queue = <<"page">> /\ job.lines = <<>> /\ job.target.page # None
        /\ job.kind \in {"local", "refresh"} => ~Withdrawn
        /\ job.kind = "withdraw" => Withdrawing
        /\ job.kind = "migrate" => Migrating

PromotionInv ==
    /\ LogIsSound /\ order \in FileOrders
    /\ owed \in {"none", "local", "backfill", "withdraw", "migrate"}
    /\ Shaped(tree) /\ Shaped(head)
    /\ Unpublished(head) \/ Told(head, <<>>)
    /\ TreeStands /\ JobStands
-----------------------------------------------------------------------------
(* What the log says stays said *)

Grows ==
    /\ DOMAIN log \subseteq DOMAIN log' /\ \A i \in DOMAIN log : log'[i] = log[i]
    /\ passed \subseteq passed'

LEMMA DecidedStays ==
    ASSUME Grows
    PROVE  \A v : Decided(v) => Decided(v)'
<1> SUFFICES ASSUME NEW v, Decided(v) PROVE Decided(v)'
  OBVIOUS
<1>1. PICK i \in Decisions(v.text) :
        /\ log[i].approves /\ log[i].at = v.decided /\ v.first <= v.decided
        /\ ~v.carried => log[i].by = v.by
  BY DEF Decided
<1>2. i \in Decisions(v.text)' /\ log'[i] = log[i]
  BY <1>1 DEF Grows, Decisions
<1> QED
  BY <1>1, <1>2 DEF Decided

LEMMA ApprovedStays ==
    ASSUME Grows
    PROVE  \A v, lines, more :
              /\ WillBeApproved(v, lines)
              /\ ToSet(log) \cup ToSet(lines) \subseteq ToSet(log') \cup ToSet(more)
              => WillBeApproved(v, more)'
<1> SUFFICES ASSUME NEW v, NEW lines, NEW more, WillBeApproved(v, lines),
                    ToSet(log) \cup ToSet(lines) \subseteq ToSet(log') \cup ToSet(more)
             PROVE  WillBeApproved(v, more)'
  OBVIOUS
<1>1. PICK i \in Decisions(v.text) :
        /\ log[i].approves /\ log[i].at = v.decided /\ v.first <= v.decided
        /\ IF v.carried
           THEN \/ \E line \in ToSet(log) \cup ToSet(lines) :
                      line.kind = "carried" /\ line.text = v.text /\ line.to = v.by
                \/ <<"migrate", v.by>> \in passed
           ELSE log[i].by = v.by
  BY DEF WillBeApproved
<1>2. i \in Decisions(v.text)' /\ log'[i] = log[i]
  BY <1>1 DEF Grows, Decisions
<1>3. IF v.carried
      THEN \/ \E line \in ToSet(log') \cup ToSet(more) :
                 line.kind = "carried" /\ line.text = v.text /\ line.to = v.by
           \/ <<"migrate", v.by>> \in passed'
      ELSE log'[i].by = v.by
  BY <1>1, <1>2 DEF Grows
<1> QED
  BY <1>1, <1>2, <1>3 DEF WillBeApproved

LEMMA NothingIsSet == ToSet(<<>>) = {}
BY DEF ToSet

LEMMA WholeStays == ASSUME Grows PROVE \A f : IsWhole(f) => IsWhole(f)'
BY DEF Grows, IsWhole, IsGone, PageFits, EvidenceFits

\* A story that was told is told still, whatever is appended to the log.
LEMMA ToldStays ==
    ASSUME Grows, pages' = pages
    PROVE  /\ \A f : Story(f) => Story(f)'
           /\ \A f, lines, more :
                 /\ ToSet(log) \cup ToSet(lines) \subseteq ToSet(log') \cup ToSet(more)
                 /\ AreApproved(f, lines)
                 => AreApproved(f, more)'
           /\ \A f : IsWhole(f) => IsWhole(f)'
<1>1. ASSUME NEW f, Story(f) PROVE Story(f)'
  BY <1>1, DecidedStays DEF Story
<1>2. ASSUME NEW f, NEW lines, NEW more, AreApproved(f, lines),
             ToSet(log) \cup ToSet(lines) \subseteq ToSet(log') \cup ToSet(more)
      PROVE  AreApproved(f, more)'
  BY <1>2, ApprovedStays DEF AreApproved
<1> QED
  BY <1>1, <1>2, WholeStays

LEMMA LogIsPart == ASSUME Grows PROVE ToSet(log) \subseteq ToSet(log')
BY DEF Grows, ToSet

\* Where the files rest, what is said of them stands.
LEMMA FilesRest ==
    ASSUME PromotionInv, UNCHANGED <<tree, head, pages>>, Doing' = Doing, Grows
    PROVE  TreeStands' /\ (Unpublished(head) \/ Told(head, <<>>))'
<1>1. /\ \A f : Story(f) => Story(f)'
      /\ \A f : AreApproved(f, <<>>) => AreApproved(f, <<>>)'
      /\ \A f : IsWhole(f) => IsWhole(f)'
      /\ \A f : (PageFits(f) => PageFits(f)') /\ (EvidenceFits(f) => EvidenceFits(f)')
  BY ToldStays, LogIsPart, NothingIsSet DEF PageFits, EvidenceFits
<1>2. \A f : Told(f, <<>>) => Told(f, <<>>)'
  BY <1>1 DEF Told
<1>3. \A f : (Unpublished(f) => Unpublished(f)')
  BY DEF Unpublished
<1>4. TreeStands'
  BY <1>1, <1>2, <1>3 DEF PromotionInv, TreeStands
<1>5. (Unpublished(head) \/ Told(head, <<>>))'
  BY <1>2, <1>3 DEF PromotionInv
<1> QED
  BY <1>4, <1>5

\* Where no command runs, and neither the files nor what is owed changes.
LEMMA OthersKeep ==
    ASSUME PromotionInv, job = NoJob, UNCHANGED <<tree, head, pages, order, job, owed>>,
           Grows, LogIsSound'
    PROVE  PromotionInv'
<1>1. /\ Doing' = Doing /\ JobStands'
  BY DEF Doing, JobStands
<1> QED
  BY <1>1, FilesRest DEF PromotionInv

LEMMA DecideKeeps == ASSUME PromotionInv, Decide PROVE PromotionInv'
<1>1. PICK t \in ToSet(seen), yes \in BOOLEAN :
        log' = Append(log, [kind |-> "decision", text |-> t, approves |-> yes,
                            at |-> Len(seen), by |-> extractor])
  BY DEF Decide
<1> DEFINE line == [kind |-> "decision", text |-> t, approves |-> yes, at |-> Len(seen), by |-> extractor]
           n == Len(log) + 1
<1>2. /\ Sequence(log') /\ DOMAIN log = 1..Len(log) /\ Len(log) \in Nat
      /\ DOMAIN log' = DOMAIN log \cup {n} /\ n \notin DOMAIN log
      /\ \A i \in DOMAIN log : log'[i] = log[i]
      /\ log'[n] = line
  BY <1>1, Appending DEF PromotionInv, LogIsSound
<1>3. Len(seen) \in Nat /\ \E j \in 1..Len(seen) : seen[j] = t
  BY <1>1 DEF PromotionInv, LogIsSound, ToSet
<1>4. line.kind = "decision" /\ line.at = Len(seen) /\ line.text = t /\ Len(seen) \in 1..Len(seen)
  BY <1>3
<1>5. UNCHANGED <<seen, extractor, tree, head, pages, order, job, owed, passed>> /\ job = NoJob
  BY DEF Decide
<1> HIDE DEF line
<1>6. ASSUME NEW i \in DOMAIN log', IsDecision(i)'
      PROVE  /\ log'[i].at \in 1..Len(seen)
             /\ \E j \in 1..log'[i].at : seen[j] = log'[i].text
  <2>1. CASE i = n
    BY <1>2, <1>3, <1>4, <2>1
  <2>2. CASE i \in DOMAIN log
    BY <1>2, <1>6, <2>2 DEF PromotionInv, LogIsSound, IsDecision
  <2> QED
    BY <1>2, <2>1, <2>2
<1>7. ASSUME NEW i \in DOMAIN log', NEW j \in DOMAIN log', IsDecision(i)', IsDecision(j)', i < j
      PROVE  log'[i].at <= log'[j].at
  <2>1. i \in DOMAIN log
    BY <1>2, <1>7
  <2>2. CASE j = n
    <3>1. log'[j].at = Len(seen)
      BY <1>2, <1>4, <2>2
    <3> QED
      BY <1>3, <1>6, <1>7, <3>1
  <2>3. CASE j \in DOMAIN log
    BY <1>2, <1>7, <2>1, <2>3 DEF PromotionInv, LogIsSound, IsDecision
  <2> QED
    BY <1>2, <2>2, <2>3
<1>8. LogIsSound'
  BY <1>2, <1>5, <1>6, <1>7 DEF PromotionInv, LogIsSound
<1>9. Grows
  BY <1>2, <1>5 DEF Grows
<1> QED
  BY <1>5, <1>8, <1>9, OthersKeep

LEMMA CaptureKeeps == ASSUME PromotionInv, Capture PROVE PromotionInv'
<1>1. PICK t \in Text : seen' = Append(seen, t)
  BY DEF Capture
<1>2. /\ seen' \in Seq(Text) /\ Len(seen') = Len(seen) + 1 /\ Len(seen) \in Nat
      /\ \A j \in 1..Len(seen) : seen'[j] = seen[j]
  BY <1>1 DEF PromotionInv, LogIsSound
<1>3. UNCHANGED <<log, extractor, tree, head, pages, order, job, owed, passed>> /\ job = NoJob
  BY DEF Capture
<1>4. ASSUME NEW i \in DOMAIN log, IsDecision(i)
      PROVE  log[i].at \in 1..Len(seen') /\ \E j \in 1..log[i].at : seen'[j] = log[i].text
  <2>1. log[i].at \in 1..Len(seen) /\ \E j \in 1..log[i].at : seen[j] = log[i].text
    BY <1>4 DEF PromotionInv, LogIsSound
  <2>2. PICK j \in 1..log[i].at : seen[j] = log[i].text
    BY <2>1
  <2>3. j \in 1..Len(seen)
    BY <1>2, <2>1, <2>2
  <2> QED
    BY <1>2, <2>1, <2>2, <2>3
<1>5. \A i : IsDecision(i)' <=> IsDecision(i)
  BY <1>3 DEF IsDecision
<1>6. LogIsSound'
  BY <1>2, <1>3, <1>4, <1>5 DEF PromotionInv, LogIsSound
<1> QED
  BY <1>3, <1>6, OthersKeep DEF Grows

LEMMA UpgradeKeeps == ASSUME PromotionInv, Upgrade PROVE PromotionInv'
<1>1. UNCHANGED <<seen, log, tree, head, pages, order, job, owed, passed>> /\ job = NoJob
  BY DEF Upgrade
<1>2. LogIsSound'
  BY <1>1, PromotionAssumption DEF Upgrade, PromotionInv, LogIsSound, IsDecision
<1> QED
  BY <1>1, <1>2, OthersKeep DEF Grows

LEMMA KillKeeps == ASSUME PromotionInv, Kill PROVE PromotionInv'
<1>1. /\ job # NoJob /\ job' = NoJob /\ owed = "none"
      /\ owed' = IF job.kind \in {"observe", "refresh"} THEN "none" ELSE job.kind
      /\ UNCHANGED <<seen, extractor, log, tree, head, pages, order, passed>>
      /\ job.kind \in {"local", "backfill", "observe", "withdraw", "migrate", "refresh"}
  BY DEF Kill, PromotionInv, JobStands
<1>2. /\ JobStands' /\ Doing = job.kind
      /\ Doing' = IF job.kind \in {"observe", "refresh"} THEN "none" ELSE job.kind
  BY <1>1 DEF JobStands, Doing
<1>3. LogIsSound'
  BY <1>1 DEF PromotionInv, LogIsSound, IsDecision
<1>4. Grows
  BY <1>1 DEF Grows
<1>5. /\ \A f : Story(f) => Story(f)'
      /\ \A f : AreApproved(f, <<>>) => AreApproved(f, <<>>)'
      /\ \A f : IsWhole(f) => IsWhole(f)'
      /\ \A f : (PageFits(f) => PageFits(f)') /\ (EvidenceFits(f) => EvidenceFits(f)')
  BY <1>1, <1>4, ToldStays, LogIsPart, NothingIsSet DEF PageFits, EvidenceFits
<1>6. /\ \A f : Told(f, <<>>) => Told(f, <<>>)'
      /\ \A f : (Unpublished(f) => Unpublished(f)')
  BY <1>1, <1>5 DEF Told, Unpublished
<1>7. (Unpublished(head) \/ Told(head, <<>>))'
  BY <1>1, <1>6 DEF PromotionInv
<1>8. TreeStands'
  BY <1>1, <1>2, <1>5, <1>6 DEF PromotionInv, TreeStands
<1> QED
  BY <1>1, <1>2, <1>3, <1>7, <1>8 DEF PromotionInv

LEMMA RestoreKeeps == ASSUME PromotionInv, Restore PROVE PromotionInv'
<1>1. /\ job = NoJob /\ job' = NoJob /\ owed' = "none" /\ tree' = head
      /\ UNCHANGED <<seen, extractor, log, head, pages, order, passed>>
  BY DEF Restore
<1>2. JobStands' /\ Doing' = "none"
  BY <1>1 DEF JobStands, Doing
<1>3. LogIsSound'
  BY <1>1 DEF PromotionInv, LogIsSound, IsDecision
<1>4. /\ \A f : Story(f) => Story(f)'
      /\ \A f : AreApproved(f, <<>>) => AreApproved(f, <<>>)'
      /\ \A f : IsWhole(f) => IsWhole(f)'
  BY <1>1, ToldStays, LogIsPart, NothingIsSet DEF Grows
<1>5. /\ \A f : Told(f, <<>>) => Told(f, <<>>)'
      /\ \A f : (Unpublished(f) => Unpublished(f)')
  BY <1>1, <1>4 DEF Told, Unpublished
<1>6. (Unpublished(head) \/ Told(head, <<>>))' /\ (Unpublished(tree) \/ Told(tree, <<>>))'
  BY <1>1, <1>5 DEF PromotionInv
<1>7. TreeStands'
  BY <1>2, <1>6 DEF TreeStands
<1> QED
  BY <1>1, <1>2, <1>3, <1>6, <1>7 DEF PromotionInv

LEMMA CommitKeeps == ASSUME PromotionInv, Commit PROVE PromotionInv'
<1>1. /\ job = NoJob /\ owed = "none" /\ head' = tree
      /\ pages' = pages \cup ({tree.page} \ {None})
      /\ UNCHANGED <<seen, extractor, log, tree, order, job, owed, passed>>
  BY DEF Commit
<1>2. JobStands' /\ Doing = "none" /\ Doing' = "none"
  BY <1>1 DEF JobStands, Doing
<1>3. LogIsSound'
  BY <1>1 DEF PromotionInv, LogIsSound, IsDecision
<1>4. Unpublished(tree) \/ Told(tree, <<>>)
  BY <1>2 DEF PromotionInv, TreeStands
<1>5. CASE Unpublished(tree)
  <2>1. Unpublished(tree)' /\ Unpublished(head)'
    BY <1>1, <1>5 DEF Unpublished
  <2>2. TreeStands'
    BY <1>2, <2>1 DEF TreeStands
  <2> QED
    BY <1>1, <1>2, <1>3, <2>1, <2>2 DEF PromotionInv
<1>6. CASE Told(tree, <<>>)
  <2>1. IsWhole(tree) /\ Story(tree) /\ AreApproved(tree, <<>>)
    BY <1>6 DEF Told
  <2>2. tree.page # None =>
          tree.page.version \in 1..tree.record.version
          /\ tree.obs.versions[tree.page.version].text = tree.page.text
    <3>1. tree.record.version \in Nat \ {0}
      BY <2>1 DEF PromotionInv, Shaped, ManifestRecord, Story
    <3> QED
      BY <2>1, <3>1 DEF IsWhole, IsGone, PageFits, Story
  <2>3. Grows
    BY <1>1 DEF Grows
  <2>4. \A v : Decided(v) => Decided(v)'
    BY <2>3, DecidedStays
  <2>5. Story(tree)'
    BY <1>1, <2>1, <2>2, <2>4 DEF Story
  <2>6. AreApproved(tree, <<>>)'
    BY <1>1, <2>1 DEF AreApproved, WillBeApproved, Decisions
  <2>7. IsWhole(tree)'
    BY <1>1, <2>1 DEF IsWhole, IsGone, PageFits, EvidenceFits
  <2>8. Told(tree, <<>>)' /\ Told(head, <<>>)'
    BY <1>1, <2>5, <2>6, <2>7 DEF Told, Story, AreApproved, IsWhole, IsGone, PageFits, EvidenceFits
  <2>9. TreeStands'
    BY <1>2, <2>8 DEF TreeStands
  <2> QED
    BY <1>1, <1>2, <1>3, <2>8, <2>9 DEF PromotionInv
<1> QED
  BY <1>4, <1>5, <1>6

-----------------------------------------------------------------------------
(* A command writes the next file, or line *)

LEMMA Proceeding ==
    ASSUME PromotionInv, Proceed
    PROVE  /\ job # NoJob /\ JobStands /\ Sequence(job.queue) /\ job.queue # <<>>
           /\ UNCHANGED <<seen, extractor, head, pages, order, owed, passed>>
           /\ Head(job.queue) = "log" => tree' = tree /\ log' = Logged(Head(job.lines))
           /\ Head(job.queue) # "log" =>
                /\ log' = log
                /\ tree' = [tree EXCEPT ![Head(job.queue)] = job.target[Head(job.queue)]]
           /\ Len(job.queue) = 1 => job' = NoJob
           /\ Len(job.queue) # 1 =>
                /\ job' # NoJob /\ DOMAIN job' = DOMAIN job
                /\ job'.kind = job.kind /\ job'.target = job.target
                /\ job'.queue = Tail(job.queue) /\ job'.queue # <<>>
                /\ job'.lines = IF Head(job.queue) = "log" THEN Tail(job.lines) ELSE job.lines
<1>1. /\ job # NoJob /\ JobStands /\ Sequence(job.queue) /\ job.queue # <<>>
      /\ DOMAIN job = {"kind", "queue", "target", "lines"}
  BY DEF Proceed, PromotionInv, JobStands
<1>2. CASE Len(job.queue) # 1
  <2>1. job' = [job EXCEPT !.queue = Tail(@),
                           !.lines = IF Head(job.queue) = "log" THEN Tail(@) ELSE @]
    BY <1>2 DEF Proceed
  <2>2. Tail(job.queue) # <<>>
    BY <1>1, <1>2, TakingOff
  <2>3. /\ DOMAIN job' = DOMAIN job
        /\ job'.kind = job.kind /\ job'.target = job.target /\ job'.queue = Tail(job.queue)
        /\ job'.lines = IF Head(job.queue) = "log" THEN Tail(job.lines) ELSE job.lines
    BY <1>1, <2>1
  <2>4. job' # NoJob
    <3>1. NoJob.queue = <<>>
      BY DEF NoJob
    <3> QED
      BY <2>2, <2>3, <3>1
  <2> QED
    BY <1>1, <1>2, <2>1, <2>2, <2>3, <2>4 DEF Proceed
<1>3. CASE Len(job.queue) = 1
  BY <1>1, <1>3 DEF Proceed
<1> QED
  BY <1>2, <1>3

\* The files after one of them was replaced.
LEMMA Replacing ==
    ASSUME PromotionInv, Proceed, Head(job.queue) \in FileKind
    PROVE  /\ Shaped(tree') /\ log' = log
           /\ \A k \in FileKind : tree'[k] = IF k = Head(job.queue) THEN job.target[k] ELSE tree[k]
           /\ \A k \in FileKind : k \notin ToSet(Tail(job.queue)) => tree'[k] = job.target[k]
<1> DEFINE f == Head(job.queue)
<1>0. f # "log"
  BY DEF FileKind
<1>1. /\ log' = log /\ tree' = [tree EXCEPT ![f] = job.target[f]]
      /\ Shaped(tree) /\ Shaped(job.target) /\ JobStands /\ job # NoJob
      /\ ToSet(job.queue) = {f} \cup ToSet(Tail(job.queue))
  BY <1>0, Proceeding, TakingOff DEF PromotionInv, JobStands
<1> HIDE DEF f
<1>2. /\ DOMAIN tree' = FileKind
      /\ \A k \in FileKind : tree'[k] = IF k = f THEN job.target[k] ELSE tree[k]
  BY <1>1 DEF Shaped
<1>3. \A k \in FileKind : k \notin ToSet(Tail(job.queue)) => tree'[k] = job.target[k]
  BY <1>1, <1>2 DEF JobStands
<1>4. /\ tree'.page \in {tree.page, job.target.page} /\ tree'.obs \in {tree.obs, job.target.obs}
      /\ tree'.record \in {tree.record, job.target.record}
  BY <1>2 DEF FileKind
<1>5. Shaped(tree')
  BY <1>1, <1>2, <1>4 DEF Shaped
<1> QED
  BY <1>1, <1>2, <1>3, <1>5 DEF f

\* The log after a line was appended to it.
LEMMA Lining ==
    ASSUME PromotionInv, Proceed, Head(job.queue) = "log",
           Head(job.lines).kind # "decision"
    PROVE  /\ tree' = tree /\ Grows /\ LogIsSound'
           /\ ToSet(log') = ToSet(log) \cup {Head(job.lines)}
<1> DEFINE line == Head(job.lines)
<1>1. tree' = tree /\ log' = Logged(line) /\ UNCHANGED <<seen, extractor, passed>> /\ Sequence(log)
  BY Proceeding DEF PromotionInv, LogIsSound
<1>2. line.kind # "decision"
  OBVIOUS
<1> HIDE DEF line
<1>3. CASE line \in ToSet(log)
  <2>1. log' = log
    BY <1>1, <1>3 DEF Logged
  <2> QED
    BY <1>1, <1>3, <2>1 DEF PromotionInv, LogIsSound, IsDecision, Grows, line
<1>4. CASE line \notin ToSet(log)
  <2> DEFINE n == Len(log) + 1
  <2>1. log' = Append(log, line)
    BY <1>1, <1>4 DEF Logged
  <2>2. /\ Sequence(log') /\ DOMAIN log' = DOMAIN log \cup {n} /\ n \notin DOMAIN log
        /\ \A i \in DOMAIN log : log'[i] = log[i]
        /\ log'[n] = line
    BY <1>1, <2>1, Appending
  <2> HIDE DEF n
  <2>3. \A i \in DOMAIN log' : IsDecision(i)' => i \in DOMAIN log /\ IsDecision(i) /\ log'[i] = log[i]
    BY <1>2, <2>2 DEF IsDecision
  <2>4. LogIsSound'
    BY <1>1, <2>2, <2>3 DEF PromotionInv, LogIsSound
  <2>5. ToSet(log') = ToSet(log) \cup {line}
    <3>1. ASSUME NEW x \in ToSet(log') PROVE x \in ToSet(log) \cup {line}
      BY <2>2, <3>1 DEF ToSet
    <3>2. ASSUME NEW x \in ToSet(log) \cup {line} PROVE x \in ToSet(log')
      BY <2>2, <3>2 DEF ToSet
    <3> QED
      BY <3>1, <3>2
  <2> QED
    BY <1>1, <2>2, <2>4, <2>5 DEF Grows, line
<1> QED
  BY <1>3, <1>4

\* The last write of a command: the files are what it meant to leave.
LEMMA Ending ==
    ASSUME PromotionInv, Proceed, Len(job.queue) = 1,
           Grows, LogIsSound', Shaped(tree'),
           \A k \in FileKind : k \notin ToSet(Tail(job.queue)) => tree'[k] = job.target[k],
           ToSet(job.lines) \subseteq ToSet(log')
    PROVE  PromotionInv'
<1>1. /\ job' = NoJob /\ UNCHANGED <<head, pages, order, owed>> /\ owed = "none"
      /\ Told(job.target, job.lines)
  BY Proceeding DEF JobStands
<1>2. ToSet(Tail(job.queue)) = {}
  <2>1. DOMAIN Tail(job.queue) = 1..(1 - 1)
    BY Proceeding, TakingOff
  <2> QED
    BY <2>1 DEF ToSet
<1>3. JobStands' /\ Doing' = "none"
  BY <1>1 DEF JobStands, Doing
<1>4. /\ \A f : Story(f) => Story(f)'
      /\ \A f : AreApproved(f, job.lines) => AreApproved(f, <<>>)'
      /\ \A f : AreApproved(f, <<>>) => AreApproved(f, <<>>)'
      /\ \A f : IsWhole(f) => IsWhole(f)'
  <2>1. ToSet(log) \subseteq ToSet(log')
    BY LogIsPart
  <2> QED
    BY <1>1, <2>1, ToldStays, NothingIsSet
<1>5. /\ \A f : Told(f, job.lines) => Told(f, <<>>)'
      /\ \A f : Told(f, <<>>) => Told(f, <<>>)'
      /\ \A f : (Unpublished(f) => Unpublished(f)')
  BY <1>1, <1>4 DEF Told, Unpublished
<1>6. \A k \in FileKind : tree'[k] = job.target[k]
  BY <1>2
<1>7. Told(tree, <<>>)'
  <2>1. PICK f : f = job.target
    OBVIOUS
  <2>2. Told(f, <<>>)'
    BY <1>1, <1>5, <2>1
  <2>3. /\ f.page = tree'.page /\ f.evidence = tree'.evidence /\ f.obs = tree'.obs
        /\ f.record = tree'.record
    BY <1>6, <2>1 DEF FileKind
  <2>4. Story(tree)'
    BY <2>2, <2>3 DEF Told, Story
  <2>5. AreApproved(tree, <<>>)'
    BY <2>2, <2>3 DEF Told, AreApproved
  <2>6. IsWhole(tree)'
    BY <2>2, <2>3 DEF Told, IsWhole, IsGone, PageFits, EvidenceFits
  <2> QED
    BY <2>4, <2>5, <2>6 DEF Told
<1>8. TreeStands'
  BY <1>3, <1>7 DEF TreeStands
<1>9. (Unpublished(head) \/ Told(head, <<>>))'
  BY <1>1, <1>5 DEF PromotionInv
<1> QED
  BY <1>1, <1>3, <1>8, <1>9 DEF PromotionInv

\* A write that is not the last of its command.
LEMMA Going ==
    ASSUME PromotionInv, Proceed, Len(job.queue) # 1,
           Grows, LogIsSound', Shaped(tree'), TreeStands',
           tree'.record \in {tree.record, job.target.record},
           \A k \in FileKind : k \notin ToSet(Tail(job.queue)) => tree'[k] = job.target[k],
           Sequence(job'.lines),
           ToSet(log) \cup ToSet(job.lines) \subseteq ToSet(log') \cup ToSet(job'.lines),
           job.kind \in {"local", "backfill", "withdraw", "migrate"},
           job.kind \in {"local", "backfill"} => Promoting',
           job.kind = "local" => ~Withdrawn',
           job.kind = "withdraw" => Withdrawing',
           job.kind = "migrate" => Migrating'
    PROVE  PromotionInv'
<1>1. /\ job # NoJob /\ job' # NoJob /\ UNCHANGED <<head, pages, order, owed>> /\ owed = "none"
      /\ job'.kind = job.kind /\ job'.target = job.target /\ DOMAIN job' = DOMAIN job
      /\ job'.queue = Tail(job.queue) /\ job'.queue # <<>> /\ Sequence(job'.queue)
      /\ DOMAIN job = {"kind", "queue", "target", "lines"}
      /\ Shaped(job.target) /\ Told(job.target, job.lines)
  <2>1. /\ job # NoJob /\ job' # NoJob /\ UNCHANGED <<head, pages, order, owed>>
        /\ job'.kind = job.kind /\ job'.target = job.target /\ DOMAIN job' = DOMAIN job
        /\ job'.queue = Tail(job.queue) /\ job'.queue # <<>>
        /\ Sequence(job.queue) /\ job.queue # <<>> /\ JobStands
    BY Proceeding
  <2>2. Sequence(Tail(job.queue))
    BY <2>1, TakingOff
  <2> QED
    BY <2>1, <2>2 DEF JobStands
<1>2. PICK f : f = job.target
  OBVIOUS
<1>3. /\ Story(f)'
      /\ AreApproved(f, job.lines) => \A more : more = job'.lines => AreApproved(f, more)'
      /\ \A g : Story(g) => Story(g)'
      /\ \A g : AreApproved(g, <<>>) => AreApproved(g, <<>>)'
      /\ \A g : IsWhole(g) => IsWhole(g)'
  BY <1>1, <1>2, ToldStays, LogIsPart, NothingIsSet DEF Told
<1>4. Told(job.target, job.lines)'
  <2>1. f = job'.target
    BY <1>1, <1>2
  <2>2. Story(job.target)'
    BY <1>3, <2>1 DEF Story
  <2>3. AreApproved(job.target, job.lines)'
    BY <1>1, <1>2, <1>3, <2>1 DEF AreApproved, Told
  <2>4. IsWhole(job.target)'
    <3>1. IsWhole(f)'
      BY <1>1, <1>2, <1>3 DEF Told
    <3> QED
      BY <2>1, <3>1 DEF IsWhole, IsGone, PageFits, EvidenceFits
  <2> QED
    BY <2>2, <2>3, <2>4 DEF Told
<1>5. JobStands'
  BY <1>1, <1>4 DEF JobStands
<1>6. \A g : Told(g, <<>>) => Told(g, <<>>)'
  BY <1>3 DEF Told
<1>7. (Unpublished(head) \/ Told(head, <<>>))'
  <2>1. \A g : (Unpublished(g) => Unpublished(g)')
    BY <1>1 DEF Unpublished
  <2> QED
    BY <1>1, <1>6, <2>1 DEF PromotionInv
<1> QED
  BY <1>1, <1>5, <1>7 DEF PromotionInv

LEMMA SetOfPart ==
    ASSUME NEW s, Sequence(s), s # <<>>, NEW S, ToSet(s) \subseteq S
    PROVE  Head(s) \in S /\ ToSet(Tail(s)) \subseteq S
BY TakingOff

LEMMA LogRests == ASSUME PromotionInv, log' = log, UNCHANGED <<seen, extractor, passed>>
                  PROVE  Grows /\ LogIsSound' /\ Withdrawn' = Withdrawn
BY DEF PromotionInv, LogIsSound, IsDecision, Grows, Withdrawn

\* A promotion writes its record last, so that what it leaves when it is killed is either what
\* there was or refused by the next.
LEMMA PromotionProceeds ==
    ASSUME PromotionInv, Proceed, job.kind \in {"local", "backfill"}
    PROVE  PromotionInv'
<1> DEFINE q == job.queue
           f == Head(q)
<1>1. /\ job # NoJob /\ Sequence(q) /\ q # <<>> /\ Promoting /\ Told(job.target, job.lines)
      /\ UNCHANGED <<seen, extractor, pages, order, passed>>
      /\ job.kind = "local" => ~Withdrawn
  BY Proceeding DEF JobStands
<1>2. f \in FileKind /\ ToSet(Tail(q)) \subseteq FileKind
  BY <1>1, SetOfPart DEF Promoting
<1>3. /\ Shaped(tree') /\ log' = log
      /\ \A k \in FileKind : tree'[k] = IF k = f THEN job.target[k] ELSE tree[k]
      /\ \A k \in FileKind : k \notin ToSet(Tail(q)) => tree'[k] = job.target[k]
  BY <1>2, Replacing
<1>4. Grows /\ LogIsSound' /\ Withdrawn' = Withdrawn
  BY <1>1, <1>3, LogRests
<1>5. CASE Len(q) = 1
  <2>1. ToSet(job.lines) = {}
    BY <1>1, NothingIsSet DEF Promoting
  <2> QED
    BY <1>3, <1>4, <1>5, <2>1, Ending
<1>6. CASE Len(q) # 1
  <2>1. /\ job'.queue = Tail(q) /\ job'.lines = <<>> /\ job'.target = job.target
        /\ job'.kind = job.kind /\ job' # NoJob
    <3>1. f # "log"
      BY <1>2 DEF FileKind
    <3> QED
      BY <1>1, <1>6, <3>1, Proceeding DEF Promoting
  <2>2. /\ Len(q) \in Nat \ {0} /\ DOMAIN q = 1..Len(q) /\ f = q[1] /\ Len(Tail(q)) = Len(q) - 1
        /\ \A i \in DOMAIN Tail(q) : Tail(q)[i] = q[i + 1]
        /\ DOMAIN Tail(q) = 1..(Len(q) - 1)
    BY <1>1, TakingOff
  <2>3. f # "record" /\ Tail(q)[Len(Tail(q))] = "record"
    <3>1. 1 \in DOMAIN q /\ Len(q) \in DOMAIN q /\ Len(q) - 1 \in DOMAIN Tail(q)
      <4>1. \A n \in Nat \ {0} : n # 1 => 1 \in 1..n /\ n \in 1..n /\ n - 1 \in 1..(n - 1)
        OBVIOUS
      <4> QED
        BY <1>6, <2>2, <4>1
    <3>2. q[Len(q)] = "record" /\ IsInjective(q)
      BY <1>1 DEF Promoting
    <3>3. q[1] # q[Len(q)]
      BY <1>6, <3>1, <3>2 DEF IsInjective
    <3> QED
      BY <2>2, <3>1, <3>2, <3>3
  <2>4. tree'.record = tree.record /\ tree'.obs \in {tree.obs, job.target.obs}
    BY <1>3, <2>3 DEF FileKind
  <2>5. Promoting'
    <3>1. IsInjective(Tail(q))
      BY <1>1, TakingOffNew DEF Promoting
    <3>2. NextNumber' = NextNumber
      BY <2>4 DEF NextNumber
    <3> QED
      BY <1>1, <1>2, <2>1, <2>3, <3>1, <3>2 DEF Promoting
  <2>6. TreeStands'
    <3>1. Doing' = job.kind /\ Doing = job.kind
      BY <1>1, <2>1 DEF Doing
    <3>2. tree'.record = None => pages' = {}
      BY <1>1, <2>4, <3>1 DEF PromotionInv, TreeStands
    <3>3. ASSUME tree'.record # None, tree'.obs # None,
                 Len(tree'.obs.versions) = tree'.record.version
          PROVE  Story(tree)' /\ AreApproved(tree, <<>>)'
      <4>1. tree'.obs = tree.obs
        <5>1. Len(job.target.obs.versions) = tree.record.version + 1 /\ tree.record.version \in Nat
          BY <1>1, <2>4, <3>3 DEF Promoting, Told, Story, NextNumber, PromotionInv, Shaped
        <5> QED
          BY <2>4, <3>3, <5>1
      <4>2. Story(tree) /\ AreApproved(tree, <<>>)
        BY <2>4, <3>1, <3>3, <4>1 DEF PromotionInv, TreeStands
      <4>3. \A v : (Decided(v) => Decided(v)') /\ (WillBeApproved(v, <<>>) => WillBeApproved(v, <<>>)')
        BY <1>3, <1>4, DecidedStays, ApprovedStays
      <4>4. Story(tree)'
        BY <1>1, <2>4, <4>1, <4>2, <4>3 DEF Story
      <4>5. AreApproved(tree, <<>>)'
        BY <4>1, <4>2, <4>3 DEF AreApproved
      <4> QED
        BY <4>4, <4>5
    <3> QED
      BY <3>1, <3>2, <3>3 DEF TreeStands
  <2>7. Sequence(job'.lines)
    BY <2>1 DEF Sequence
  <2>8. ToSet(log) \cup ToSet(job.lines) \subseteq ToSet(log') \cup ToSet(job'.lines)
    BY <1>1, <1>3, <2>1 DEF Promoting
  <2> QED
    BY <1>1, <1>3, <1>4, <1>6, <2>4, <2>5, <2>6, <2>7, <2>8, Going
<1> QED
  BY <1>5, <1>6

\* observe and refresh write one file.
LEMMA OneFileProceeds ==
    ASSUME PromotionInv, Proceed, job.kind \in {"observe", "refresh"}
    PROVE  PromotionInv'
<1>1. /\ job # NoJob /\ job.queue \in {<<"obs">>, <<"page">>} /\ job.lines = <<>>
      /\ UNCHANGED <<seen, extractor, passed>>
  BY Proceeding DEF JobStands
<1>2. Head(job.queue) \in FileKind /\ Len(job.queue) = 1
  BY <1>1 DEF FileKind
<1>3. ToSet(job.lines) = {}
  BY <1>1, NothingIsSet
<1> QED
  BY <1>1, <1>2, <1>3, Replacing, LogRests, Ending

\* A withdrawal says in the log what it does before it does it, and keeps the versions.
LEMMA WithdrawProceeds ==
    ASSUME PromotionInv, Proceed, job.kind = "withdraw"
    PROVE  PromotionInv'
<1> DEFINE q == job.queue
           f == Head(q)
           line == [kind |-> "withdrawal"]
<1>1. /\ job # NoJob /\ Withdrawing /\ Told(job.target, job.lines) /\ Sequence(q) /\ q # <<>>
      /\ Shaped(job.target) /\ Shaped(tree)
      /\ UNCHANGED <<seen, extractor, pages, order, passed>>
  BY Proceeding DEF JobStands, PromotionInv
<1>2. CASE q = WithdrawalQueue /\ job.lines = <<line>>
  <2>1. /\ f = "log" /\ Len(q) = 5 /\ Head(job.lines) = line /\ Tail(job.lines) = <<>>
        /\ Tail(q) = <<"obs", "record", "page", "evidence">>
    BY <1>2 DEF WithdrawalQueue
  <2>2. Head(job.lines).kind = "withdrawal"
    BY <2>1
  <2>3. tree' = tree /\ Grows /\ LogIsSound' /\ ToSet(log') = ToSet(log) \cup {line}
    BY <2>1, <2>2, Lining
  <2>4. Withdrawn'
    <3>1. PICK i \in DOMAIN log' : log'[i] = line
      BY <2>3 DEF ToSet
    <3> QED
      BY <3>1 DEF Withdrawn
  <2>5. /\ job'.queue = Tail(q) /\ job'.lines = <<>> /\ job'.target = job.target
        /\ job'.kind = job.kind /\ job' # NoJob
    <3>1. Len(q) # 1 /\ f = "log" /\ Tail(job.lines) = <<>>
      BY <2>1
    <3> HIDE DEF q, f
    <3>2. Len(job.queue) # 1 /\ Head(job.queue) = "log"
      BY <3>1 DEF q, f
    <3>3. job'.lines = Tail(job.lines)
      BY <3>2, Proceeding
    <3> QED
      BY <3>1, <3>2, <3>3, Proceeding DEF q
  <2>6. Withdrawing'
    BY <1>1, <2>1, <2>3, <2>4, <2>5 DEF Withdrawing
  <2>7. TreeStands'
    <3>1. Doing = "withdraw" /\ Doing' = "withdraw"
      BY <1>1, <2>5 DEF Doing
    <3>2. UNCHANGED pages /\ UNCHANGED head
      BY Proceeding
    <3> QED
      BY <2>3, <3>1, <3>2, FilesRest
  <2>8. \A k \in FileKind : k \notin ToSet(Tail(q)) => tree'[k] = job.target[k]
    <3>1. ToSet(q) = {"log"} \cup ToSet(Tail(q))
      BY <1>1, <2>1, TakingOff
    <3>2. "log" \notin FileKind
      BY DEF FileKind
    <3>3. \A k \in FileKind : k \notin ToSet(q) => tree[k] = job.target[k]
      BY <1>1, Proceeding DEF JobStands
    <3> QED
      BY <2>3, <3>1, <3>2, <3>3
  <2>9. Sequence(job'.lines) /\ ToSet(job.lines) \subseteq {line}
    BY <1>2, <2>5 DEF Sequence, ToSet
  <2>10. Shaped(tree') /\ ToSet(log) \cup ToSet(job.lines) \subseteq ToSet(log') \cup ToSet(job'.lines)
    BY <1>1, <2>3, <2>9
  <2> QED
    BY <2>1, <2>3, <2>6, <2>7, <2>8, <2>9, <2>10, Going
<1>3. CASE /\ job.lines = <<>> /\ Withdrawn
           /\ q \in {<<"obs", "record", "page", "evidence">>, <<"record", "page", "evidence">>,
                     <<"page", "evidence">>, <<"evidence">>}
  <2>1. f \in FileKind /\ f # "log"
    BY <1>3 DEF FileKind
  <2>2. /\ Shaped(tree') /\ log' = log
        /\ \A k \in FileKind : tree'[k] = IF k = f THEN job.target[k] ELSE tree[k]
        /\ \A k \in FileKind : k \notin ToSet(Tail(q)) => tree'[k] = job.target[k]
    BY <2>1, Replacing
  <2>3. Grows /\ LogIsSound' /\ Withdrawn' = Withdrawn
    BY <1>1, <2>2, LogRests
  <2>4. ToSet(job.lines) = {}
    BY <1>3, NothingIsSet
  <2>5. CASE q = <<"evidence">>
    BY <2>2, <2>3, <2>4, <2>5, Ending
  <2>6. CASE q # <<"evidence">>
    <3>1. Len(q) # 1 /\ Tail(q) \in {<<"record", "page", "evidence">>, <<"page", "evidence">>,
                                     <<"evidence">>}
      <4>1. CASE q = <<"obs", "record", "page", "evidence">>
        BY <4>1
      <4>2. CASE q = <<"record", "page", "evidence">>
        BY <4>2
      <4>3. CASE q = <<"page", "evidence">>
        BY <4>3
      <4> QED
        BY <1>3, <2>6, <4>1, <4>2, <4>3
    <3>2. /\ job'.queue = Tail(q) /\ job'.lines = <<>> /\ job'.target = job.target
          /\ job'.kind = job.kind /\ job' # NoJob
      BY <1>3, <2>1, <3>1, Proceeding
    <3>3. /\ tree'.record \in {tree.record, job.target.record}
          /\ tree'.obs \in {tree.obs, job.target.obs}
      BY <2>2 DEF FileKind
    <3>4. /\ tree'.record # None /\ tree'.obs # None
          /\ tree'.record.version = tree.record.version /\ tree'.record.text = tree.record.text
          /\ tree'.obs.versions = tree.obs.versions
          /\ tree'.record.status = "current" => tree'.record = tree.record
      BY <1>1, <3>3 DEF Withdrawing, Told, Story
    <3>5. Withdrawing'
      BY <1>1, <1>3, <2>3, <3>1, <3>2, <3>4 DEF Withdrawing
    <3>6. TreeStands'
      <4>1. Doing = "withdraw" /\ Doing' = "withdraw"
        BY <1>1, <3>2 DEF Doing
      <4>2. Story(tree)' /\ AreApproved(tree, <<>>)'
        <5>1. Story(tree) /\ AreApproved(tree, <<>>)
          BY <4>1 DEF PromotionInv, TreeStands
        <5>2. \A v : (Decided(v) => Decided(v)')
                     /\ (WillBeApproved(v, <<>>) => WillBeApproved(v, <<>>)')
          BY <2>2, <2>3, DecidedStays, ApprovedStays
        <5>3. Story(tree)'
          BY <1>1, <3>4, <5>1, <5>2 DEF Story
        <5>4. AreApproved(tree, <<>>)'
          BY <3>4, <5>1, <5>2 DEF AreApproved
        <5> QED
          BY <5>3, <5>4
      <4>3. f # "evidence" /\ tree'.evidence = tree.evidence /\ tree'.page \in {tree.page, None}
        <5>1. f # "evidence"
          BY <1>3, <2>6
        <5> HIDE DEF f
        <5> QED
          BY <1>1, <2>2, <5>1 DEF FileKind, Withdrawing
      <4>4. (tree.page = None \/ PageFits(tree)) /\ EvidenceFits(tree)
        BY <4>1 DEF PromotionInv, TreeStands
      <4>5. (tree.page = None \/ PageFits(tree))' /\ EvidenceFits(tree)'
        BY <3>4, <4>3, <4>4 DEF PageFits, EvidenceFits
      <4>6. ASSUME tree'.record.status = "removed" PROVE tree'.obs.withdrawn
        <5>1. CASE f = "record"
          <6>1. "obs" \notin ToSet(Tail(q))
            <7>1. q = <<"record", "page", "evidence">>
              BY <1>3, <5>1
            <7> QED
              BY <7>1 DEF ToSet
          <6>2. tree'.obs = job.target.obs
            BY <2>2, <6>1 DEF FileKind
          <6> QED
            BY <1>1, <6>2 DEF Withdrawing
        <5>2. CASE f # "record"
          <6>1. tree'.record = tree.record
            BY <2>2, <5>2 DEF FileKind
          <6>2. tree.obs.withdrawn
            BY <4>1, <4>6, <6>1 DEF PromotionInv, TreeStands
          <6> QED
            BY <1>1, <3>3, <6>2 DEF Withdrawing
        <5> QED
          BY <5>1, <5>2
      <4> QED
        BY <4>1, <4>2, <4>5, <4>6 DEF TreeStands
    <3>7. Sequence(job'.lines)
      BY <3>2 DEF Sequence
    <3>8. ToSet(log) \cup ToSet(job.lines) \subseteq ToSet(log') \cup ToSet(job'.lines)
      BY <2>2, <2>4
    <3> QED
      BY <2>2, <2>3, <3>1, <3>3, <3>5, <3>6, <3>7, <3>8, Going
  <2> QED
    BY <2>5, <2>6
<1> QED
  BY <1>1, <1>2, <1>3 DEF Withdrawing

\* A migration leaves the page, so that it can be judged again by the page it found.
LEMMA MigrateProceeds ==
    ASSUME PromotionInv, Proceed, job.kind = "migrate"
    PROVE  PromotionInv'
<1> DEFINE q == job.queue
           f == Head(q)
           lines == job.lines
<1>1. /\ job # NoJob /\ Migrating /\ Told(job.target, lines) /\ Sequence(q) /\ q # <<>>
      /\ Sequence(lines) /\ Shaped(job.target) /\ Shaped(tree)
      /\ UNCHANGED <<seen, extractor, pages, order, head, passed>>
      /\ \A k \in FileKind : k \notin ToSet(q) => tree[k] = job.target[k]
  BY Proceeding DEF JobStands, PromotionInv
<1>2. /\ Len(q) \in Nat \ {0} /\ DOMAIN q = 1..Len(q) /\ f = q[1]
      /\ Len(Tail(q)) = Len(q) - 1 /\ DOMAIN Tail(q) = 1..(Len(q) - 1)
      /\ \A i \in DOMAIN Tail(q) : Tail(q)[i] = q[i + 1]
      /\ ToSet(q) = {f} \cup ToSet(Tail(q))
  BY <1>1, TakingOff
<1>3. Len(lines) \in Nat /\ DOMAIN lines = 1..Len(lines) /\ Len(lines) <= Len(q)
  BY <1>1, Indexed DEF Migrating
<1>4. \A i \in 1..Len(q) : q[i] = "log" <=> i > Len(q) - Len(lines)
  BY <1>1, <1>2 DEF Migrating
<1>5. tree.page = job.target.page
  BY <1>1 DEF Migrating, FileKind
<1>6. Doing = "migrate" /\ IsWhole(tree) /\ Story(tree) /\ tree.record.status = "current"
  BY <1>1 DEF Doing, PromotionInv, TreeStands
<1>7. CASE f = "log"
  <2>1. Len(lines) = Len(q)
    <3> HIDE DEF q, f, lines
    <3>1. 1 \in 1..Len(q) /\ q[1] = "log"
      BY <1>2, <1>7
    <3>2. 1 > Len(q) - Len(lines)
      BY <1>4, <3>1
    <3>3. \A a, b \in Nat : b <= a => (1 > a - b <=> a = b)
      OBVIOUS
    <3>4. Len(q) \in Nat /\ Len(lines) \in Nat /\ Len(lines) <= Len(q)
      BY <1>2, <1>3
    <3> QED
      BY <3>2, <3>3, <3>4
  <2>2. /\ Sequence(Tail(lines)) /\ Len(Tail(lines)) = Len(lines) - 1 /\ Head(lines) = lines[1]
        /\ \A i \in DOMAIN Tail(lines) : Tail(lines)[i] = lines[i + 1]
        /\ DOMAIN Tail(lines) = 1..(Len(lines) - 1)
        /\ ToSet(lines) = {Head(lines)} \cup ToSet(Tail(lines))
    <3>1. lines # <<>>
      BY <1>2, <2>1
    <3> QED
      BY <1>1, <3>1, TakingOff
  <2>3. Head(lines).kind = "carried"
    BY <1>1, <1>2, <1>3, <2>1, <2>2 DEF Migrating
  <2>4. tree' = tree /\ Grows /\ LogIsSound' /\ ToSet(log') = ToSet(log) \cup {Head(lines)}
    BY <1>7, <2>3, Lining
  <2>5. \A k \in FileKind : k \notin ToSet(Tail(q)) => tree'[k] = job.target[k]
    <3>1. "log" \notin FileKind
      BY DEF FileKind
    <3> QED
      BY <1>1, <1>2, <1>7, <2>4, <3>1
  <2>6. CASE Len(q) = 1
    <3>1. ToSet(Tail(lines)) = {}
      BY <2>1, <2>2, <2>6 DEF ToSet
    <3>2. ToSet(lines) \subseteq ToSet(log') /\ Shaped(tree')
      BY <1>1, <2>2, <2>4, <3>1
    <3> QED
      BY <2>4, <2>5, <2>6, <3>2, Ending
  <2>7. CASE Len(q) # 1
    <3>1. /\ job'.queue = Tail(q) /\ job'.lines = Tail(lines) /\ job'.target = job.target
          /\ job'.kind = job.kind /\ job' # NoJob
      BY <1>7, <2>7, Proceeding
    <3>2. \A i \in DOMAIN Tail(q) : Tail(q)[i] = "log" /\ i > Len(Tail(q)) - Len(Tail(lines))
      <4>1. \A i \in 1..(Len(q) - 1) : i + 1 \in 1..Len(q) /\ i + 1 > Len(q) - Len(lines) /\ i > 0
        BY <1>2, <1>3, <2>1
      <4>2. Len(Tail(q)) - Len(Tail(lines)) = 0
        BY <1>2, <1>3, <2>1, <2>2
      <4> QED
        BY <1>2, <1>4, <4>1, <4>2
    <3>3. \A i \in DOMAIN Tail(lines) : Tail(lines)[i].kind = "carried"
      <4>1. \A i \in 1..(Len(lines) - 1) : i + 1 \in 1..Len(lines)
        BY <1>3
      <4> QED
        BY <1>1, <1>3, <2>2, <4>1 DEF Migrating
    <3>4. Len(Tail(lines)) <= Len(Tail(q))
      BY <1>2, <1>3, <2>1, <2>2
    <3>5. Migrating'
      BY <1>1, <1>2, <2>4, <3>1, <3>2, <3>3, <3>4 DEF Migrating
    <3>6. TreeStands'
      <4>1. Doing' = Doing
        BY <1>1, <3>1 DEF Doing
      <4> QED
        BY <1>1, <2>4, <4>1, FilesRest
    <3>7. Shaped(tree') /\ ToSet(log) \cup ToSet(lines) \subseteq ToSet(log') \cup ToSet(job'.lines)
      BY <1>1, <2>2, <2>4, <3>1
    <3> QED
      BY <2>2, <2>4, <2>5, <2>7, <3>1, <3>5, <3>6, <3>7, Going
  <2> QED
    BY <2>6, <2>7
<1>8. CASE f # "log"
  <2>1. f \in {"evidence", "obs", "record"} /\ f \in FileKind
    BY <1>1, <1>2, <1>8 DEF Migrating, FileKind
  <2>2. /\ Shaped(tree') /\ log' = log
        /\ \A k \in FileKind : tree'[k] = IF k = f THEN job.target[k] ELSE tree[k]
        /\ \A k \in FileKind : k \notin ToSet(Tail(q)) => tree'[k] = job.target[k]
    BY <2>1, Replacing
  <2>3. Grows /\ LogIsSound'
    BY <1>1, <2>2, LogRests
  <2>4. Len(lines) < Len(q)
    <3> HIDE DEF q, f, lines
    <3>1. 1 \in 1..Len(q) /\ q[1] # "log"
      BY <1>2, <1>8
    <3>2. ~(1 > Len(q) - Len(lines))
      BY <1>4, <3>1
    <3>3. \A a, b \in Nat : b <= a => (1 > a - b <=> a = b)
      OBVIOUS
    <3>4. Len(q) \in Nat /\ Len(lines) \in Nat /\ Len(lines) <= Len(q)
      BY <1>2, <1>3
    <3> QED
      BY <3>2, <3>3, <3>4
  <2>5. CASE Len(q) = 1
    <3>1. DOMAIN lines = {}
      BY <1>3, <2>4, <2>5
    <3>2. ToSet(lines) = {}
      BY <3>1 DEF ToSet
    <3> QED
      BY <2>2, <2>3, <2>5, <3>2, Ending
  <2>6. CASE Len(q) # 1
    <3>1. /\ job'.queue = Tail(q) /\ job'.lines = lines /\ job'.target = job.target
          /\ job'.kind = job.kind /\ job' # NoJob
      BY <1>8, <2>6, Proceeding
    <3>2. /\ tree'.page = tree.page /\ tree'.evidence = tree.evidence
          /\ tree'.record \in {tree.record, job.target.record}
          /\ tree'.obs \in {tree.obs, job.target.obs}
      BY <1>1, <2>1, <2>2 DEF FileKind, Migrating
    <3>3. /\ tree'.record # None /\ tree'.obs # None
          /\ tree'.record.version = tree.record.version /\ tree'.record.text = tree.record.text
          /\ tree'.record.status = tree.record.status
          /\ job.target.record.version = tree.record.version
          /\ job.target.record.text = tree.record.text
          /\ job.target.record.status = tree.record.status
          /\ job.target.evidence = tree.evidence
      BY <1>1, <3>2 DEF Migrating, Told, Story
    <3>4. \A i \in DOMAIN Tail(q) : Tail(q)[i] = "log" <=> i > Len(Tail(q)) - Len(lines)
      <4> HIDE DEF q, f, lines
      <4>1. \A i \in 1..(Len(q) - 1) :
              i + 1 \in 1..Len(q) /\ (i + 1 > Len(q) - Len(lines) <=> i > (Len(q) - 1) - Len(lines))
        BY <1>2, <1>3
      <4> QED
        BY <1>2, <1>4, <4>1
    <3>5. Migrating'
      <4>1. Len(lines) <= Len(Tail(q))
        BY <1>2, <1>3, <2>4
      <4>2. ToSet(Tail(q)) \subseteq {"evidence", "obs", "record", "log"}
        BY <1>1, <1>2 DEF Migrating
      <4>3. \A i \in DOMAIN lines : lines[i].kind = "carried"
        BY <1>1 DEF Migrating
      <4>4. \A k \in {"version", "text", "status"} : job'.target.record[k] = tree'.record[k]
        BY <3>1, <3>3
      <4>5. tree'.evidence = job'.target.evidence
        BY <3>1, <3>2, <3>3
      <4> HIDE DEF q, lines
      <4> QED
        BY <3>1, <3>3, <3>4, <4>1, <4>2, <4>3, <4>4, <4>5 DEF Migrating
    <3>6. TreeStands'
      <4>1. Doing' = "migrate"
        BY <1>1, <3>1 DEF Doing
      <4>2. \A v : Decided(v) => Decided(v)'
        BY <2>3, DecidedStays
      <4>3. Story(tree)'
        <5>1. CASE tree'.obs = tree.obs
          BY <1>1, <1>6, <3>3, <4>2, <5>1 DEF Story
        <5>2. CASE tree'.obs = job.target.obs
          BY <1>1, <3>3, <4>2, <5>2 DEF Story, Told
        <5> QED
          BY <3>2, <5>1, <5>2
      <4>4. IsWhole(tree)'
        <5>1. CASE tree'.obs = tree.obs
          BY <1>6, <3>2, <3>3, <5>1 DEF IsWhole, PageFits, EvidenceFits
        <5>2. CASE tree'.obs = job.target.obs
          BY <1>1, <1>5, <1>6, <3>2, <3>3, <5>2 DEF IsWhole, PageFits, EvidenceFits, Told
        <5> QED
          BY <3>2, <5>1, <5>2
      <4> QED
        BY <1>6, <3>3, <4>1, <4>3, <4>4 DEF TreeStands
    <3>7. ToSet(log) \cup ToSet(lines) \subseteq ToSet(log') \cup ToSet(job'.lines)
      BY <2>2, <3>1
    <3> QED
      BY <1>1, <2>2, <2>3, <2>6, <3>1, <3>2, <3>5, <3>6, <3>7, Going
  <2> QED
    BY <2>5, <2>6
<1> QED
  BY <1>7, <1>8

LEMMA ProceedKeeps == ASSUME PromotionInv, Proceed PROVE PromotionInv'
<1>1. job.kind \in {"local", "backfill", "observe", "withdraw", "migrate", "refresh"}
  BY Proceeding DEF JobStands
<1> QED
  BY <1>1, PromotionProceeds, OneFileProceeds, WithdrawProceeds, MigrateProceeds

-----------------------------------------------------------------------------
(* What the log and the observations give a command *)

\* The latest decision on a text, if it approves, is an entry of the log; the text was seen.
LEMMA ApprovalIs ==
    ASSUME LogIsSound, NEW t, NEW d \in Approvals(t)
    PROVE  \E i \in Decisions(t) :
              /\ log[i] = d /\ d.approves /\ d.text = t
              /\ \A k \in Decisions(t) : k <= i
              /\ d.at \in 1..Len(seen) /\ \E j \in 1..d.at : seen[j] = t
<1>1. PICK i \in Decisions(t) : log[i] = d /\ d.approves /\ \A k \in Decisions(t) : k <= i
  BY DEF Approvals
<1>2. IsDecision(i) /\ d.text = t
  BY <1>1 DEF Decisions, IsDecision
<1> QED
  BY <1>1, <1>2 DEF LogIsSound, IsDecision

\* What a version's entry names is an approval that stands.
LEMMA EntryApproved ==
    ASSUME LogIsSound, NEW t, NEW d \in Approvals(t), StandsHere(d), NEW first \in Nat,
           first <= d.at, NEW v,
           v.text = t, v.first = first, v.by = extractor, v.decided = d.at,
           v.carried = IsCarried(d)
    PROVE  Decided(v) /\ WillBeApproved(v, <<>>)
<1>1. PICK i \in Decisions(t) : log[i] = d /\ d.approves /\ d.text = t
  BY ApprovalIs
<1>2. Decided(v)
  BY <1>1 DEF Decided, IsCarried
<1>3. CASE IsCarried(d)
  <2>1. PICK k \in Carries(d) : log[k].to = extractor
    BY <1>3 DEF StandsHere, IsCarried
  <2>2. log[k] \in ToSet(log) /\ log[k].kind = "carried" /\ log[k].text = t
    BY <1>1, <2>1 DEF Carries, ToSet
  <2> QED
    BY <1>1, <1>2, <1>3, <2>1, <2>2 DEF WillBeApproved
<1>4. CASE ~IsCarried(d)
  <2>1. log[i].by = extractor
    BY <1>1, <1>4 DEF IsCarried
  <2> QED
    BY <1>1, <1>2, <1>4, <2>1 DEF WillBeApproved
<1> QED
  BY <1>3, <1>4

LEMMA FirstSeen ==
    ASSUME seen \in Seq(Text), NEW i \in 1..Len(seen)
    PROVE  FirstOf(seen, seen[i]) \in Nat /\ FirstOf(seen, seen[i]) <= i
<1> DEFINE A == {j \in 1..Len(seen) : seen[j] = seen[i]}
           P(k) == seen[k] = seen[i] /\ \A j \in 1..(k - 1) : seen[j] # seen[i]
<1>1. i \in A /\ (\A x \in A : x \in Nat) /\ DOMAIN seen = 1..Len(seen) /\ Len(seen) \in Nat
  OBVIOUS
<1> HIDE DEF A
<1>2. PICK k \in A : \A m \in A : k <= m
  BY <1>1, LeastNumber
<1>3. k \in DOMAIN seen /\ P(k)
  <2>1. k \in 1..Len(seen) /\ seen[k] = seen[i]
    BY DEF A
  <2>2. ASSUME NEW j \in 1..(k - 1), seen[j] = seen[i] PROVE FALSE
    <3>1. j \in A
      BY <1>1, <2>1, <2>2 DEF A
    <3> QED
      BY <1>2, <2>1, <3>1
  <2> QED
    BY <1>1, <2>1, <2>2
<1>4. FirstOf(seen, seen[i]) = CHOOSE x \in DOMAIN seen : P(x)
  BY DEF FirstOf
<1> DEFINE f == FirstOf(seen, seen[i])
<1>5. f \in DOMAIN seen /\ P(f)
  <2> HIDE DEF P
  <2> QED
    BY <1>3, <1>4
<1>6. ~(i < f)
  <2> HIDE DEF f
  <2> QED
    BY <1>1, <1>5
<1> HIDE DEF f
<1>7. f \in Nat /\ f <= i
  BY <1>1, <1>5, <1>6
<1> QED
  BY <1>7 DEF f

LEMMA LastSeen ==
    ASSUME NEW s \in Seq(Text), NEW i \in 1..Len(s)
    PROVE  LastOf(s, s[i]) \in 1..Len(s)
<1> DEFINE A == {j \in 1..Len(s) : s[j] = s[i]}
           P(k) == s[k] = s[i] /\ \A j \in (k + 1)..Len(s) : s[j] # s[i]
<1>1. i \in A /\ (\A x \in A : x \in 1..Len(s)) /\ DOMAIN s = 1..Len(s) /\ Len(s) \in Nat
  OBVIOUS
<1> HIDE DEF A
<1>2. PICK k \in A : \A m \in A : m <= k
  BY <1>1, GreatestNumber
<1>3. k \in DOMAIN s /\ P(k)
  <2>1. k \in 1..Len(s) /\ s[k] = s[i]
    BY DEF A
  <2>2. ASSUME NEW j \in (k + 1)..Len(s), s[j] = s[i] PROVE FALSE
    <3>1. j \in A
      BY <1>1, <2>1, <2>2 DEF A
    <3> QED
      BY <1>2, <2>1, <3>1
  <2> QED
    BY <1>1, <2>1, <2>2
<1>4. LastOf(s, s[i]) = CHOOSE x \in DOMAIN s : P(x)
  BY DEF LastOf
<1>5. LastOf(s, s[i]) \in DOMAIN s
  <2> HIDE DEF P
  <2> QED
    BY <1>3, <1>4
<1> QED
  BY <1>1, <1>5

LEMMA RunEnds ==
    ASSUME NEW s \in Seq(Text), NEW i \in 1..Len(s)
    PROVE  RunEnd(s, i) \in i..Len(s)
<1> DEFINE A == {j \in i..Len(s) : \A k \in i..j : s[k] = s[i]}
           P(j) == (\A k \in i..j : s[k] = s[i]) /\ (j = Len(s) \/ s[j + 1] # s[i])
<1>1. /\ i \in A /\ (\A x \in A : x \in 1..Len(s)) /\ Len(s) \in Nat
  OBVIOUS
<1> HIDE DEF A
<1>2. PICK j \in A : \A m \in A : m <= j
  BY <1>1, GreatestNumber
<1>3. j \in i..Len(s) /\ P(j)
  <2>1. j \in i..Len(s) /\ \A k \in i..j : s[k] = s[i]
    BY DEF A
  <2>2. ASSUME j # Len(s), s[j + 1] = s[i] PROVE FALSE
    <3>1. j + 1 \in i..Len(s) /\ \A k \in i..(j + 1) : k \in i..j \/ k = j + 1
      BY <1>1, <2>1, <2>2
    <3>2. j + 1 \in A
      BY <2>1, <2>2, <3>1 DEF A
    <3> QED
      BY <1>2, <2>1, <3>2
  <2> QED
    BY <2>1, <2>2
<1>4. RunEnd(s, i) = CHOOSE x \in i..Len(s) : P(x)
  BY DEF RunEnd
<1> HIDE DEF P
<1> QED
  BY <1>3, <1>4

LEMMA BeginsAreFinite ==
    ASSUME NEW s \in Seq(Text)
    PROVE  IsFiniteSet(Begins(s))
<1> DEFINE N == 1..Len(s)
           B == Begins(s)
<1>1. Len(s) \in Nat /\ B \in SUBSET N
  BY DEF Begins
<1>2. IsFiniteSet(N)
  BY <1>1, FS_Interval
<1> HIDE DEF B, N
<1>3. IsFiniteSet(B)
  BY <1>1, <1>2, FS_Subset
<1> QED
  BY <1>3 DEF B

\* The runs begin where a text follows another, each at its rank.
LEMMA RunsBegin ==
    ASSUME NEW s \in Seq(Text), NEW n \in 1..Cardinality(Begins(s))
    PROVE  Runs(s)[n] \in Begins(s) /\ Cardinality({j \in Begins(s) : j <= Runs(s)[n]}) = n
<1> DEFINE B == Begins(s)
           Rank(i) == Cardinality({j \in B : j <= i}) = n
<1>1. Runs(s)[n] = CHOOSE i \in B : Rank(i)
  BY DEF Runs
<1>2. IsFiniteSet(B) /\ \A x \in B : x \in Nat
  BY BeginsAreFinite DEF Begins
<1> HIDE DEF B
<1>3. n \in 1..Cardinality(B)
  BY DEF B
<1>4. \E i \in B : Rank(i)
  BY <1>2, <1>3, EveryRank
<1> HIDE DEF Rank
<1>5. Runs(s)[n] \in B /\ Rank(Runs(s)[n])
  BY <1>1, <1>4
<1> QED
  BY <1>5 DEF B, Rank

\* The versions of a history are of texts that were seen, from an instant of theirs on.
LEMMA HistoryIs ==
    ASSUME NEW s \in Seq(Text), NEW n \in DOMAIN History(s)
    PROVE  /\ History(s)[n].first \in 1..Len(s) /\ History(s)[n].last \in Nat
           /\ History(s)[n].text \in Text
           /\ n \in Nat \ {0} /\ 1..n \subseteq DOMAIN History(s)
<1>1. /\ n \in 1..Cardinality(Begins(s)) /\ n \in DOMAIN Runs(s)
      /\ DOMAIN History(s) = 1..Cardinality(Begins(s))
  BY DEF History, Runs
<1>2. /\ History(s)[n].first = Runs(s)[n] /\ History(s)[n].text = s[Runs(s)[n]]
      /\ History(s)[n].last = RunEnd(s, Runs(s)[n])
  BY <1>1 DEF History
<1>3. Runs(s)[n] \in 1..Len(s) /\ Len(s) \in Nat
  <2>1. Runs(s)[n] \in Begins(s)
    BY <1>1, RunsBegin
  <2> QED
    BY <2>1 DEF Begins
<1>4. s[Runs(s)[n]] \in Text /\ RunEnd(s, Runs(s)[n]) \in Nat
  BY <1>3, RunEnds
<1>5. Cardinality(Begins(s)) \in Nat
  BY BeginsAreFinite, FS_CardinalityType
<1>6. n \in Nat \ {0} /\ 1..n \subseteq DOMAIN History(s)
  BY <1>1, <1>5
<1> QED
  BY <1>2, <1>3, <1>4, <1>6

LEMMA OrderIs ==
    ASSUME order \in FileOrders
    PROVE  /\ Sequence(order) /\ order # <<>> /\ Len(order) = 4
           /\ ToSet(order) = FileKind /\ IsInjective(order) /\ order[4] = "record"
<1>1. order \in Seq(FileKind) /\ Len(order) = 4 /\ order[4] = "record" /\ IsInjective(order)
  BY PromotionAssumption DEF FileKind
<1>2. DOMAIN order = 1..4 /\ \A i \in 1..4 : order[i] \in FileKind
  BY <1>1
<1>3. \A i, j \in 1..4 : order[i] = order[j] => i = j
  BY <1>1, <1>2 DEF IsInjective
<1>4. ToSet(order) = {order[1], order[2], order[3], order[4]}
  BY <1>2 DEF ToSet
<1>5. order[1] # order[2] /\ order[1] # order[3] /\ order[1] # order[4] /\ order[2] # order[3]
      /\ order[2] # order[4] /\ order[3] # order[4]
  BY <1>3
<1>6. ToSet(order) = FileKind
  BY <1>2, <1>4, <1>5 DEF FileKind
<1>7. order \in Seq(ToSet(order))
  BY <1>1, <1>6
<1> QED
  BY <1>1, <1>6, <1>7 DEF Sequence

-----------------------------------------------------------------------------
(* A command begins *)

LEMMA Starting ==
    ASSUME PromotionInv, NEW kind, NEW queue, NEW target, NEW lines,
           kind \in {"local", "backfill", "observe", "withdraw", "migrate", "refresh"},
           Idling(kind), Run(kind, queue, target, lines),
           Sequence(queue), queue # <<>>, Sequence(lines),
           Shaped(target), Told(target, lines),
           \A k \in FileKind : k \notin ToSet(queue) => tree[k] = target[k],
           job'.kind = kind => TreeStands',
           kind \in {"local", "backfill"} => Promoting',
           kind = "observe" => queue = <<"obs">> /\ lines = <<>>,
           kind = "refresh" => queue = <<"page">> /\ lines = <<>> /\ target.page # None,
           kind \in {"local", "refresh"} => ~Withdrawn,
           kind = "withdraw" => Withdrawing',
           kind = "migrate" => Migrating'
    PROVE  PromotionInv'
<1>1. /\ job' = [kind |-> kind, queue |-> queue, target |-> target, lines |-> lines]
      /\ owed' = "none"
      /\ UNCHANGED <<seen, extractor, log, tree, head, pages, order, passed>>
  BY DEF Run
<1>2. /\ job' # NoJob /\ DOMAIN job' = {"kind", "queue", "target", "lines"}
      /\ job'.kind = kind /\ job'.queue = queue /\ job'.target = target /\ job'.lines = lines
  BY <1>1 DEF NoJob
<1>3. Grows /\ LogIsSound' /\ Withdrawn' = Withdrawn
  BY <1>1, LogRests
<1>4. /\ \A f : Story(f) => Story(f)'
      /\ \A f, ls : AreApproved(f, ls) => AreApproved(f, ls)'
      /\ \A f : IsWhole(f) => IsWhole(f)'
      /\ \A f : (Unpublished(f) => Unpublished(f)')
  BY <1>1, <1>3, ToldStays DEF Unpublished
<1>5. \A f, ls : Told(f, ls) => Told(f, ls)'
  BY <1>4 DEF Told
<1>6. Told(job.target, job.lines)'
  <2>1. Told(target, lines)'
    BY <1>5
  <2> QED
    BY <1>2, <2>1 DEF Told, Story, AreApproved, IsWhole, IsGone, PageFits, EvidenceFits
<1>7. JobStands'
  BY <1>1, <1>2, <1>3, <1>6 DEF JobStands
<1>8. (Unpublished(head) \/ Told(head, <<>>))'
  BY <1>1, <1>4, <1>5 DEF PromotionInv
<1> QED
  BY <1>1, <1>2, <1>3, <1>7, <1>8 DEF PromotionInv

\* Two entries of one version, but for the interval in which it was seen.
SameVersion(v, w) ==
    /\ v.text = w.text /\ v.first = w.first /\ v.by = w.by
    /\ v.decided = w.decided /\ v.carried = w.carried

LEMMA SameVersionStands ==
    \A v, w, lines : SameVersion(v, w) =>
        /\ Decided(w) => Decided(v)
        /\ WillBeApproved(w, lines) => WillBeApproved(v, lines)
<1>1. ASSUME NEW v, NEW w, SameVersion(v, w), Decided(w) PROVE Decided(v)
  BY <1>1 DEF SameVersion, Decided
<1>2. ASSUME NEW v, NEW w, NEW lines, SameVersion(v, w), WillBeApproved(w, lines)
      PROVE  WillBeApproved(v, lines)
  BY <1>2 DEF SameVersion, WillBeApproved
<1> QED
  BY <1>1, <1>2

\* What a promotion finds, whether the one before it ended or was killed.
LEMMA Found ==
    ASSUME PromotionInv, NEW kind \in {"local", "backfill"}, Idling(kind)
    PROVE  IF tree.record = None THEN pages = {}
           ELSE tree.obs # None /\ Len(tree.obs.versions) = tree.record.version
                   => Story(tree) /\ AreApproved(tree, <<>>)
<1>1. Doing \in {"none", kind}
  BY DEF Idling, Doing
<1>2. CASE Doing = "none"
  BY <1>2 DEF PromotionInv, TreeStands, Unpublished, Told, Story
<1> QED
  BY <1>1, <1>2 DEF PromotionInv, TreeStands

\* promote_one and next_version: the version after those that are held, with its approval.
LEMMA Promoted ==
    ASSUME PromotionInv, NEW kind \in {"local", "backfill"}, Idling(kind),
           kind = "local" => ~Withdrawn,
           NEW t \in Text, NEW first \in Nat, NEW d \in Approvals(t), StandsHere(d), first <= d.at,
           NEW n, n = NextNumber, Follows(n, first),
           NEW entries \in Seq(AuditEntry), Len(entries) = n,
           \A m \in 1..(n - 1) : SameVersion(entries[m], tree.obs.versions[m]),
           entries[n].text = t, entries[n].first = first, entries[n].by = extractor,
           entries[n].decided = d.at, entries[n].carried = IsCarried(d),
           Run(kind, order, Files(t, n, first, entries), <<>>)
    PROVE  PromotionInv'
<1> DEFINE target == Files(t, n, first, entries)
<1>1. /\ DOMAIN target = FileKind
      /\ target.page = Page(t, n, first)
      /\ target.evidence = [text |-> t, version |-> n]
      /\ target.obs = [versions |-> entries, withdrawn |-> FALSE]
      /\ target.record = [status |-> "current", text |-> t, version |-> n, extractor |-> extractor]
  BY DEF Files, FileKind
<1>2. /\ target.obs.versions = entries /\ target.obs.withdrawn = FALSE
      /\ target.record.version = n /\ target.record.text = t /\ target.record.status = "current"
      /\ target.page.text = t /\ target.page.version = n /\ target.page.first = first
  BY <1>1 DEF Page
<1>3. /\ n \in Nat \ {0}
      /\ tree.record = None => n = 1 /\ pages = {}
      /\ tree.record # None => n # 1 /\ n - 1 = tree.record.version
  BY Found DEF NextNumber, PromotionInv, Shaped, ManifestRecord
<1>4. Shaped(target) /\ target.page # None /\ target.obs # None /\ target.record # None
  <2>1. extractor \in 1..MaxExtractor /\ Look[t][extractor] \in Nat
    BY PromotionAssumption DEF PromotionInv, LogIsSound
  <2>2. target.page \in PageFile
    BY <1>1, <1>3, <2>1 DEF Page, PageFile
  <2>3. target.obs \in ObsFile
    BY <1>1 DEF ObsFile
  <2>4. target.record \in ManifestRecord
    <3> HIDE DEF target
    <3> QED
      BY <1>1, <1>3, <2>1 DEF ManifestRecord
  <2> HIDE DEF target
  <2> QED
    BY <1>1, <2>2, <2>3, <2>4, PromotionAssumption DEF Shaped
<1> HIDE DEF target
<1>5. n # 1 => /\ tree.obs # None /\ Len(tree.obs.versions) = n - 1 /\ tree.record # None
               /\ tree.record.version = n - 1 /\ Last(tree.obs.versions).first < first
               /\ Story(tree) /\ AreApproved(tree, <<>>)
  <2> SUFFICES ASSUME n # 1
               PROVE  /\ tree.obs # None /\ Len(tree.obs.versions) = n - 1 /\ tree.record # None
                      /\ tree.record.version = n - 1 /\ Last(tree.obs.versions).first < first
                      /\ Story(tree) /\ AreApproved(tree, <<>>)
    OBVIOUS
  <2>1. n > 1
    BY <1>3
  <2>2. tree.obs # None /\ Len(tree.obs.versions) = n - 1 /\ Last(tree.obs.versions).first < first
    BY <2>1 DEF Follows
  <2>3. tree.record # None /\ tree.record.version = n - 1
    BY <1>3
  <2> QED
    BY <2>2, <2>3, Found
<1>6. n # 1 => /\ DOMAIN tree.obs.versions = 1..(n - 1)
               /\ tree.obs.versions[n - 1].first < first
  BY <1>3, <1>5 DEF PromotionInv, Shaped, ObsFile, Last
<1>7. Decided(entries[n]) /\ WillBeApproved(entries[n], <<>>)
  BY EntryApproved DEF PromotionInv
<1>8. ASSUME NEW m \in 1..(n - 1)
      PROVE  /\ Decided(entries[m]) /\ WillBeApproved(entries[m], <<>>)
             /\ entries[m].first = tree.obs.versions[m].first
             /\ entries[m].text = tree.obs.versions[m].text
  <2>1. n # 1 /\ m \in DOMAIN tree.obs.versions
    BY <1>3, <1>6
  <2>2. Decided(tree.obs.versions[m]) /\ WillBeApproved(tree.obs.versions[m], <<>>)
    BY <1>5, <2>1 DEF Story, AreApproved
  <2>3. SameVersion(entries[m], tree.obs.versions[m])
    OBVIOUS
  <2> QED
    BY <2>2, <2>3, SameVersionStands DEF SameVersion
<1>9. \A m \in 1..n : m \in 1..(n - 1) \/ m = n
  BY <1>3
<1>10. DOMAIN entries = 1..n
  OBVIOUS
<1>11. \A m \in 1..(n - 1) : entries[m].first < entries[m + 1].first
  <2> SUFFICES ASSUME NEW m \in 1..(n - 1) PROVE entries[m].first < entries[m + 1].first
    OBVIOUS
  <2>1. n # 1 /\ (m + 1 = n \/ (m + 1 \in 1..(n - 1) /\ m \in 1..((n - 1) - 1)))
    BY <1>3
  <2>2. CASE m + 1 = n
    <3>1. m = n - 1
      BY <1>3, <2>2
    <3> QED
      BY <1>6, <1>8, <2>1, <2>2, <3>1
  <2>3. CASE m + 1 \in 1..(n - 1) /\ m \in 1..((n - 1) - 1)
    <3>1. tree.obs.versions[m].first < tree.obs.versions[m + 1].first
      BY <1>5, <2>1, <2>3 DEF Story
    <3> QED
      BY <1>8, <2>3, <3>1
  <2> QED
    BY <2>1, <2>2, <2>3
<1>12. \A p \in pages : p.version \in 1..n /\ entries[p.version].text = p.text
  <2> SUFFICES ASSUME NEW p \in pages PROVE p.version \in 1..n /\ entries[p.version].text = p.text
    OBVIOUS
  <2>1. n # 1
    BY <1>3
  <2>2. p.version \in 1..(n - 1) /\ tree.obs.versions[p.version].text = p.text
    BY <1>5, <2>1 DEF Story
  <2> QED
    BY <1>3, <1>8, <2>2
<1>13. Story(target)
  BY <1>2, <1>4, <1>7, <1>8, <1>9, <1>11, <1>12 DEF Story
<1>14. IsWhole(target)
  <2>1. n \in DOMAIN entries
    BY <1>3, <1>10
  <2> QED
    BY <1>1, <1>2, <1>4, <1>11 DEF IsWhole, PageFits, EvidenceFits
<1>15. AreApproved(target, <<>>)
  BY <1>2, <1>7, <1>8, <1>9, <1>10 DEF AreApproved
<1>16. Told(target, <<>>)
  BY <1>13, <1>14, <1>15 DEF Told
<1>17. /\ Sequence(order) /\ order # <<>> /\ Len(order) = 4
       /\ ToSet(order) = FileKind /\ IsInjective(order) /\ order[4] = "record"
  BY OrderIs DEF PromotionInv
<1>18. /\ job' = [kind |-> kind, queue |-> order, target |-> target, lines |-> <<>>]
       /\ UNCHANGED <<seen, extractor, log, tree, head, pages, order, passed>> /\ owed' = "none"
  BY DEF Run, target
<1>19. Promoting'
  BY <1>2, <1>4, <1>17, <1>18 DEF Promoting, NextNumber
<1>20. job'.kind = kind => TreeStands'
  <2>1. job'.kind = kind /\ job' # NoJob
    BY <1>17, <1>18 DEF NoJob
  <2>2. Doing' = kind
    BY <2>1 DEF Doing
  <2>3. \A v : (Decided(v) => Decided(v)') /\ (WillBeApproved(v, <<>>) => WillBeApproved(v, <<>>)')
    BY <1>18 DEF Decided, WillBeApproved, Decisions
  <2>4. (Story(tree) => Story(tree)') /\ (AreApproved(tree, <<>>) => AreApproved(tree, <<>>)')
    BY <1>18, <2>3 DEF Story, AreApproved
  <2>5. IF tree.record = None THEN pages = {}
        ELSE tree.obs # None /\ Len(tree.obs.versions) = tree.record.version
               => Story(tree)' /\ AreApproved(tree, <<>>)'
    BY Found, <2>4
  <2> QED
    BY <1>18, <2>2, <2>5 DEF TreeStands
<1>21. Sequence(<<>>)
  BY DEF Sequence
<1>22. Run(kind, order, target, <<>>)
  BY DEF target
<1> QED
  BY <1>4, <1>16, <1>17, <1>19, <1>20, <1>21, <1>22, Starting

\* What Append makes of the entries that are held.
LEMMA Appended ==
    ASSUME PromotionInv, NEW n \in Nat \ {0}, NEW v \in AuditEntry,
           n > 1 => tree.obs # None /\ Len(tree.obs.versions) = n - 1
    PROVE  LET entries == Append(Earlier(n), v) IN
           /\ entries \in Seq(AuditEntry) /\ Len(entries) = n /\ entries[n] = v
           /\ \A m \in 1..(n - 1) : entries[m] = tree.obs.versions[m]
<1> DEFINE before == Earlier(n)
<1>1. /\ before \in Seq(AuditEntry) /\ Len(before) = n - 1
      /\ \A m \in 1..(n - 1) : before[m] = tree.obs.versions[m]
  <2>1. CASE n = 1
    BY <2>1 DEF Earlier
  <2>2. CASE n # 1
    <3>1. before = tree.obs.versions /\ n > 1
      BY <2>2 DEF Earlier
    <3>2. tree.obs.versions \in Seq(AuditEntry) /\ Len(tree.obs.versions) = n - 1
      BY <3>1 DEF PromotionInv, Shaped, ObsFile
    <3> QED
      BY <3>1, <3>2
  <2> QED
    BY <2>1, <2>2
<1> HIDE DEF before
<1>2. (n - 1) + 1 = n
  OBVIOUS
<1>3. /\ Append(before, v) \in Seq(AuditEntry) /\ Len(Append(before, v)) = n
      /\ Append(before, v)[n] = v
      /\ \A m \in 1..(n - 1) : Append(before, v)[m] = before[m]
  BY <1>1, <1>2
<1> QED
  BY <1>1, <1>3 DEF before

LEMMA SameIsSame == \A v : SameVersion(v, v)
BY DEF SameVersion

LEMMA LocalKeeps == ASSUME PromotionInv, NEW t, Local(t) PROVE PromotionInv'
<1> DEFINE n == NextNumber
           first == FirstOf(seen, t)
<1>1. PICK d \in Approvals(t) :
        LET last == LastOf(SubSeq(seen, 1, d.at), t)
            entries == Append(Earlier(n), Entry(t, first, last, d))
        IN  /\ StandsHere(d) /\ Placed(t) /\ Follows(n, first)
            /\ Run("local", order, Files(t, n, first, entries), <<>>)
  BY DEF Local
<1> DEFINE s == SubSeq(seen, 1, d.at)
           v == Entry(t, first, LastOf(s, t), d)
           entries == Append(Earlier(n), v)
<1>2. StandsHere(d) /\ Follows(n, first) /\ Run("local", order, Files(t, n, first, entries), <<>>)
  BY <1>1
<1>3. LogIsSound /\ seen \in Seq(Text) /\ Len(seen) \in Nat /\ extractor \in 1..MaxExtractor
  BY DEF PromotionInv, LogIsSound
<1>4. d.at \in 1..Len(seen) /\ \E j \in 1..d.at : seen[j] = t
  BY <1>3, ApprovalIs
<1>5. PICK j \in 1..d.at : seen[j] = t
  BY <1>4
<1>6. t \in Text /\ first \in Nat /\ first <= d.at
  <2>1. j \in 1..Len(seen) /\ j <= d.at
    BY <1>3, <1>4
  <2>2. FirstOf(seen, seen[j]) \in Nat /\ FirstOf(seen, seen[j]) <= j
    BY <1>3, <2>1, FirstSeen
  <2> QED
    BY <1>3, <1>4, <1>5, <2>1, <2>2
<1>7. LastOf(s, t) \in Nat
  <2>1. s \in Seq(Text) /\ Len(s) = d.at /\ s[j] = t
    BY <1>3, <1>4, <1>5
  <2>2. LastOf(s, s[j]) \in 1..Len(s)
    BY <2>1, LastSeen
  <2> QED
    BY <1>4, <2>1, <2>2
<1> HIDE DEF n, first, s
<1>8. /\ v \in AuditEntry /\ v.text = t /\ v.first = first /\ v.by = extractor
      /\ v.decided = d.at /\ v.carried = IsCarried(d)
  BY <1>3, <1>4, <1>6, <1>7 DEF Entry, AuditEntry, IsCarried
<1> HIDE DEF v
<1>9. n \in Nat \ {0}
  BY DEF n, NextNumber, PromotionInv, Shaped, ManifestRecord
<1>10. n > 1 => tree.obs # None /\ Len(tree.obs.versions) = n - 1
  BY <1>2 DEF Follows
<1>11. /\ entries \in Seq(AuditEntry) /\ Len(entries) = n /\ entries[n] = v
       /\ \A m \in 1..(n - 1) : SameVersion(entries[m], tree.obs.versions[m])
  BY <1>8, <1>9, <1>10, Appended, SameIsSame
<1>12. Idling("local") /\ ~Withdrawn
  BY DEF Local
<1> HIDE DEF entries
<1> QED
  BY <1>2, <1>6, <1>8, <1>11, <1>12, Promoted DEF n

\* The history up to an instant is that of the whole log, up to it.
LEMMA Shorter ==
    ASSUME NEW s \in Seq(Text), NEW T \in 1..Len(s), NEW n \in DOMAIN History(s),
           History(s)[n].first <= T
    PROVE  LET h == History(SubSeq(s, 1, T)) IN
           /\ n \in DOMAIN h
           /\ h[n].first = History(s)[n].first /\ h[n].text = History(s)[n].text
<1> DEFINE r == SubSeq(s, 1, T)
           B == Begins(s)
           C == Begins(r)
           i == Runs(s)[n]
<1>1. /\ r \in Seq(Text) /\ Len(r) = T /\ DOMAIN r = 1..T /\ DOMAIN s = 1..Len(s)
      /\ \A j \in 1..T : r[j] = s[j]
      /\ Len(s) \in Nat /\ T \in Nat /\ T <= Len(s)
  OBVIOUS
<1> HIDE DEF r
<1>2. /\ \A x : x \in B <=> x \in 1..Len(s) /\ (x = 1 \/ s[x] # s[x - 1])
      /\ \A x : x \in C <=> x \in 1..T /\ (x = 1 \/ r[x] # r[x - 1])
  BY <1>1 DEF Begins
<1>3. \A x \in 1..T : x = 1 \/ (r[x] = s[x] /\ r[x - 1] = s[x - 1])
  <2> SUFFICES ASSUME NEW x \in 1..T, x # 1 PROVE r[x] = s[x] /\ r[x - 1] = s[x - 1]
    OBVIOUS
  <2>1. x - 1 \in 1..T
    BY <1>1
  <2> QED
    BY <1>1, <2>1
<1>4. \A x : x \in C <=> x \in B /\ x <= T
  BY <1>1, <1>2, <1>3
<1>5. IsFiniteSet(B) /\ (\A x \in B : x \in Nat) /\ IsFiniteSet(C) /\ \A x \in C : x \in Nat
  BY <1>1, BeginsAreFinite DEF Begins
<1>6. n \in 1..Cardinality(B) /\ DOMAIN Runs(s) = 1..Cardinality(B) /\ DOMAIN Runs(r) = 1..Cardinality(C)
      /\ DOMAIN History(s) = DOMAIN Runs(s) /\ DOMAIN History(r) = DOMAIN Runs(r)
  BY DEF History, Runs
<1>7. /\ History(s)[n].first = i /\ History(s)[n].text = s[i]
      /\ n \in DOMAIN History(r) =>
            History(r)[n].first = Runs(r)[n] /\ History(r)[n].text = r[Runs(r)[n]]
  BY <1>6 DEF History
<1>8. i \in B /\ Cardinality({j \in B : j <= i}) = n
  BY <1>6, RunsBegin
<1>9. i \in C /\ i \in Nat
  BY <1>4, <1>5, <1>7, <1>8
<1> HIDE DEF i, B, C
<1>10. {j \in C : j <= i} = {j \in B : j <= i}
  BY <1>1, <1>4, <1>5, <1>9
<1>11. Cardinality({j \in C : j <= i}) = n /\ n \in 1..Cardinality(C)
  <2>1. Cardinality({j \in C : j <= i}) = n
    BY <1>8, <1>10
  <2>2. \A k \in C : Cardinality({j \in C : j <= k}) \in 1..Cardinality(C)
    BY <1>5, RanksDiffer
  <2> QED
    BY <1>9, <2>1, <2>2
<1>12. Runs(r)[n] \in C /\ Cardinality({j \in C : j <= Runs(r)[n]}) = n
  BY <1>1, <1>6, <1>11, RunsBegin DEF C
<1>13. Runs(r)[n] = i
  <2>1. \A k, l \in C : Cardinality({j \in C : j <= k}) = Cardinality({j \in C : j <= l}) => k = l
    BY <1>5, RanksDiffer
  <2> QED
    BY <1>9, <1>11, <1>12, <2>1
<1>14. r[i] = s[i]
  BY <1>1, <1>2, <1>9
<1> QED
  BY <1>6, <1>7, <1>11, <1>13, <1>14 DEF r

\* The instant that a backfill reads the log up to: that of the latest approval in its plan.
LEMMA PlanIs ==
    ASSUME PromotionInv, Planned(History(seen)) # {}
    PROVE  /\ Through(History(seen)) \in 1..Len(seen)
           /\ \A k \in Planned(History(seen)) :
                 /\ k \in DOMAIN History(seen) /\ Fits(History(seen)[k]) # {}
                 /\ History(seen)[k].first <= Through(History(seen))
<1> DEFINE all == History(seen)
           at == {Approval(all[k]).at : k \in Planned(all)}
<1>1. LogIsSound /\ seen \in Seq(Text) /\ Len(seen) \in Nat
  BY DEF PromotionInv, LogIsSound
<1>2. ASSUME NEW k \in Planned(all)
      PROVE  /\ k \in DOMAIN all /\ Fits(all[k]) # {}
             /\ Approval(all[k]).at \in 1..Len(seen) /\ all[k].first <= Approval(all[k]).at
             /\ all[k].first \in Nat
  <2>1. k \in DOMAIN all /\ \A m \in 1..k : Fits(all[m]) # {}
    BY DEF Planned
  <2>2. k \in 1..k /\ all[k].first \in Nat
    BY <1>1, <2>1, HistoryIs
  <2>3. Approval(all[k]) \in Fits(all[k])
    BY <2>1, <2>2 DEF Approval
  <2>4. Approval(all[k]) \in Approvals(all[k].text) /\ Approval(all[k]).at >= all[k].first
    BY <2>3 DEF Fits
  <2>5. Approval(all[k]).at \in 1..Len(seen)
    BY <1>1, <2>4, ApprovalIs
  <2> HIDE DEF all
  <2> QED
    BY <2>1, <2>2, <2>4, <2>5
<1>3. at # {} /\ \A x \in at : x \in 1..Len(seen)
  BY <1>2
<1>4. Through(all) = CHOOSE x \in at : \A y \in at : y <= x
  BY DEF Through
<1> DEFINE T == Through(all)
<1>5. \A k \in Planned(all) : Approval(all[k]).at \in at
  OBVIOUS
<1> HIDE DEF at, all
<1>6. \E x \in at : \A y \in at : y <= x
  BY <1>1, <1>3, GreatestNumber
<1>7. T \in at /\ \A y \in at : y <= T
  BY <1>4, <1>6
<1>8. ASSUME NEW k \in Planned(all) PROVE all[k].first <= T
  BY <1>2, <1>3, <1>5, <1>7
<1> QED
  BY <1>2, <1>3, <1>7, <1>8 DEF all

\* with_intervals changes no more than the interval.
LEMMA RefreshedIs ==
    ASSUME NEW entries \in Seq(AuditEntry), NEW s \in Seq(Text),
           DOMAIN entries \subseteq DOMAIN History(s)
    PROVE  LET new == Refreshed(entries, History(s)) IN
           /\ new \in Seq(AuditEntry) /\ Len(new) = Len(entries)
           /\ \A m \in DOMAIN entries : SameVersion(new[m], entries[m])
<1> DEFINE new == Refreshed(entries, History(s))
<1>1. DOMAIN entries = 1..Len(entries) /\ Len(entries) \in Nat
  OBVIOUS
<1>2. ASSUME NEW m \in DOMAIN entries
      PROVE  new[m] \in AuditEntry /\ SameVersion(new[m], entries[m])
  <2>1. History(s)[m].last \in Nat
    BY HistoryIs
  <2>2. entries[m] \in AuditEntry
    BY <1>1
  <2>3. new[m] = [entries[m] EXCEPT !.last = History(s)[m].last]
    BY DEF Refreshed
  <2> HIDE DEF new
  <2>4. PICK last \in Nat : new[m] = [entries[m] EXCEPT !.last = last]
    BY <2>1, <2>3
  <2>5. \A e \in AuditEntry : /\ [e EXCEPT !.last = last] \in AuditEntry
                              /\ SameVersion([e EXCEPT !.last = last], e)
    BY DEF AuditEntry, SameVersion
  <2> QED
    BY <2>2, <2>4, <2>5
<1>3. DOMAIN new = 1..Len(entries) /\ new = [m \in 1..Len(entries) |-> new[m]]
  BY <1>1 DEF Refreshed
<1> HIDE DEF new
<1>4. new \in Seq(AuditEntry) /\ Len(new) = Len(entries)
  BY <1>1, <1>2, <1>3
<1> QED
  BY <1>2, <1>4 DEF new

LEMMA BackfillKeeps == ASSUME PromotionInv, Backfill PROVE PromotionInv'
<1> DEFINE all == History(seen)
           T == Through(all)
           s == SubSeq(seen, 1, T)
           n == NextNumber
           v == History(s)[n]
           d == Approval(v)
           e == Entry(v.text, v.first, v.last, d)
           before == Append(Earlier(n), e)
           entries == Refreshed(before, History(s))
<1>1. /\ Idling("backfill")
      /\ Planned(all) # {} /\ n \in Planned(all) /\ Follows(n, v.first)
      /\ Run("backfill", order, Files(v.text, n, v.first, entries), <<>>)
  BY DEF Backfill
<1>2. LogIsSound /\ seen \in Seq(Text) /\ Len(seen) \in Nat /\ extractor \in 1..MaxExtractor
  BY DEF PromotionInv, LogIsSound
<1>3. /\ T \in 1..Len(seen) /\ n \in DOMAIN all /\ Fits(all[n]) # {} /\ all[n].first <= T
  BY <1>1, PlanIs
<1>4. s \in Seq(Text)
  BY <1>2, <1>3
<1>5. /\ n \in DOMAIN History(s) /\ v.first = all[n].first /\ v.text = all[n].text
  <2> HIDE DEF T, n
  <2> QED
    BY <1>2, <1>3, Shorter
<1>6. v.first \in Nat /\ v.last \in Nat /\ v.text \in Text /\ n \in Nat \ {0}
      /\ 1..n \subseteq DOMAIN History(s)
  <2> HIDE DEF s, n
  <2> QED
    BY <1>4, <1>5, HistoryIs
<1>7. d \in Fits(v)
  <2>1. Fits(v) = Fits(all[n])
    BY <1>5 DEF Fits
  <2> HIDE DEF v, all
  <2> QED
    BY <1>3, <2>1 DEF Approval
<1> HIDE DEF d, v, s, T, all
<1>8. /\ d \in Approvals(v.text) /\ StandsHere(d) /\ d.at \in Nat /\ v.first <= d.at
  <2>1. d \in Approvals(v.text) /\ StandsHere(d) /\ d.at >= v.first
    BY <1>7 DEF Fits
  <2>2. d.at \in 1..Len(seen)
    BY <1>2, <2>1, ApprovalIs
  <2> QED
    BY <1>2, <1>6, <2>1, <2>2
<1>9. /\ e \in AuditEntry /\ e.text = v.text /\ e.first = v.first /\ e.by = extractor
      /\ e.decided = d.at /\ e.carried = IsCarried(d)
  BY <1>2, <1>6, <1>8 DEF Entry, AuditEntry, IsCarried
<1>10. n > 1 => tree.obs # None /\ Len(tree.obs.versions) = n - 1
  BY <1>1 DEF Follows
<1> HIDE DEF e, n
<1>11. /\ before \in Seq(AuditEntry) /\ Len(before) = n /\ before[n] = e
       /\ \A m \in 1..(n - 1) : before[m] = tree.obs.versions[m]
  BY <1>6, <1>9, <1>10, Appended
<1> HIDE DEF before
<1>12. DOMAIN before = 1..n
  BY <1>11
<1>13. /\ entries \in Seq(AuditEntry) /\ Len(entries) = n
       /\ \A m \in 1..n : SameVersion(entries[m], before[m])
  BY <1>4, <1>6, <1>11, <1>12, RefreshedIs
<1> HIDE DEF entries
<1>14. \A m \in 1..(n - 1) : SameVersion(entries[m], tree.obs.versions[m])
  <2>1. \A m \in 1..(n - 1) : m \in 1..n
    BY <1>6
  <2> QED
    BY <1>11, <1>13, <2>1
<1>15. SameVersion(entries[n], e)
  BY <1>6, <1>11, <1>13
<1>16. /\ entries[n].text = v.text /\ entries[n].first = v.first /\ entries[n].by = extractor
       /\ entries[n].decided = d.at /\ entries[n].carried = IsCarried(d)
  BY <1>9, <1>15 DEF SameVersion
<1>17. Run("backfill", order, Files(v.text, n, v.first, entries), <<>>)
  BY <1>1 DEF v, n, entries, before, e, d, s, T, all
<1>18. Follows(n, v.first)
  BY <1>1 DEF v, n
<1> QED
  BY <1>1, <1>6, <1>8, <1>13, <1>14, <1>16, <1>17, <1>18, Promoted DEF n

\* When a command begins, nothing is written yet.
LEMMA Beginning ==
    ASSUME PromotionInv, NEW kind, NEW queue, queue # <<>>, NEW target, NEW lines,
           Run(kind, queue, target, lines)
    PROVE  /\ Doing' = kind /\ job'.queue = queue /\ job'.target = target /\ job'.lines = lines
           /\ UNCHANGED <<seen, extractor, log, tree, pages>> /\ Withdrawn' = Withdrawn
           /\ \A f : Story(f) => Story(f)'
           /\ \A f, ls : AreApproved(f, ls) => AreApproved(f, ls)'
           /\ \A f : IsWhole(f) => IsWhole(f)'
<1>1. /\ job' = [kind |-> kind, queue |-> queue, target |-> target, lines |-> lines]
      /\ UNCHANGED <<seen, extractor, log, tree, pages, passed>>
  BY DEF Run
<1>2. job' # NoJob /\ job'.kind = kind
  BY <1>1 DEF NoJob
<1>3. Grows /\ Withdrawn' = Withdrawn
  BY <1>1, LogRests
<1> QED
  BY <1>1, <1>2, <1>3, ToldStays DEF Doing

\* The files that observe and refresh find: all of a version, or nothing.
LEMMA Resting ==
    ASSUME PromotionInv, NEW kind \in {"observe", "refresh"}, Idling(kind), tree.record # None
    PROVE  Told(tree, <<>>)
<1>1. Doing \in {"none", kind}
  BY DEF Idling, Doing
<1> QED
  BY <1>1 DEF PromotionInv, TreeStands, Unpublished

\* observe changes the intervals only.
LEMMA ObserveKeeps == ASSUME PromotionInv, Observe PROVE PromotionInv'
<1> DEFINE old == tree.obs.versions
           versions == Refreshed(old, History(seen))
           target == [tree EXCEPT !.obs.versions = versions]
<1>1. /\ Idling("observe") /\ tree.record # None /\ tree.obs # None
      /\ tree.record.status = "current"
      /\ Reproduced(old, History(seen))
      /\ Run("observe", <<"obs">>, target, <<>>)
  BY DEF Observe
<1>2. /\ IsWhole(tree) /\ Story(tree) /\ AreApproved(tree, <<>>)
  BY <1>1, Resting DEF Told
<1>3. /\ DOMAIN tree = FileKind /\ tree.obs \in ObsFile /\ old \in Seq(AuditEntry)
      /\ Shaped(tree) /\ seen \in Seq(Text)
  BY <1>1 DEF PromotionInv, Shaped, ObsFile, LogIsSound
<1>4. DOMAIN old \subseteq DOMAIN History(seen)
  BY <1>1 DEF Reproduced
<1> HIDE DEF old
<1>5. /\ versions \in Seq(AuditEntry) /\ Len(versions) = Len(old)
      /\ \A m \in DOMAIN old : SameVersion(versions[m], old[m])
  BY <1>3, <1>4, RefreshedIs
<1> HIDE DEF versions
<1>6. DOMAIN versions = 1..Len(old) /\ DOMAIN old = 1..Len(old) /\ Len(old) \in Nat
  BY <1>3, <1>5
<1>7. /\ target.page = tree.page /\ target.evidence = tree.evidence /\ target.record = tree.record
      /\ target.obs = [tree.obs EXCEPT !.versions = versions] /\ DOMAIN target = FileKind
  BY <1>3 DEF FileKind
<1>8. target.obs.versions = versions /\ target.obs.withdrawn = tree.obs.withdrawn
      /\ target.obs \in ObsFile
  BY <1>3, <1>5, <1>7 DEF ObsFile
<1> HIDE DEF target
<1>9. Shaped(target) /\ target.obs # None
  BY <1>3, <1>7, <1>8, PromotionAssumption DEF Shaped
<1> DEFINE n == tree.record.version
<1>10. n \in Nat \ {0} /\ Len(old) = n
  BY <1>1, <1>2, <1>3 DEF Shaped, ManifestRecord, Story, old
<1> HIDE DEF n
<1>11. \A m \in 1..n : /\ versions[m].first = old[m].first /\ versions[m].text = old[m].text
                       /\ Decided(versions[m]) /\ WillBeApproved(versions[m], <<>>)
  <2> SUFFICES ASSUME NEW m \in 1..n
               PROVE  /\ versions[m].first = old[m].first /\ versions[m].text = old[m].text
                      /\ Decided(versions[m]) /\ WillBeApproved(versions[m], <<>>)
    OBVIOUS
  <2>1. SameVersion(versions[m], old[m])
    BY <1>5, <1>6, <1>10
  <2>2. Decided(old[m]) /\ WillBeApproved(old[m], <<>>)
    BY <1>2, <1>6, <1>10 DEF Story, AreApproved, n, old
  <2> QED
    BY <2>1, <2>2, SameVersionStands DEF SameVersion
<1>12. n \in 1..n /\ \A m \in 1..(n - 1) : m \in 1..n /\ m + 1 \in 1..n
  BY <1>10
<1>13. \A m \in 1..(n - 1) : versions[m].first < versions[m + 1].first
  BY <1>2, <1>11, <1>12 DEF Story, n, old
<1>14. Story(target)
  <2>1. versions[n].text = tree.record.text
    BY <1>2, <1>11, <1>12 DEF Story, n, old
  <2>2. \A p \in pages : p.version \in 1..n /\ versions[p.version].text = p.text
    BY <1>2, <1>11 DEF Story, n, old
  <2> QED
    BY <1>1, <1>5, <1>7, <1>8, <1>9, <1>10, <1>11, <1>13, <2>1, <2>2 DEF Story, n
<1>15. IsWhole(target)
  <2>1. IsWhole(tree) /\ old = tree.obs.versions
    BY <1>2 DEF old
  <2> QED
    BY <1>1, <1>5, <1>7, <1>8, <1>10, <1>11, <1>12, <1>13, <2>1
       DEF IsWhole, PageFits, EvidenceFits, n
<1>16. AreApproved(target, <<>>)
  BY <1>6, <1>8, <1>10, <1>11 DEF AreApproved
<1>17. Told(target, <<>>)
  BY <1>14, <1>15, <1>16 DEF Told
<1>18. Sequence(<<>>) /\ Sequence(<<"obs">>) /\ <<"obs">> # <<>> /\ ToSet(<<"obs">>) = {"obs"}
  BY DEF Sequence, ToSet
<1>19. \A k \in FileKind : k \notin {"obs"} => tree[k] = target[k]
  BY <1>7 DEF FileKind
<1>20. job'.kind = "observe" => TreeStands'
  <2>1. /\ Doing' = "observe" /\ UNCHANGED <<tree, log>>
        /\ Story(tree)' /\ AreApproved(tree, <<>>)' /\ IsWhole(tree)'
    BY <1>1, <1>2, <1>18, Beginning
  <2> QED
    BY <2>1 DEF TreeStands, Told
<1> QED
  BY <1>1, <1>9, <1>17, <1>18, <1>19, <1>20, Starting

\* refresh changes what is rendered, not the version.
LEMMA RefreshKeeps == ASSUME PromotionInv, Refresh PROVE PromotionInv'
<1> DEFINE look == Look[tree.page.text][extractor]
           target == [tree EXCEPT !.page.look = look]
<1>1. /\ Idling("refresh") /\ ~Withdrawn /\ tree.record # None /\ tree.obs # None /\ tree.page # None
      /\ Run("refresh", <<"page">>, target, <<>>)
  BY DEF Refresh, IsPublished
<1>2. IsWhole(tree) /\ Story(tree) /\ AreApproved(tree, <<>>)
  BY <1>1, Resting DEF Told
<1>3. DOMAIN tree = FileKind /\ tree.page \in PageFile /\ Shaped(tree)
  BY <1>1 DEF PromotionInv, Shaped
<1>4. look \in Nat
  BY <1>3, PromotionAssumption DEF PromotionInv, LogIsSound, PageFile
<1> HIDE DEF look
<1>5. /\ target.page = [tree.page EXCEPT !.look = look] /\ target.evidence = tree.evidence
      /\ target.record = tree.record /\ target.obs = tree.obs /\ DOMAIN target = FileKind
  BY <1>3 DEF FileKind
<1> HIDE DEF target
<1>6. /\ target.page \in PageFile /\ target.page.text = tree.page.text
      /\ target.page.version = tree.page.version /\ target.page.first = tree.page.first
  BY <1>3, <1>4, <1>5 DEF PageFile
<1>7. Shaped(target) /\ target.page # None
  BY <1>3, <1>5, <1>6, PromotionAssumption DEF Shaped
<1>8. Story(target) /\ AreApproved(target, <<>>)
  BY <1>2, <1>5 DEF Story, AreApproved
<1>9. IsWhole(target)
  <2>1. tree.record.status # "removed"
    BY DEF Refresh, IsPublished
  <2> QED
    BY <1>2, <1>5, <1>6, <1>7, <2>1 DEF IsWhole, PageFits, EvidenceFits
<1>10. Told(target, <<>>)
  BY <1>8, <1>9 DEF Told
<1>11. Sequence(<<>>) /\ Sequence(<<"page">>) /\ <<"page">> # <<>> /\ ToSet(<<"page">>) = {"page"}
  BY DEF Sequence, ToSet
<1>12. \A k \in FileKind : k \notin {"page"} => tree[k] = target[k]
  BY <1>5 DEF FileKind
<1>13. job'.kind = "refresh" => TreeStands'
  <2>1. /\ Doing' = "refresh" /\ UNCHANGED <<tree, log>>
        /\ Story(tree)' /\ AreApproved(tree, <<>>)' /\ IsWhole(tree)'
    BY <1>1, <1>2, <1>11, Beginning
  <2> QED
    BY <2>1 DEF TreeStands, Told
<1> QED
  BY <1>1, <1>7, <1>10, <1>11, <1>12, <1>13, Starting

\* withdraw keeps the versions, and takes the page and its evidence.
LEMMA WithdrawKeeps == ASSUME PromotionInv, Withdraw PROVE PromotionInv'
<1> DEFINE line == [kind |-> "withdrawal"]
           target == [page |-> None, evidence |-> None, obs |-> [tree.obs EXCEPT !.withdrawn = TRUE],
                      record |-> [tree.record EXCEPT !.status = "removed"]]
<1>1. /\ Idling("withdraw") /\ tree.record # None /\ tree.record.status = "current" /\ tree.obs # None
      /\ Run("withdraw", WithdrawalQueue, target, <<line>>)
  BY DEF Withdraw
<1>2. /\ Story(tree) /\ AreApproved(tree, <<>>)
      /\ tree.page = None \/ PageFits(tree)
      /\ EvidenceFits(tree)
  <2>1. CASE Doing = "none"
    BY <1>1, <2>1 DEF PromotionInv, TreeStands, Told, Unpublished, IsWhole
  <2>2. CASE Doing = "withdraw"
    BY <2>2 DEF PromotionInv, TreeStands
  <2> QED
    BY <1>1, <2>1, <2>2 DEF Idling, Doing
<1>3. tree.obs \in ObsFile /\ tree.record \in ManifestRecord /\ tree.obs.versions \in Seq(AuditEntry)
  BY <1>1 DEF PromotionInv, Shaped, ObsFile
<1>4. /\ target.page = None /\ target.evidence = None /\ DOMAIN target = FileKind
      /\ target.obs = [tree.obs EXCEPT !.withdrawn = TRUE]
      /\ target.record = [tree.record EXCEPT !.status = "removed"]
  BY DEF FileKind
<1> HIDE DEF target
<1>5. /\ target.obs \in ObsFile /\ target.obs.versions = tree.obs.versions /\ target.obs.withdrawn = TRUE
  BY <1>3, <1>4 DEF ObsFile
<1>6. /\ target.record \in ManifestRecord /\ target.record.version = tree.record.version
      /\ target.record.text = tree.record.text /\ target.record.status = "removed"
  BY <1>3, <1>4 DEF ManifestRecord
<1>7. Shaped(target) /\ target.obs # None /\ target.record # None
  BY <1>4, <1>5, <1>6, PromotionAssumption DEF Shaped
<1>8. Story(target)
  BY <1>2, <1>5, <1>6, <1>7 DEF Story
<1>9. IsWhole(target)
  BY <1>2, <1>4, <1>5, <1>6 DEF IsWhole, IsGone, Story
<1>10. AreApproved(target, <<line>>)
  <2>1. \A v : WillBeApproved(v, <<>>) => WillBeApproved(v, <<line>>)
    BY NothingIsSet DEF WillBeApproved
  <2> QED
    BY <1>2, <1>5, <2>1 DEF AreApproved
<1>11. Told(target, <<line>>)
  BY <1>8, <1>9, <1>10 DEF Told
<1>12. /\ Sequence(WithdrawalQueue) /\ WithdrawalQueue # <<>> /\ Sequence(<<line>>)
       /\ FileKind \subseteq ToSet(WithdrawalQueue)
  BY DEF Sequence, ToSet, WithdrawalQueue, FileKind
<1>13. /\ Doing' = "withdraw" /\ UNCHANGED <<tree, log>> /\ Story(tree)' /\ AreApproved(tree, <<>>)'
       /\ job'.queue = WithdrawalQueue /\ job'.lines = <<line>> /\ job'.target = target
  BY <1>1, <1>2, <1>12, Beginning
<1>14. TreeStands'
  BY <1>1, <1>2, <1>13 DEF TreeStands, PageFits, EvidenceFits
<1>15. Withdrawing'
  BY <1>1, <1>4, <1>5, <1>6, <1>13 DEF Withdrawing
<1> QED
  BY <1>1, <1>7, <1>11, <1>12, <1>14, <1>15, Starting

\* A finite set listed: what SetToSeq gives.
LEMMA SetListed ==
    ASSUME NEW S, IsFiniteSet(S)
    PROVE  Sequence(SetToSeq(S)) /\ ToSet(SetToSeq(S)) = S
<1> DEFINE N == Cardinality(S)
           q == SetToSeq(S)
           Q == 1..N
<1>1. N \in Nat /\ \E f \in [1..N -> S] : IsInjective(f)
  BY FS_CardinalityType DEF ExistsBijection, Bijection, Injection
<1>2. q \in [1..N -> S] /\ IsInjective(q)
  <2>1. q = CHOOSE f \in [1..N -> S] : IsInjective(f)
    BY DEF SetToSeq
  <2> HIDE DEF N, q
  <2> QED
    BY <1>1, <2>1
<1>3. IsFiniteSet(Q) /\ Cardinality(Q) = N
  BY <1>1, FS_Interval
<1>4. q \in Injection(Q, S)
  BY <1>2 DEF Injection
<1> HIDE DEF Q, q
<1>5. q \in Surjection(Q, S)
  BY <1>3, <1>4, FS_Injection
<1>6. ToSet(q) = S
  BY <1>5 DEF Surjection, ToSet
<1>7. q = [i \in 1..N |-> q[i]]
  BY <1>2
<1>8. Sequence(q)
  <2> HIDE DEF N
  <2> QED
    BY <1>1, <1>7, Listing
<1> QED
  BY <1>6, <1>8 DEF q

\* What a migration finds: a whole version, and the history that was published.
LEMMA MigrationFinds ==
    ASSUME PromotionInv, Idling("migrate"), tree.record # None
    PROVE  IsWhole(tree) /\ Story(tree)
<1>1. Doing \in {"none", "migrate"}
  BY DEF Idling, Doing
<1> QED
  BY <1>1 DEF PromotionInv, TreeStands, Unpublished, Told

\* An audit that was moved names an approval still, once the carry is in the log.
LEMMA AuditMoved ==
    ASSUME PromotionInv, NEW e \in AuditEntry, Decided(e),
           NEW d \in Approvals(e.text), d.by = extractor \/ d.by < extractor,
           NEW lines, IsCarried(d) => CarryLine(d) \in ToSet(log) \cup ToSet(lines)
    PROVE  LET v == AuditHere(e, d) IN
           /\ v \in AuditEntry /\ v.text = e.text /\ v.first = e.first
           /\ Decided(v) /\ WillBeApproved(v, lines)
<1> DEFINE v == AuditHere(e, d)
<1>1. PICK i \in Decisions(e.text) :
        /\ log[i] = d /\ d.approves /\ d.text = e.text
        /\ \A k \in Decisions(e.text) : k <= i
        /\ d.at \in 1..Len(seen)
  BY ApprovalIs DEF PromotionInv
<1>2. PICK k \in Decisions(e.text) :
        log[k].approves /\ log[k].at = e.decided /\ e.first <= e.decided
  BY DEF Decided
<1>3. /\ k <= i /\ i \in DOMAIN log /\ k \in DOMAIN log /\ IsDecision(i) /\ IsDecision(k)
      /\ Sequence(log) /\ Len(seen) \in Nat /\ extractor \in 1..MaxExtractor
  BY <1>1, <1>2 DEF Decisions, IsDecision, PromotionInv, LogIsSound
<1>4. DOMAIN log = 1..Len(log) /\ Len(log) \in Nat
  BY <1>3, Indexed
<1>5. e.decided <= d.at /\ d.at \in Nat /\ e.decided \in Nat /\ e.first \in Nat
  <2>1. log[k].at <= log[i].at
    <3>1. CASE k = i
      BY <1>1, <1>3, <3>1
    <3>2. CASE k < i
      BY <1>3, <3>2 DEF PromotionInv, LogIsSound
    <3> QED
      BY <1>3, <1>4, <3>1, <3>2
  <2> QED
    BY <1>1, <1>2, <1>3, <2>1 DEF AuditEntry
<1>6. CASE IsCarried(d)
  <2>1. v = [e EXCEPT !.by = extractor, !.carried = TRUE]
    BY <1>6 DEF AuditHere
  <2>2. /\ v \in AuditEntry /\ v.text = e.text /\ v.first = e.first /\ v.decided = e.decided
        /\ v.by = extractor /\ v.carried = TRUE
    BY <1>3, <2>1 DEF AuditEntry
  <2>3. /\ CarryLine(d).kind = "carried" /\ CarryLine(d).text = e.text /\ CarryLine(d).to = extractor
    BY <1>1 DEF CarryLine
  <2> HIDE DEF v
  <2>4. Decided(v)
    BY <1>2, <1>5, <2>2 DEF Decided
  <2>5. WillBeApproved(v, lines)
    BY <1>2, <1>6, <2>2, <2>3 DEF WillBeApproved
  <2> QED
    BY <2>2, <2>4, <2>5 DEF v
<1>7. CASE ~IsCarried(d)
  <2>1. v = [e EXCEPT !.by = extractor, !.decided = d.at, !.carried = FALSE]
    BY <1>7 DEF AuditHere
  <2>2. /\ v \in AuditEntry /\ v.text = e.text /\ v.first = e.first /\ v.decided = d.at
        /\ v.by = extractor /\ v.carried = FALSE
    BY <1>3, <1>5, <2>1 DEF AuditEntry
  <2>3. log[i].by = extractor /\ e.first <= d.at
    BY <1>1, <1>2, <1>5, <1>7 DEF IsCarried
  <2> HIDE DEF v
  <2>4. Decided(v)
    BY <1>1, <1>5, <2>2, <2>3 DEF Decided
  <2>5. WillBeApproved(v, lines)
    BY <1>1, <2>2, <2>3 DEF WillBeApproved
  <2> QED
    BY <2>2, <2>4, <2>5 DEF v
<1> QED
  BY <1>6, <1>7

\* One sequence after another.
LEMMA Joining ==
    ASSUME NEW S, NEW a \in Seq(S), NEW b \in Seq(S)
    PROVE  /\ a \o b \in Seq(S) /\ Len(a \o b) = Len(a) + Len(b)
           /\ \A i \in 1..Len(a) : (a \o b)[i] = a[i]
           /\ \A i \in 1..Len(b) : (a \o b)[Len(a) + i] = b[i]
OBVIOUS

\* The writes of a migration: its files, then a line for every carry that the log lacks.
LEMMA MigrationQueue ==
    ASSUME NEW lines, Sequence(lines), NEW first \in {<<>>, <<"evidence">>}
    PROVE  LET queue == first \o <<"obs", "record">> \o [i \in DOMAIN lines |-> "log"] IN
           /\ Sequence(queue) /\ queue # <<>> /\ {"obs", "record"} \subseteq ToSet(queue)
           /\ ToSet(queue) \subseteq {"evidence", "obs", "record", "log"}
           /\ Len(lines) <= Len(queue)
           /\ \A i \in DOMAIN queue : queue[i] = "log" <=> i > Len(queue) - Len(lines)
<1> DEFINE S == {"evidence", "obs", "record", "log"}
           files == first \o <<"obs", "record">>
           logs == [i \in DOMAIN lines |-> "log"]
           queue == files \o logs
           L == Len(files)
           K == Len(lines)
<1>1. DOMAIN lines = 1..K /\ K \in Nat
  BY Indexed
<1>2. /\ files \in Seq(S) /\ L \in {2, 3} /\ files[L] = "record" /\ files[L - 1] = "obs"
      /\ \A i \in 1..L : files[i] # "log"
  <2> DEFINE two == <<"obs", "record">>
             J == Len(first)
  <2>1. first \in Seq(S) /\ J \in {0, 1} /\ \A i \in 1..J : first[i] # "log"
    <3>1. CASE first = <<>>
      BY <3>1
    <3>2. CASE first = <<"evidence">>
      <4>1. Len(first) = 1 /\ first[1] = "evidence"
        BY <3>2
      <4>2. first \in Seq(S)
        BY <3>2
      <4> QED
        BY <4>1, <4>2
    <3> QED
      BY <3>1, <3>2
  <2>2. two \in Seq(S) /\ Len(two) = 2 /\ two[1] = "obs" /\ two[2] = "record"
    OBVIOUS
  <2> HIDE DEF two, S
  <2>3. /\ first \o two \in Seq(S) /\ Len(first \o two) = J + 2
        /\ \A i \in 1..J : (first \o two)[i] = first[i]
        /\ \A i \in 1..Len(two) : (first \o two)[J + i] = two[i]
    BY <2>1, <2>2, Joining
  <2>4. files = first \o two
    BY DEF two
  <2> HIDE DEF files, J
  <2>5. \A i \in 1..(J + 2) : i \in 1..J \/ i = J + 1 \/ i = J + 2
    BY <2>1
  <2>6. files[J + 1] = "obs" /\ files[J + 2] = "record"
    <3>1. 1 \in 1..Len(two) /\ 2 \in 1..Len(two)
      BY <2>2
    <3> QED
      BY <2>2, <2>3, <2>4, <3>1
  <2>7. L = J + 2 /\ L \in {2, 3} /\ L - 1 = J + 1
    BY <2>1, <2>3, <2>4
  <2>8. \A i \in 1..L : files[i] # "log"
    BY <2>1, <2>3, <2>4, <2>5, <2>6, <2>7
  <2> QED
    BY <2>3, <2>4, <2>6, <2>7, <2>8
<1> HIDE DEF K
<1>3. logs \in Seq(S) /\ Len(logs) = K /\ \A i \in 1..K : logs[i] = "log"
  <2>1. logs = [i \in 1..K |-> "log"]
    BY <1>1
  <2> QED
    BY <1>1, <2>1
<1> HIDE DEF files, logs, S
<1>4. /\ queue \in Seq(S) /\ Len(queue) = L + K /\ DOMAIN queue = 1..(L + K)
      /\ \A i \in 1..L : queue[i] = files[i]
      /\ \A i \in 1..K : queue[L + i] = logs[i]
  BY <1>2, <1>3
<1> HIDE DEF queue, L
<1>5. \A i \in 1..(L + K) : i \in 1..L \/ (i > L /\ i - L \in 1..K /\ L + (i - L) = i)
  BY <1>1, <1>2
<1>6. L - 1 \in 1..L /\ L \in 1..L /\ 1..L \subseteq 1..(L + K) /\ (L + K) - K = L /\ K <= L + K
  BY <1>1, <1>2
<1>7. ASSUME NEW i \in DOMAIN queue PROVE queue[i] = "log" <=> i > Len(queue) - K
  <2>1. CASE i \in 1..L
    <3>1. ~(i > L)
      BY <1>2, <2>1
    <3> QED
      BY <1>2, <1>4, <1>6, <2>1, <3>1
  <2>2. CASE i > L /\ i - L \in 1..K /\ L + (i - L) = i
    BY <1>3, <1>4, <1>6, <2>2
  <2> QED
    BY <1>4, <1>5, <2>1, <2>2
<1>8. ToSet(queue) \subseteq S
  BY <1>4 DEF ToSet
<1>9. "obs" \in ToSet(queue) /\ "record" \in ToSet(queue)
  BY <1>2, <1>4, <1>6 DEF ToSet
<1>10. queue \in Seq(ToSet(queue)) /\ queue # <<>>
  <2>1. \A i \in 1..Len(queue) : queue[i] \in ToSet(queue)
    BY <1>4 DEF ToSet
  <2>2. queue \in Seq(ToSet(queue))
    BY <1>4, <2>1
  <2>3. Len(queue) # 0
    BY <1>1, <1>2, <1>4
  <2> QED
    BY <1>4, <2>2, <2>3
<1> QED
  BY <1>4, <1>6, <1>7, <1>8, <1>9, <1>10 DEF Sequence, queue, files, logs, K, S

\* migrate moves the audits, and appends the carries that they stand on.
LEMMA MigrateKeeps == ASSUME PromotionInv, Migrate PROVE PromotionInv'
<1> DEFINE n == tree.record.version
           entries == tree.obs.versions
           movers == [m \in DOMAIN entries |-> Mover(m)]
           moved == {k \in DOMAIN entries : IsCarried(movers[k])}
           lines == {CarryLine(movers[m]) : m \in moved}
           fresh == SetToSeq(lines \ ToSet(log))
           versions == [m \in DOMAIN entries |-> AuditHere(entries[m], movers[m])]
           first == IF tree.evidence = None THEN <<"evidence">> ELSE <<>>
           queue == first \o <<"obs", "record">> \o [i \in DOMAIN fresh |-> "log"]
           evidence == [text |-> tree.record.text, version |-> n]
           target == [tree EXCEPT !.evidence = evidence, !.obs.versions = versions,
                                  !.record.extractor = extractor]
<1>1. /\ Idling("migrate") /\ ~Withdrawn
      /\ tree.record # None /\ tree.record.status = "current" /\ tree.obs # None
      /\ Len(entries) = n /\ \A m \in DOMAIN entries : Migrates(m) # {}
      /\ Run("migrate", queue, target, fresh)
  BY DEF Migrate, IsPublished
<1>2. IsWhole(tree) /\ Story(tree)
  BY <1>1, MigrationFinds
<1>3. /\ DOMAIN tree = FileKind /\ tree.obs \in ObsFile /\ entries \in Seq(AuditEntry)
      /\ tree.record \in ManifestRecord /\ n \in Nat \ {0} /\ Shaped(tree)
      /\ extractor \in 1..MaxExtractor
  BY <1>1 DEF PromotionInv, Shaped, ObsFile, ManifestRecord, LogIsSound
<1>4. DOMAIN entries = 1..n
  BY <1>1, <1>3
<1>5. \A m \in 1..n : entries[m] \in AuditEntry /\ Decided(entries[m])
  BY <1>2, <1>3, <1>4 DEF Story
<1>6. ASSUME NEW m \in 1..n
      PROVE  /\ movers[m] \in Approvals(entries[m].text)
             /\ movers[m].by = extractor \/ movers[m].by < extractor
  <2>1. Mover(m) \in Migrates(m)
    BY <1>1, <1>4 DEF Mover
  <2>2. movers[m] = Mover(m)
    BY <1>4
  <2> HIDE DEF movers
  <2> QED
    BY <2>1, <2>2 DEF Migrates
<1> HIDE DEF movers
<1>7. IsFiniteSet(lines)
  <2> DEFINE g == [m \in moved |-> CarryLine(movers[m])]
             N == 1..n
  <2>1. g \in Surjection(moved, lines)
    BY DEF Surjection
  <2>2. IsFiniteSet(N) /\ moved \in SUBSET N
    BY <1>3, <1>4, FS_Interval
  <2> HIDE DEF g, moved, lines, N
  <2>3. IsFiniteSet(moved)
    BY <2>2, FS_Subset
  <2> QED
    BY <2>1, <2>3, FS_Surjection
<1>8. Sequence(fresh) /\ ToSet(fresh) = lines \ ToSet(log)
  <2> DEFINE S == lines \ ToSet(log)
  <2> HIDE DEF lines
  <2>1. IsFiniteSet(S)
    BY <1>7, FS_Difference
  <2> HIDE DEF S
  <2>2. Sequence(SetToSeq(S)) /\ ToSet(SetToSeq(S)) = S
    BY <2>1, SetListed
  <2> QED
    BY <2>2 DEF S
<1>9. \A m \in 1..n : IsCarried(movers[m]) => CarryLine(movers[m]) \in ToSet(log) \cup ToSet(fresh)
  BY <1>4, <1>8
<1>10. \A x \in lines : x.kind = "carried"
  BY DEF CarryLine
<1> HIDE DEF fresh, lines, moved
<1>11. ASSUME NEW m \in 1..n
       PROVE  /\ versions[m] \in AuditEntry /\ versions[m].text = entries[m].text
              /\ versions[m].first = entries[m].first
              /\ Decided(versions[m]) /\ WillBeApproved(versions[m], fresh)
  <2>1. versions[m] = AuditHere(entries[m], movers[m])
    BY <1>4
  <2> HIDE DEF versions, entries
  <2> QED
    BY <1>5, <1>6, <1>9, <2>1, AuditMoved
<1>12. /\ versions \in Seq(AuditEntry) /\ Len(versions) = n /\ DOMAIN versions = 1..n
  <2>1. versions = [m \in 1..n |-> versions[m]]
    BY <1>4
  <2> HIDE DEF versions, n
  <2>2. versions \in [1..n -> AuditEntry]
    BY <1>11, <2>1
  <2> QED
    BY <1>3, <2>2
<1> HIDE DEF versions
<1>13. /\ Sequence(queue) /\ queue # <<>> /\ {"obs", "record"} \subseteq ToSet(queue)
       /\ ToSet(queue) \subseteq {"evidence", "obs", "record", "log"}
       /\ Len(fresh) <= Len(queue)
       /\ \A i \in DOMAIN queue : queue[i] = "log" <=> i > Len(queue) - Len(fresh)
  <2>1. first \in {<<>>, <<"evidence">>}
    OBVIOUS
  <2> HIDE DEF first
  <2> QED
    BY <1>8, <2>1, MigrationQueue
<1> HIDE DEF queue
<1>14. tree.evidence = evidence
  BY <1>1, <1>2 DEF IsWhole, EvidenceFits
<1>15. /\ target.page = tree.page /\ target.evidence = tree.evidence /\ DOMAIN target = FileKind
       /\ target.obs = [tree.obs EXCEPT !.versions = versions]
       /\ target.record = [tree.record EXCEPT !.extractor = extractor]
  <2> HIDE DEF evidence
  <2> QED
    BY <1>3, <1>14 DEF FileKind
<1> HIDE DEF target, evidence
<1>16. /\ target.obs \in ObsFile /\ target.obs.versions = versions
       /\ target.obs.withdrawn = tree.obs.withdrawn
  BY <1>3, <1>12, <1>15 DEF ObsFile
<1>17. /\ target.record \in ManifestRecord /\ target.record.version = n
       /\ target.record.text = tree.record.text /\ target.record.status = tree.record.status
  BY <1>3, <1>15 DEF ManifestRecord
<1>18. Shaped(target) /\ target.obs # None /\ target.record # None
  BY <1>3, <1>15, <1>16, <1>17, PromotionAssumption DEF Shaped
<1>19. n \in 1..n /\ \A m \in 1..(n - 1) : m \in 1..n /\ m + 1 \in 1..n
  BY <1>3
<1>20. \A m \in 1..(n - 1) : versions[m].first < versions[m + 1].first
  BY <1>2, <1>11, <1>19 DEF Story
<1>21. Story(target)
  <2>1. versions[n].text = tree.record.text
    BY <1>2, <1>11, <1>19 DEF Story
  <2>2. \A p \in pages : p.version \in 1..n /\ versions[p.version].text = p.text
    BY <1>2, <1>11 DEF Story
  <2> HIDE DEF n
  <2> QED
    BY <1>11, <1>12, <1>16, <1>17, <1>18, <1>20, <2>1, <2>2 DEF Story
<1>22. IsWhole(target)
  <2>1. versions[n].text = tree.record.text /\ versions[n].first = entries[n].first
    BY <1>2, <1>11, <1>19 DEF Story
  <2> QED
    BY <1>1, <1>2, <1>12, <1>15, <1>16, <1>17, <1>20, <2>1 DEF IsWhole, PageFits, EvidenceFits
<1>23. AreApproved(target, fresh)
  BY <1>11, <1>12, <1>16 DEF AreApproved
<1>24. Told(target, fresh)
  BY <1>21, <1>22, <1>23 DEF Told
<1>25. \A k \in FileKind : k \notin ToSet(queue) => tree[k] = target[k]
  BY <1>13, <1>15 DEF FileKind
<1>26. /\ Doing' = "migrate" /\ UNCHANGED tree /\ Story(tree)' /\ IsWhole(tree)'
       /\ job'.queue = queue /\ job'.lines = fresh /\ job'.target = target
  BY <1>1, <1>2, <1>13, Beginning
<1>27. TreeStands'
  BY <1>1, <1>26 DEF TreeStands
<1>28. Migrating'
  <2>1. \A i \in DOMAIN fresh : fresh[i].kind = "carried"
    BY <1>8, <1>10 DEF ToSet
  <2> HIDE DEF n
  <2> QED
    BY <1>1, <1>13, <1>15, <1>17, <1>26, <2>1 DEF Migrating, n
<1> QED
  BY <1>1, <1>8, <1>13, <1>18, <1>24, <1>25, <1>27, <1>28, Starting

-----------------------------------------------------------------------------
(* A killed command, run again, finds nothing to do *)

\* What it leaves of the files is told, by what it passed over.
LEMMA PassingKeeps ==
    ASSUME PromotionInv, NEW what, PassedOver(what), Told(tree, <<>>)'
    PROVE  PromotionInv'
<1>1. /\ job = NoJob /\ owed' = "none" /\ passed \subseteq passed'
      /\ UNCHANGED <<seen, extractor, log, tree, head, pages, order, job>>
  BY DEF PassedOver
<1>2. JobStands' /\ Doing' = "none"
  BY <1>1 DEF JobStands, Doing
<1>3. LogIsSound'
  BY <1>1 DEF PromotionInv, LogIsSound, IsDecision
<1>4. Grows
  BY <1>1 DEF Grows
<1>5. /\ \A f : Story(f) => Story(f)'
      /\ \A f : AreApproved(f, <<>>) => AreApproved(f, <<>>)'
      /\ \A f : IsWhole(f) => IsWhole(f)'
  BY <1>1, <1>4, ToldStays, LogIsPart, NothingIsSet
<1>6. (Unpublished(head) \/ Told(head, <<>>))'
  <2>1. \A f : (Told(f, <<>>) => Told(f, <<>>)') /\ (Unpublished(f) => Unpublished(f)')
    BY <1>1, <1>5 DEF Told, Unpublished
  <2> QED
    BY <1>1, <2>1 DEF PromotionInv
<1>7. TreeStands'
  BY <1>2 DEF TreeStands
<1> QED
  BY <1>1, <1>2, <1>3, <1>6, <1>7 DEF PromotionInv

\* A withdrawal that was killed after its record has still to delete, and keeps all the rest.
LEMMA WithdrawAgainKeeps == ASSUME PromotionInv, WithdrawAgain PROVE PromotionInv'
<1> DEFINE what == <<"withdraw", tree.record.version>>
<1>1. /\ owed = "withdraw" /\ tree.record.status = "removed" /\ PassedOver(what)
      /\ job = NoJob /\ what \in passed' /\ passed \subseteq passed'
      /\ UNCHANGED <<log, tree, pages>>
  BY DEF WithdrawAgain, PassedOver
<1>2. /\ Story(tree) /\ AreApproved(tree, <<>>) /\ tree.obs.withdrawn
      /\ tree.page = None \/ PageFits(tree)
      /\ EvidenceFits(tree)
  BY <1>1 DEF PromotionInv, TreeStands, Doing
<1>3. Grows
  BY <1>1 DEF Grows
<1>4. /\ Story(tree)' /\ AreApproved(tree, <<>>)'
  <2>1. PICK f : f = tree
    OBVIOUS
  <2>2. Story(f)' /\ AreApproved(f, <<>>)'
    BY <1>1, <1>2, <1>3, <2>1, ToldStays, LogIsPart, NothingIsSet
  <2>3. f = tree'
    BY <1>1, <2>1
  <2> QED
    BY <2>2, <2>3 DEF Story, AreApproved
<1>5. IsWhole(tree)'
  BY <1>1, <1>2 DEF IsWhole, IsGone, PageFits, EvidenceFits, Story
<1>6. Told(tree, <<>>)'
  BY <1>4, <1>5 DEF Told
<1> HIDE DEF what
<1> QED
  BY <1>1, <1>6, PassingKeeps

\* A migration that was killed after its files has still to log the carries: the audits are all
\* under the extractor, and those not carried name an approval given there.
LEMMA MigrateAgainKeeps == ASSUME PromotionInv, MigrateAgain PROVE PromotionInv'
<1> DEFINE what == <<"migrate", extractor>>
<1>1. /\ owed = "migrate" /\ tree.record # None /\ tree.obs # None /\ PassedOver(what)
      /\ \A m \in DOMAIN tree.obs.versions : tree.obs.versions[m].by = extractor
      /\ job = NoJob /\ what \in passed' /\ passed \subseteq passed'
      /\ UNCHANGED <<log, tree, pages>>
  BY DEF MigrateAgain, IsPublished, IsCurrent, PassedOver
<1>2. IsWhole(tree) /\ Story(tree)
  BY <1>1 DEF PromotionInv, TreeStands, Doing
<1>3. Grows
  BY <1>1 DEF Grows
<1>4. Story(tree)' /\ IsWhole(tree)'
  <2>1. PICK f : f = tree
    OBVIOUS
  <2>2. Story(f)' /\ IsWhole(f)'
    BY <1>1, <1>2, <1>3, <2>1, ToldStays
  <2>3. f = tree'
    BY <1>1, <2>1
  <2> QED
    BY <2>2, <2>3 DEF Story, IsWhole, IsGone, PageFits, EvidenceFits
<1>5. AreApproved(tree, <<>>)'
  <2> SUFFICES ASSUME NEW m \in DOMAIN tree.obs.versions
               PROVE  WillBeApproved(tree.obs.versions[m], <<>>)'
    BY <1>1 DEF AreApproved
  <2> DEFINE v == tree.obs.versions[m]
  <2>1. m \in 1..tree.record.version
    BY <1>1, <1>2 DEF Story, PromotionInv, Shaped, ObsFile
  <2>2. Decided(v) /\ <<"migrate", v.by>> \in passed'
    BY <1>1, <1>2, <2>1 DEF Story
  <2>3. v' = v
    BY <1>1
  <2> QED
    BY <1>1, <2>2, <2>3 DEF WillBeApproved, Decided, Decisions
<1>6. Told(tree, <<>>)'
  BY <1>4, <1>5 DEF Told
<1> HIDE DEF what
<1> QED
  BY <1>1, <1>6, PassingKeeps

-----------------------------------------------------------------------------
(* Promotion: every step *)

LEMMA PromotionInitially == PromotionInit => PromotionInv
<1> SUFFICES ASSUME PromotionInit PROVE PromotionInv
  OBVIOUS
<1>1. PICK h \in Histories : seen = h.seen /\ log = h.log
  BY DEF PromotionInit
<1>2. /\ extractor = 1 /\ pages = {} /\ tree = NoFiles /\ head = NoFiles /\ order \in FileOrders
      /\ job = NoJob /\ owed = "none"
  BY DEF PromotionInit
<1>3. /\ seen \in Seq(Text) /\ Sequence(log)
      /\ \A i \in DOMAIN log :
            /\ log[i].at \in 1..Len(seen) /\ \E j \in 1..log[i].at : seen[j] = log[i].text
            /\ \A j \in 1..(i - 1) : log[j].at <= log[i].at
  BY <1>1, HistoryAssumption DEF Sequence
<1>4. DOMAIN log = 1..Len(log) /\ Len(log) \in Nat
  BY <1>3, Indexed
<1>5. \A i, j \in DOMAIN log : i < j => log[i].at <= log[j].at
  <2> SUFFICES ASSUME NEW i \in DOMAIN log, NEW j \in DOMAIN log, i < j PROVE log[i].at <= log[j].at
    OBVIOUS
  <2>1. i \in 1..(j - 1)
    BY <1>4
  <2> QED
    BY <1>3, <2>1
<1>6. LogIsSound
  BY <1>2, <1>3, <1>5, PromotionAssumption DEF LogIsSound
<1>7. Shaped(NoFiles) /\ NoFiles.record = None /\ NoFiles.page = None
  BY DEF Shaped, NoFiles, FileKind
<1>8. Unpublished(tree) /\ Unpublished(head)
  BY <1>2, <1>7 DEF Unpublished
<1>9. Doing = "none" /\ JobStands
  BY <1>2 DEF Doing, JobStands
<1>10. TreeStands
  BY <1>8, <1>9 DEF TreeStands
<1> QED
  BY <1>2, <1>6, <1>7, <1>8, <1>9, <1>10 DEF PromotionInv

LEMMA StutterKeeps == ASSUME PromotionInv, UNCHANGED promotionVars PROVE PromotionInv'
<1>1. UNCHANGED <<seen, extractor, log, tree, head, pages, order, job, owed, passed>>
  BY DEF promotionVars
<1>2. Grows /\ LogIsSound'
  BY <1>1, LogRests
<1>3. Doing' = Doing
  BY <1>1 DEF Doing
<1>4. TreeStands' /\ (Unpublished(head) \/ Told(head, <<>>))'
  BY <1>1, <1>2, <1>3, FilesRest
<1>5. JobStands'
  <2>1. \A f, ls : Told(f, ls) => Told(f, ls)'
    BY <1>1, <1>2, ToldStays DEF Told
  <2>2. PICK f : f = job.target
    OBVIOUS
  <2>3. PICK ls : ls = job.lines
    OBVIOUS
  <2>4. Told(job.target, job.lines) => Told(job.target, job.lines)'
    <3>1. f = job'.target /\ ls = job'.lines
      BY <1>1, <2>2, <2>3
    <3>2. Told(f, ls) => Told(f, ls)'
      BY <2>1
    <3> QED
      BY <2>2, <2>3, <3>1, <3>2
         DEF Told, Story, AreApproved, IsWhole, IsGone, PageFits, EvidenceFits
  <2>5. (Promoting => Promoting') /\ (Withdrawing => Withdrawing') /\ (Migrating => Migrating')
    BY <1>1 DEF Promoting, NextNumber, Withdrawing, Withdrawn, Migrating
  <2>6. Withdrawn' = Withdrawn
    BY <1>1 DEF Withdrawn
  <2>7. Shaped(job.target) => Shaped(job.target)'
    BY <1>1
  <2> QED
    BY <1>1, <2>4, <2>5, <2>6, <2>7 DEF PromotionInv, JobStands
<1> QED
  BY <1>1, <1>2, <1>4, <1>5 DEF PromotionInv

LEMMA PromotionStep ==
    ASSUME PromotionInv, [PromotionNext]_promotionVars
    PROVE  PromotionInv'
<1>1. ASSUME NEW t \in ToSet(seen), Local(t) PROVE PromotionInv'
  BY <1>1, LocalKeeps
<1>2. CASE Backfill
  BY <1>2, BackfillKeeps
<1>3. CASE Observe
  BY <1>3, ObserveKeeps
<1>4. CASE Withdraw
  BY <1>4, WithdrawKeeps
<1>5. CASE Migrate
  BY <1>5, MigrateKeeps
<1>6. CASE Refresh
  BY <1>6, RefreshKeeps
<1>7. CASE Proceed
  BY <1>7, ProceedKeeps
<1>8. CASE Kill
  BY <1>8, KillKeeps
<1>9. CASE Commit
  BY <1>9, CommitKeeps
<1>10. CASE Restore
  BY <1>10, RestoreKeeps
<1>11. CASE Decide
  BY <1>11, DecideKeeps
<1>12. CASE Capture
  BY <1>12, CaptureKeeps
<1>13. CASE Upgrade
  BY <1>13, UpgradeKeeps
<1>14. CASE WithdrawAgain
  BY <1>14, WithdrawAgainKeeps
<1>15. CASE MigrateAgain
  BY <1>15, MigrateAgainKeeps
<1>16. CASE UNCHANGED promotionVars
  BY <1>16, StutterKeeps
<1> QED
  BY <1>1, <1>2, <1>3, <1>4, <1>5, <1>6, <1>7, <1>8, <1>9, <1>10, <1>11, <1>12, <1>13, <1>14,
     <1>15, <1>16
     DEF PromotionNext, Command

-----------------------------------------------------------------------------
(* Promotion: the theorems *)

LEMMA ToldIsSaid == PromotionInv => CommittedIsTold
<1> SUFFICES ASSUME PromotionInv, head.record # None
             PROVE  /\ IsWhole(head) /\ \A v \in ToSet(head.obs.versions) : IsApproved(v)
                    /\ \A p \in pages : p.version <= head.record.version
                                            /\ head.obs.versions[p.version].text = p.text
  BY DEF CommittedIsTold
<1>1. Told(head, <<>>)
  BY DEF PromotionInv, Unpublished
<1>2. \A v : WillBeApproved(v, <<>>) => IsApproved(v)
  BY NothingIsSet DEF WillBeApproved, IsApproved
<1>3. \A v \in ToSet(head.obs.versions) : IsApproved(v)
  BY <1>1, <1>2 DEF Told, AreApproved, ToSet
<1>4. head.record.version \in Nat
  BY DEF PromotionInv, Shaped, ManifestRecord
<1>5. \A p \in pages : p.version <= head.record.version
                         /\ head.obs.versions[p.version].text = p.text
  BY <1>1, <1>4 DEF Told, Story
<1> QED
  BY <1>1, <1>3, <1>5 DEF Told

\* However often the commands that write a version are killed and run again or restored, a
\* commit shows all of one version or its withdrawal, the versions that were published, and an
\* approval of each: apply_files and its record written last.  Only where a repetition of migrate
\* or withdraw found nothing to do (passed) may the log lack the carries to that extractor, or
\* the page of the version that is withdrawn be there still.
THEOREM CommitsAreTold == PromotionSpec => []CommittedIsTold
<1>1. PromotionInv /\ [PromotionNext]_promotionVars => PromotionInv'
  BY PromotionStep
<1> QED
  BY <1>1, PromotionInitially, ToldIsSaid, PTL DEF PromotionSpec

\* What a write does to the page.
LEMMA PageWritten ==
    ASSUME PromotionInv, Proceed, tree'.page # tree.page
    PROVE  /\ tree'.page = job.target.page
           /\ job.kind \in {"local", "refresh"} => ~Withdrawn /\ job.target.page # None
           /\ job.kind \notin {"local", "refresh"} =>
                 \/ job.kind = "backfill" /\ job.target.page # None
                 \/ Withdrawn /\ job.target.page = None
<1> DEFINE f == Head(job.queue)
<1>1. /\ job # NoJob /\ JobStands /\ Sequence(job.queue) /\ job.queue # <<>>
      /\ f = "log" => tree' = tree
      /\ f # "log" => tree' = [tree EXCEPT ![f] = job.target[f]]
  BY Proceeding
<1>2. DOMAIN tree = FileKind /\ "page" \in FileKind
  BY DEF PromotionInv, Shaped, FileKind
<1>3. f = "page" /\ tree'.page = job.target.page
  <2> HIDE DEF f
  <2>1. f # "log"
    BY <1>1
  <2>2. f # "page" => tree'.page = tree.page
    BY <1>1, <1>2, <2>1
  <2> QED
    BY <1>1, <1>2, <2>1, <2>2
<1>4. "page" \in ToSet(job.queue)
  BY <1>1, <1>3, TakingOff
<1>5. job.kind \in {"local", "backfill", "observe", "withdraw", "migrate", "refresh"}
  BY <1>1 DEF JobStands
<1>6. CASE job.kind \in {"local", "backfill", "refresh"}
  BY <1>1, <1>3, <1>6 DEF JobStands, Promoting
<1>7. CASE job.kind = "observe"
  <2>1. f = "obs"
    BY <1>1, <1>7 DEF JobStands
  <2> QED
    BY <1>3, <2>1
<1>8. CASE job.kind = "withdraw"
  <2>1. Withdrawing /\ Told(job.target, job.lines)
    BY <1>1, <1>8 DEF JobStands
  <2>2. Withdrawn
    <3>1. job.queue # WithdrawalQueue
      BY <1>3 DEF WithdrawalQueue
    <3> QED
      BY <2>1, <3>1 DEF Withdrawing
  <2>3. job.target.page = None
    BY <2>1 DEF Withdrawing
  <2> QED
    BY <1>3, <1>8, <2>2, <2>3
<1>9. CASE job.kind = "migrate"
  BY <1>1, <1>4, <1>9 DEF JobStands, Migrating
<1> QED
  BY <1>5, <1>6, <1>7, <1>8, <1>9

\* The page goes only once the log has the withdrawal, and no command but a backfill writes it
\* again: withdraw_impl logs before it deletes, and the others ask refuse_withdrawn.
THEOREM WithdrawalsStand == PromotionSpec => WithdrawnStaysOut
<1> DEFINE Stays ==
        /\ tree.page # None /\ tree'.page = None => Withdrawn \/ tree' = head
        /\ Withdrawn /\ tree'.page \notin {None, tree.page} =>
              job.kind = "backfill" \/ tree' = head
<1>1. PromotionInv /\ [PromotionNext]_promotionVars => PromotionInv'
  BY PromotionStep
<1>2. PromotionInv /\ [PromotionNext]_promotionVars => [Stays]_promotionVars
  <2> SUFFICES ASSUME PromotionInv, PromotionNext PROVE Stays
    OBVIOUS
  <2>1. CASE tree'.page = tree.page
    BY <2>1
  <2>2. CASE Restore
    BY <2>2 DEF Restore
  <2>3. CASE Proceed /\ tree'.page # tree.page
    <3>1. CASE job.kind \in {"local", "refresh"}
      BY <2>3, <3>1, PageWritten
    <3>2. CASE job.kind \notin {"local", "refresh"}
      BY <2>3, <3>2, PageWritten
    <3> QED
      BY <3>1, <3>2
  <2>4. ~Proceed /\ ~Restore => tree' = tree
    BY DEF PromotionNext, Command, Local, Backfill, Observe, Withdraw, Migrate, Refresh, Run, Kill,
           Commit, Decide, Capture, Upgrade, WithdrawAgain, MigrateAgain, PassedOver
  <2> QED
    BY <2>1, <2>2, <2>3, <2>4
<1> QED
  BY <1>1, <1>2, PromotionInitially, PTL DEF PromotionSpec, WithdrawnStaysOut
=============================================================================
