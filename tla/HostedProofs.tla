---------------------------- MODULE HostedProofs ----------------------------
(***************************************************************************)
(* What holds of the hosted calls for any workers, credentials, queries,   *)
(* limits and sizes of the cache: one paid call at a time, and no waiter   *)
(* without a leader that is on its way to wake it; and the counters of the *)
(* brakes are true.  And of the credential store, for any credentials,     *)
(* commands and restarts, and whatever the clock of the file system lets   *)
(* coincide: a revocation applies.                                         *)
(***************************************************************************)
EXTENDS HostedCalls, CredentialStore, SequenceTheorems, FiniteSetTheorems, TLAPS

-----------------------------------------------------------------------------
(* The calls: the inductive invariant *)

\* A call is a record of its fields.
Formed(j) ==
    j \in [pc : {j.pc}, by : {j.by}, query : {j.query}, limits : {j.limits}, slot : {j.slot},
           day : {j.day}, leader : {j.leader}, vector : {j.vector}]
Jobs == job = [w \in Worker |-> job[w]] /\ \A w \in Worker : Formed(job[w])

Paying == {"spend", "provider", "publish"}
Leading == Paying \cup {"pop"}
Flying == Leading \cup {"wake", "wait"}

\* The map of flights and the workers that lead them say the same.
Flights ==
    /\ inflight = [q \in DOMAIN inflight |-> inflight[q]]
    /\ \A q \in DOMAIN inflight :
          /\ inflight[q] \in Worker
          /\ job[inflight[q]].pc \in Leading /\ job[inflight[q]].query = q
    /\ \A w \in Worker : job[w].pc \in Leading => Leads(w, job[w].query)

IndInv == Jobs /\ (\E S : answers \in Seq(S)) /\ Flights /\ OnePaidCall /\ WaitersAreLed

-----------------------------------------------------------------------------
(* Steps of one worker *)

LEMMA PutOne ==
    ASSUME Jobs, NEW w \in Worker, NEW new, Formed(new), Put(w, new)
    PROVE  /\ Jobs' /\ job'[w] = new
           /\ \A u \in Worker : u # w => job'[u] = job[u]
  BY DEF Jobs, Formed, Put

\* A call outside the flights stays outside.
LEMMA AsideKeeps ==
    ASSUME IndInv, NEW w \in Worker, NEW new, Formed(new), Put(w, new),
           job[w].pc \notin Leading \cup {"wake"}, new.pc \notin Flying,
           inflight' = inflight, Cached' = Cached, (\E S : answers \in Seq(S))'
    PROVE  IndInv'
<1>1. /\ Jobs' /\ job'[w] = new
      /\ \A u \in Worker : u # w => job'[u] = job[u]
  BY PutOne DEF IndInv
<1>2. Flights'
  BY <1>1 DEF IndInv, Flights, Leading, Paying, Flying, Leads
<1>3. OnePaidCall'
  BY <1>1 DEF IndInv, OnePaidCall, Leading, Paying, Flying, Leads
<1>4. WaitersAreLed'
  BY <1>1 DEF IndInv, WaitersAreLed, Waiting, Is, Leading, Paying, Flying
<1> QED
  BY <1>1, <1>2, <1>3, <1>4 DEF IndInv

\* A leader goes on, and a call in or outside a flight changes nothing of it.
LEMMA FlightKeeps ==
    ASSUME IndInv, NEW w \in Worker, NEW new, Formed(new), Put(w, new),
           new.query = job[w].query, new.leader = job[w].leader,
           \/ new.pc = job[w].pc
           \/ job[w].pc \in Paying /\ new.pc \in Leading,
           inflight' = inflight, answers' = answers
    PROVE  IndInv'
<1>1. /\ Jobs' /\ job'[w] = new
      /\ \A u \in Worker : u # w => job'[u] = job[u]
  BY PutOne DEF IndInv
<1>2. Flights'
  BY <1>1 DEF IndInv, Flights, Leading, Paying, Flying, Leads
<1>3. OnePaidCall' /\ Cached' = Cached
  BY <1>1 DEF IndInv, OnePaidCall, Leading, Paying, Flying, Leads, Cached
<1>4. WaitersAreLed'
  BY <1>1 DEF IndInv, WaitersAreLed, Waiting, Is, Leading, Paying, Flying
<1> QED
  BY <1>1, <1>2, <1>3, <1>4 DEF IndInv

-----------------------------------------------------------------------------
(* The cache of answers *)

LEMMA MoveToEnd ==
    ASSUME NEW S, answers \in Seq(S), NEW q
    PROVE  LET full == ToEnd(q)
           IN  /\ full \in Seq(Cached \cup {q})
               /\ \A r \in Cached \cup {q} : \E i \in 1..Len(full) : full[i] = r
<1> DEFINE R == Cached \cup {q}
           at == CHOOSE i \in DOMAIN answers : answers[i] = q
           left == SubSeq(answers, 1, at - 1)
           right == SubSeq(answers, at + 1, Len(answers))
           rest == IF q \in Cached THEN RemoveAt(answers, at) ELSE answers
           full == Append(rest, q)
<1>1. /\ Len(answers) \in Nat /\ DOMAIN answers = 1..Len(answers)
      /\ \A i \in 1..Len(answers) : answers[i] \in R
  BY DEF Cached
<1>2. answers \in Seq(R)
  <2>1. answers = [i \in 1..Len(answers) |-> answers[i]]
    OBVIOUS
  <2> QED
    BY <1>1, <2>1
<1>3. rest \in Seq(R) /\ \A r \in Cached \ {q} : \E i \in 1..Len(rest) : rest[i] = r
  <2>1. CASE q \notin Cached
    BY <2>1, <1>1, <1>2 DEF Cached
  <2>2. CASE q \in Cached
    <3>1. at \in 1..Len(answers) /\ answers[at] = q
      BY <2>2, <1>1 DEF Cached
    <3> HIDE DEF at
    <3>2. /\ left \in Seq(R) /\ Len(left) = at - 1
          /\ \A i \in 1..at - 1 : left[i] = answers[i]
      <4>1. \A i \in 1..at - 1 : answers[i] \in R
        BY <3>1, <1>1
      <4> QED
        BY <4>1, <3>1, <1>1, SubSeqProperties, SMTT(30)
    <3>3. /\ right \in Seq(R) /\ Len(right) = Len(answers) - at
          /\ \A i \in 1..Len(answers) - at : right[i] = answers[at + i]
      <4>1. \A i \in at + 1..Len(answers) : answers[i] \in R
        BY <3>1, <1>1
      <4>2. at + 1 \in Int /\ Len(answers) \in Int
        BY <3>1, <1>1
      <4>3. /\ right \in Seq(R)
            /\ Len(right) = IF at + 1 <= Len(answers) THEN Len(answers) - (at + 1) + 1 ELSE 0
            /\ \A i \in 1..Len(answers) - (at + 1) + 1 : right[i] = answers[(at + 1) + i - 1]
        BY <4>1, <4>2, SubSeqProperties
      <4> HIDE DEF right
      <4>4. Len(answers) - (at + 1) + 1 = Len(answers) - at /\ at <= Len(answers)
        BY <4>2, <3>1
      <4>5. ASSUME NEW i \in 1..Len(answers) - at
            PROVE  (at + 1) + i - 1 = at + i
        BY <3>1
      <4>6. Len(right) = Len(answers) - at
        <5>1. CASE at + 1 <= Len(answers)
          BY <5>1, <4>3, <4>4
        <5>2. CASE ~(at + 1 <= Len(answers))
          <6>1. Len(right) = 0
            BY <5>2, <4>3
          <6>2. Len(answers) = at
            <7>1. at \in Int /\ Len(answers) \in Int /\ at <= Len(answers)
              BY <4>2, <4>4, <3>1
            <7> HIDE DEF at
            <7> QED
              BY <7>1, <5>2
          <6> QED
            BY <6>1, <6>2, <4>2
        <5> QED
          BY <5>1, <5>2
      <4>7. \A i \in 1..Len(answers) - at : right[i] = answers[at + i]
        BY <4>3, <4>4, <4>5
      <4> QED
        BY <4>3, <4>6, <4>7
    <3>4. rest = left \o right
      BY <2>2 DEF RemoveAt
    <3> HIDE DEF left, right, rest
    <3>5. /\ rest \in Seq(R) /\ Len(rest) = Len(left) + Len(right)
          /\ \A i \in 1..Len(left) + Len(right) :
                rest[i] = IF i <= Len(left) THEN left[i] ELSE right[i - Len(left)]
      BY <3>2, <3>3, <3>4, ConcatProperties
    <3>6. ASSUME NEW r \in Cached \ {q}
          PROVE  \E i \in 1..Len(rest) : rest[i] = r
      <4>1. PICK j \in 1..Len(answers) : answers[j] = r /\ j # at
        BY <3>1, <1>1, <3>6 DEF Cached
      <4>2. CASE j < at
        <5>1. j \in 1..Len(rest) /\ j <= Len(left) /\ j \in 1..at - 1
          BY <4>1, <4>2, <3>1, <3>2, <3>3, <3>5, <1>1
        <5> QED
          BY <5>1, <4>1, <3>2, <3>3, <3>5
      <4>3. CASE j > at
        <5>1. /\ j - 1 \in 1..Len(rest) /\ ~(j - 1 <= Len(left))
              /\ (j - 1) - Len(left) = j - at /\ j - at \in 1..Len(answers) - at
          BY <4>1, <4>3, <3>1, <3>2, <3>3, <3>5, <1>1
        <5>2. rest[j - 1] = right[j - at]
          BY <5>1, <3>2, <3>3, <3>5
        <5>3. right[j - at] = answers[at + (j - at)] /\ at + (j - at) = j
          BY <5>1, <3>1, <3>3
        <5> QED
          BY <5>1, <5>2, <5>3, <4>1
      <4> QED
        BY <4>1, <4>2, <4>3, <3>1, <1>1
    <3> QED
      BY <3>5, <3>6
  <2> QED
    BY <2>1, <2>2
<1> HIDE DEF rest
<1>4. /\ full \in Seq(R) /\ Len(full) = Len(rest) + 1 /\ full[Len(rest) + 1] = q
      /\ \A i \in 1..Len(rest) : full[i] = rest[i]
  BY <1>3, AppendProperties
<1>5. Len(rest) \in Nat
  BY <1>3
<1>6. ASSUME NEW r \in R
      PROVE  \E i \in 1..Len(full) : full[i] = r
  BY <1>3, <1>4, <1>5, <1>6
<1>7. ToEnd(q) = full
  BY DEF ToEnd, rest
<1> QED
  BY <1>4, <1>6, <1>7

LEMMA Hit ==
    ASSUME NEW S, answers \in Seq(S), NEW q \in Cached, answers' = ToEnd(q)
    PROVE  Cached' = Cached /\ (\E R : answers \in Seq(R))'
<1> DEFINE full == ToEnd(q)
<1>1. /\ full \in Seq(Cached \cup {q})
      /\ \A r \in Cached \cup {q} : \E i \in 1..Len(full) : full[i] = r
  BY MoveToEnd
<1> HIDE DEF full
<1>2. Cached \cup {q} = Cached
  OBVIOUS
<1>3. DOMAIN full = 1..Len(full) /\ \A i \in 1..Len(full) : full[i] \in Cached
  BY <1>1, <1>2
<1>4. {full[i] : i \in DOMAIN full} = Cached
  BY <1>1, <1>3
<1>5. answers' = full
  BY DEF full
<1>6. Cached' = {full[i] : i \in DOMAIN full}
  BY <1>5 DEF Cached
<1>7. answers' \in Seq(Cached)
  BY <1>1, <1>2, <1>5
<1> QED
  BY <1>4, <1>6, <1>7

\* The trimmed cache holds what it held and the new answer, at most.
LEMMA Trimmed ==
    ASSUME NEW S, answers \in Seq(S), NEW q, NEW n \in Nat, n <= Len(ToEnd(q)),
           answers' = SubSeq(ToEnd(q), n + 1, Len(ToEnd(q)))
    PROVE  Cached' \subseteq Cached \cup {q} /\ (\E R : answers \in Seq(R))'
<1> DEFINE full == ToEnd(q)  R == Cached \cup {q}
<1>1. full \in Seq(R)
  BY MoveToEnd
<1> HIDE DEF full, R
<1>2. Len(full) \in Nat /\ \A i \in 1..Len(full) : full[i] \in R
  BY <1>1
<1>3. \A i \in n + 1..Len(full) : full[i] \in R
  BY <1>2
<1>4. SubSeq(full, n + 1, Len(full)) \in Seq(R)
  BY <1>2, <1>3, SubSeqProperties
<1>5. answers' \in Seq(R)
  BY <1>4 DEF full
<1>6. \A i \in DOMAIN answers' : answers'[i] \in R
  BY <1>5
<1> QED
  BY <1>5, <1>6 DEF Cached, R

-----------------------------------------------------------------------------
(* Steps that open, close or end a flight *)

LEMMA ClaimKeeps ==
    ASSUME IndInv, NEW w \in Worker, Claim(w)
    PROVE  IndInv'
<1> DEFINE q == job[w].query
<1>1. Formed(job[w]) /\ job[w].pc = "claim"
  BY DEF IndInv, Jobs, Claim, Is
<1>2. CASE q \in Cached
  <2> DEFINE new == [job[w] EXCEPT !.pc = "run"]
  <2>1. answers' = ToEnd(q) /\ Put(w, new) /\ inflight' = inflight
    BY <1>2 DEF Claim, Goto
  <2>2. Formed(new) /\ new.pc = "run"
    BY <1>1 DEF Formed
  <2>3. Cached' = Cached /\ (\E R : answers \in Seq(R))'
    BY <1>2, <2>1, Hit DEF IndInv
  <2> HIDE DEF new
  <2> QED
    BY <1>1, <2>1, <2>2, <2>3, AsideKeeps DEF Leading, Paying, Flying
<1>3. CASE q \notin Cached /\ q \in DOMAIN inflight
  <2> DEFINE new == [job[w] EXCEPT !.pc = "wait", !.leader = inflight[q], !.vector = FALSE]
  <2>1. Put(w, new) /\ answers' = answers /\ inflight' = inflight
    BY <1>3 DEF Claim
  <2>2. /\ Formed(new) /\ new.pc = "wait" /\ new.leader = inflight[q] /\ new.query = q
    BY <1>1 DEF Formed
  <2> HIDE DEF new
  <2>3. /\ Jobs' /\ job'[w] = new
        /\ \A u \in Worker : u # w => job'[u] = job[u]
    BY <2>1, <2>2, PutOne DEF IndInv
  <2>4. Flights'
    BY <1>1, <2>1, <2>2, <2>3 DEF IndInv, Flights, Leading, Paying, Leads
  <2>5. OnePaidCall' /\ Cached' = Cached
    BY <2>1, <2>2, <2>3 DEF IndInv, OnePaidCall, Leads, Cached
  <2>6. WaitersAreLed'
    <3>1. /\ inflight[q] \in Worker /\ inflight[q] # w
          /\ job[inflight[q]].pc \in Leading /\ job[inflight[q]].query = q
      BY <1>1, <1>3 DEF IndInv, Flights, Leading, Paying
    <3> QED
      BY <1>1, <2>2, <2>3, <3>1 DEF IndInv, WaitersAreLed, Waiting, Is, Leading, Paying
  <2> QED
    BY <2>1, <2>3, <2>4, <2>5, <2>6 DEF IndInv
<1>4. CASE q \notin Cached /\ q \notin DOMAIN inflight
  <2> DEFINE new == [job[w] EXCEPT !.pc = "spend", !.limits = limits[job[w].by], !.vector = FALSE]
  <2>1. /\ Put(w, new) /\ answers' = answers
        /\ inflight' = [r \in DOMAIN inflight \cup {q} |-> IF r = q THEN w ELSE inflight[r]]
    BY <1>4 DEF Claim
  <2>2. Formed(new) /\ new.pc = "spend" /\ new.query = q
    BY <1>1 DEF Formed
  <2> HIDE DEF new
  <2>3. /\ Jobs' /\ job'[w] = new
        /\ \A u \in Worker : u # w => job'[u] = job[u]
    BY <2>1, <2>2, PutOne DEF IndInv
  <2> HIDE DEF q
  <2>4. Flights'
    BY <1>1, <1>4, <2>1, <2>2, <2>3 DEF IndInv, Flights, Leading, Paying, Leads
  <2>5. OnePaidCall'
    <3>1. Cached' = Cached
      BY <2>1 DEF Cached
    <3> QED
      BY <1>4, <2>1, <2>2, <2>3, <3>1 DEF IndInv, OnePaidCall, Leads
  <2>6. WaitersAreLed'
    BY <1>1, <2>2, <2>3 DEF IndInv, WaitersAreLed, Waiting, Is, Leading, Paying
  <2> QED
    BY <2>1, <2>3, <2>4, <2>5, <2>6 DEF IndInv
<1> QED
  BY <1>2, <1>3, <1>4

LEMMA PublishKeeps ==
    ASSUME IndInv, NEW w \in Worker, Publish(w)
    PROVE  IndInv'
<1> DEFINE q == job[w].query
           full == ToEnd(q)
           n == IF Len(full) > CacheEntries THEN Len(full) - CacheEntries ELSE 0
           new == [job[w] EXCEPT !.pc = "pop", !.vector = TRUE]
<1>1. Formed(job[w]) /\ job[w].pc = "publish"
  BY DEF IndInv, Jobs, Publish, Is
<1>2. Formed(new) /\ new.pc = "pop" /\ new.query = q /\ new.leader = job[w].leader
  BY <1>1 DEF Formed
<1>3. Put(w, new) /\ inflight' = inflight /\ answers' = SubSeq(full, n + 1, Len(full))
  BY DEF Publish
<1>4. Cached' \subseteq Cached \cup {q} /\ (\E R : answers \in Seq(R))'
  <2>1. PICK S : answers \in Seq(S)
    BY DEF IndInv
  <2>2. full \in Seq(Cached \cup {q})
    BY <2>1, MoveToEnd
  <2>3. n \in Nat /\ n <= Len(full)
    BY <2>2, CallsAssumption
  <2> QED
    BY <1>3, <2>1, <2>3, Trimmed
<1> HIDE DEF new
<1>5. /\ Jobs' /\ job'[w] = new
      /\ \A u \in Worker : u # w => job'[u] = job[u]
  BY <1>2, <1>3, PutOne DEF IndInv
<1>6. Flights'
  BY <1>1, <1>2, <1>3, <1>5 DEF IndInv, Flights, Leading, Paying, Leads
<1>7. OnePaidCall'
  BY <1>1, <1>2, <1>3, <1>4, <1>5 DEF IndInv, OnePaidCall, Leads
<1>8. WaitersAreLed'
  BY <1>1, <1>2, <1>5 DEF IndInv, WaitersAreLed, Waiting, Is
<1> QED
  BY <1>4, <1>5, <1>6, <1>7, <1>8 DEF IndInv

LEMMA PopKeeps ==
    ASSUME IndInv, NEW w \in Worker, Pop(w)
    PROVE  IndInv'
<1> DEFINE q == job[w].query
           new == [job[w] EXCEPT !.pc = "wake"]
<1>1. Formed(job[w]) /\ job[w].pc = "pop"
  BY DEF IndInv, Jobs, Pop, Is
<1>2. Formed(new) /\ new.pc = "wake" /\ new.query = q /\ new.leader = job[w].leader
  BY <1>1 DEF Formed
<1>3. /\ Put(w, new) /\ answers' = answers
      /\ inflight' = [r \in DOMAIN inflight \ {q} |-> inflight[r]]
  BY DEF Pop, Goto
<1> HIDE DEF new
<1>4. /\ Jobs' /\ job'[w] = new
      /\ \A u \in Worker : u # w => job'[u] = job[u]
  BY <1>2, <1>3, PutOne DEF IndInv
<1>5. Leads(w, q)
  BY <1>1 DEF IndInv, Flights, Leading
<1>6. Flights'
  BY <1>1, <1>2, <1>3, <1>4, <1>5 DEF IndInv, Flights, Leading, Paying, Leads
<1>7. OnePaidCall' /\ Cached' = Cached
  BY <1>2, <1>3, <1>4, <1>5 DEF IndInv, OnePaidCall, Leads, Cached
<1>8. WaitersAreLed'
  BY <1>1, <1>2, <1>4 DEF IndInv, WaitersAreLed, Waiting, Is
<1> QED
  BY <1>3, <1>4, <1>6, <1>7, <1>8 DEF IndInv

LEMMA WakeKeeps ==
    ASSUME IndInv, NEW w \in Worker, Wake(w)
    PROVE  IndInv'
<1>1. /\ job[w].pc = "wake" /\ inflight' = inflight /\ answers' = answers
      /\ \A u \in Worker : Formed(job[u])
  BY DEF IndInv, Jobs, Wake, Is
<1>2. /\ job'[w].pc = "run" /\ Formed(job'[w])
  BY <1>1 DEF Wake, Formed
<1>3. ASSUME NEW u \in Worker, u # w
      PROVE  /\ Formed(job'[u])
             /\ Waiting(u, w) => job'[u].pc \in {"run", "claim"}
             /\ ~Waiting(u, w) => job'[u] = job[u]
  BY <1>1, <1>3 DEF Wake, Formed
<1>4. Jobs'
  <2>1. job' = [u \in Worker |-> job'[u]]
    BY DEF Wake
  <2> QED
    BY <1>2, <1>3, <2>1 DEF Jobs
<1>5. Flights'
  BY <1>1, <1>2, <1>3 DEF IndInv, Flights, Leading, Paying, Leads, Waiting
<1>6. OnePaidCall' /\ Cached' = Cached
  BY <1>1, <1>2, <1>3 DEF IndInv, OnePaidCall, Leads, Waiting, Cached
<1>7. WaitersAreLed'
  BY <1>1, <1>2, <1>3 DEF IndInv, WaitersAreLed, Waiting, Is
<1> QED
  BY <1>1, <1>4, <1>5, <1>6, <1>7 DEF IndInv

-----------------------------------------------------------------------------
(* Every step *)

LEMMA SpendKeeps ==
    ASSUME IndInv, NEW w \in Worker, Spend(w) \/ Ask(w) \/ Cancel(w)
    PROVE  IndInv'
<1>1. Formed(job[w])
  BY DEF IndInv, Jobs
<1>2. CASE Spend(w)
  <2>1. job[w].pc = "spend" /\ inflight' = inflight /\ answers' = answers
    BY <1>2 DEF Spend, Is
  <2>2. PICK new : /\ Put(w, new)
                   /\ \/ \E d : new = [job[w] EXCEPT !.pc = "provider", !.day = d, !.limits = NoLimits]
                      \/ new = [job[w] EXCEPT !.pc = "pop", !.limits = NoLimits]
    BY <1>2 DEF Spend
  <2>3. /\ Formed(new) /\ new.query = job[w].query /\ new.leader = job[w].leader
        /\ new.pc \in Leading
    BY <1>1, <2>2 DEF Formed, Leading, Paying
  <2> QED
    BY <2>1, <2>2, <2>3, FlightKeeps DEF Paying
<1>3. CASE Ask(w)
  <2>1. job[w].pc = "provider" /\ inflight' = inflight /\ answers' = answers
    BY <1>3 DEF Ask, Is
  <2>2. PICK pc \in {"publish", "pop"} : Put(w, [job[w] EXCEPT !.pc = pc, !.day = 0])
    BY <1>3 DEF Ask
  <2> DEFINE new == [job[w] EXCEPT !.pc = pc, !.day = 0]
  <2>3. /\ Formed(new) /\ new.query = job[w].query /\ new.leader = job[w].leader
        /\ new.pc \in Leading
    BY <1>1, <2>2 DEF Formed, Leading, Paying
  <2> HIDE DEF new
  <2> QED
    BY <2>1, <2>2, <2>3, FlightKeeps DEF Paying, new
<1>4. CASE Cancel(w)
  <2> DEFINE new == [job[w] EXCEPT !.slot = FALSE]
  <2>1. Put(w, new) /\ inflight' = inflight /\ answers' = answers
    BY <1>4 DEF Cancel
  <2>2. /\ Formed(new) /\ new.query = job[w].query /\ new.leader = job[w].leader
        /\ new.pc = job[w].pc
    BY <1>1 DEF Formed
  <2> HIDE DEF new
  <2> QED
    BY <2>1, <2>2, FlightKeeps
<1> QED
  BY <1>2, <1>3, <1>4

LEMMA OutsideKeeps ==
    ASSUME IndInv, NEW w \in Worker,
           \/ \E c \in Credential, q \in Query \cup {NoQuery} : ToolCall(w, c, q)
           \/ Admit(w) \/ Return(w) \/ JoinTimeout(w)
    PROVE  IndInv'
<1>1. Formed(job[w])
  BY DEF IndInv, Jobs
<1>2. /\ job[w].pc \in {"free", "admit", "run", "wait"}
      /\ inflight' = inflight /\ answers' = answers
  BY DEF ToolCall, Admit, Return, JoinTimeout, Is
<1>3. \E new : Put(w, new) /\ Formed(new) /\ new.pc \in {"free", "admit", "run", "claim"}
  <2>1. CASE \E c \in Credential, q \in Query \cup {NoQuery} : ToolCall(w, c, q)
    <3>1. PICK c \in Credential, q \in Query \cup {NoQuery} :
             Put(w, [Free EXCEPT !.pc = "admit", !.by = c, !.query = q, !.limits = limits[c]])
      BY <2>1 DEF ToolCall
    <3> DEFINE new == [Free EXCEPT !.pc = "admit", !.by = c, !.query = q, !.limits = limits[c]]
    <3>2. Formed(Free)
      BY DEF Formed, Free
    <3>3. Formed(new) /\ new.pc = "admit"
      BY <3>2 DEF Formed
    <3> HIDE DEF new
    <3> QED
      BY <3>1, <3>3 DEF new
  <2>2. CASE Admit(w)
    <3>1. PICK pc \in {"run", "claim"} :
             Put(w, [job[w] EXCEPT !.pc = pc, !.slot = TRUE, !.limits = NoLimits]) \/ Put(w, Free)
      BY <2>2 DEF Admit
    <3>2. Formed([job[w] EXCEPT !.pc = pc, !.slot = TRUE, !.limits = NoLimits])
      BY <1>1 DEF Formed
    <3>3. [job[w] EXCEPT !.pc = pc, !.slot = TRUE, !.limits = NoLimits].pc = pc
      BY <1>1 DEF Formed
    <3>4. Formed(Free) /\ Free.pc = "free"
      BY DEF Formed, Free
    <3> QED
      BY <3>1, <3>2, <3>3, <3>4
  <2>3. CASE Return(w)
    BY <2>3 DEF Return, Free, Formed
  <2>4. CASE JoinTimeout(w)
    <3> DEFINE new == [job[w] EXCEPT !.pc = "run", !.leader = NoQuery]
    <3>1. Formed(new) /\ new.pc = "run"
      BY <1>1 DEF Formed
    <3>2. Put(w, new)
      BY <2>4 DEF JoinTimeout
    <3> HIDE DEF new
    <3> QED
      BY <3>1, <3>2
  <2> QED
    BY <2>1, <2>2, <2>3, <2>4
<1>4. Cached' = Cached /\ (\E S : answers \in Seq(S))'
  BY <1>2 DEF IndInv, Cached
<1> QED
  BY <1>2, <1>3, <1>4, AsideKeeps DEF Leading, Paying, Flying

LEMMA InitHolds == CallsInit => IndInv
<1> SUFFICES ASSUME CallsInit PROVE IndInv
  OBVIOUS
<1>1. job = [w \in Worker |-> Free] /\ \A w \in Worker : job[w] = Free
  BY DEF CallsInit
<1>2. answers = <<>> /\ inflight = [q \in {} |-> NoQuery]
  BY DEF CallsInit
<1>3. Formed(Free) /\ Free.pc = "free"
  BY DEF Formed, Free
<1>4. Jobs
  BY <1>1, <1>3 DEF Jobs
<1>5. answers \in Seq({})
  BY <1>2
<1>6. Flights
  BY <1>1, <1>2, <1>3 DEF Flights, Leading, Paying
<1>7. OnePaidCall /\ WaitersAreLed
  BY <1>1, <1>3 DEF OnePaidCall, WaitersAreLed, Is
<1> QED
  BY <1>4, <1>5, <1>6, <1>7 DEF IndInv

LEMMA StepKeeps == IndInv /\ [CallsNext]_callVars => IndInv'
<1> SUFFICES ASSUME IndInv, [CallsNext]_callVars PROVE IndInv'
  OBVIOUS
<1>1. CASE job' = job /\ inflight' = inflight /\ answers' = answers
  <2>1. Jobs' /\ (\E S : answers \in Seq(S))' /\ Cached' = Cached
    BY <1>1 DEF IndInv, Jobs, Cached
  <2>2. Flights'
    BY <1>1 DEF IndInv, Flights, Leads
  <2>3. OnePaidCall'
    BY <1>1, <2>1 DEF IndInv, OnePaidCall, Leads
  <2>4. WaitersAreLed'
    BY <1>1 DEF IndInv, WaitersAreLed, Waiting, Is
  <2> QED
    BY <2>1, <2>2, <2>3, <2>4 DEF IndInv
<1>2. ASSUME NEW w \in Worker, Run(w)
      PROVE  IndInv'
  BY <1>2, ClaimKeeps, PublishKeeps, PopKeeps, WakeKeeps, SpendKeeps, OutsideKeeps DEF Run
<1>3. CASE Environment
  BY <1>1, <1>3, SpendKeeps, OutsideKeeps DEF Environment, Edit, Midnight
<1> QED
  BY <1>1, <1>2, <1>3 DEF CallsNext, callVars

\* quota.py and embeddings/query.py: however many workers search, for whatever credentials, with
\* whatever limits, no query is paid for twice at a time, nor again while its answer is cached.
THEOREM OneCallPerQuery == CallsSpec => []OnePaidCall
<1>1. IndInv => OnePaidCall
  BY DEF IndInv
<1> QED
  BY <1>1, InitHolds, StepKeeps, PTL DEF CallsSpec

\* embeddings/query.py: whoever waits for another's call has a leader that will still wake it, for
\* any number of workers, whatever fails, is refused, is cancelled or leaves the cache.
THEOREM NoWaiterIsLeft == CallsSpec => []WaitersAreLed
<1>1. IndInv => WaitersAreLed
  BY DEF IndInv
<1> QED
  BY <1>1, InitHolds, StepKeeps, PTL DEF CallsSpec

-----------------------------------------------------------------------------
(* The sum of the bills *)

First(S) == CHOOSE c \in S : TRUE

\* s has the sums of f over the subsets of at most n credentials, or over all.
Summed(f, s, n) ==
    s = [S \in {T \in SUBSET Credential : Cardinality(T) <= n} |->
           IF S = {} THEN 0 ELSE f[First(S)] + s[S \ {First(S)}]]
Sums(f, s) ==
    /\ s[{}] = 0
    /\ \A S \in SUBSET Credential : S # {} => s[S] = f[First(S)] + s[S \ {First(S)}]

LEMMA FirstIn ==
    ASSUME NEW S, S # {}
    PROVE  First(S) \in S
  BY DEF First

LEMMA SmallestSet ==
    ASSUME NEW A \in SUBSET SUBSET Credential, A # {}
    PROVE  \E S \in A : \A c \in S : S \ {c} \notin A
<1> DEFINE R == StrictSubsetOrdering(Credential)
<1>1. IsWellFoundedOn(R, SUBSET Credential)
  <2>1. IsWellFoundedOn(R, FiniteSubsetsOf(Credential))
    BY FS_StrictSubsetOrderingWellFounded
  <2>2. FiniteSubsetsOf(Credential) = SUBSET Credential
    BY CallsAssumption, FS_FiniteSubsetsOfFinite
  <2> QED
    BY <2>1, <2>2
<1> HIDE DEF R
<1>2. PICK S \in A : \A T \in A : <<T, S>> \notin R
  BY <1>1, WFMin
<1>3. ASSUME NEW c \in S PROVE S \ {c} \notin A
  <2>1. <<S \ {c}, S>> \in R
    BY DEF R, StrictSubsetOrdering
  <2> QED
    BY <1>2, <2>1
<1> QED
  BY <1>3

LEMMA Fewer ==
    ASSUME NEW S \in SUBSET Credential, NEW c \in S
    PROVE  Cardinality(S) \in Nat /\ Cardinality(S \ {c}) = Cardinality(S) - 1
  BY CallsAssumption, FS_Subset, FS_CardinalityType, FS_RemoveElement

LEMMA SumExists ==
    ASSUME NEW f
    PROVE  \E s : Summed(f, s, Cardinality(Credential))
<1> DEFINE A == {S \in SUBSET Credential : ~\E s : Summed(f, s, Cardinality(S))}
<1> SUFFICES ASSUME A # {} PROVE FALSE
  <2>1. Credential \notin A
    OBVIOUS
  <2> QED
    BY <2>1
<1>1. PICK S \in A : \A c \in S : S \ {c} \notin A
  BY SmallestSet
<1>2. S \in SUBSET Credential /\ ~\E s : Summed(f, s, Cardinality(S))
  BY <1>1
<1>3. CASE S = {}
  <2>1. Cardinality(S) = 0
    BY <1>3, FS_EmptySet
  <2>2. ASSUME NEW T \in SUBSET Credential, Cardinality(T) <= 0
        PROVE  T = {}
    <3>1. IsFiniteSet(T) /\ Cardinality(T) \in Nat
      BY CallsAssumption, FS_Subset, FS_CardinalityType
    <3> QED
      BY <2>2, <3>1, FS_EmptySet
  <2> DEFINE D == {T \in SUBSET Credential : Cardinality(T) <= 0}
             s == [T \in D |-> 0]
  <2>3. s = [T \in D |-> IF T = {} THEN 0 ELSE f[First(T)] + s[T \ {First(T)}]]
    BY <2>2
  <2>4. Summed(f, s, 0)
    BY <2>3 DEF Summed
  <2> QED
    BY <1>2, <2>1, <2>4
<1>4. CASE S # {}
  <2>1. PICK x \in S : TRUE
    BY <1>4
  <2> DEFINE n == Cardinality(S)
             D(m) == {T \in SUBSET Credential : Cardinality(T) <= m}
  <2>2. n \in Nat /\ Cardinality(S \ {x}) = n - 1
    BY <1>2, <2>1, Fewer
  <2>3. PICK s : Summed(f, s, n - 1)
    BY <1>1, <1>2, <2>1, <2>2
  <2> DEFINE t == [T \in D(n) |-> IF T = {} THEN 0 ELSE f[First(T)] + s[T \ {First(T)}]]
  <2> HIDE DEF n
  <2>4. ASSUME NEW T \in D(n), T # {}
        PROVE  T \ {First(T)} \in D(n - 1)
    <3>1. First(T) \in T /\ T \in SUBSET Credential /\ Cardinality(T) <= n
      BY <2>4, FirstIn
    <3>2. Cardinality(T) \in Nat /\ Cardinality(T \ {First(T)}) = Cardinality(T) - 1
      BY <3>1, Fewer
    <3> QED
      BY <2>2, <3>1, <3>2
  <2>5. ASSUME NEW T \in D(n - 1)
        PROVE  T \in D(n) /\ t[T] = s[T]
    <3>1. T \in SUBSET Credential /\ Cardinality(T) \in Nat /\ Cardinality(T) <= n - 1
      BY <2>5, CallsAssumption, FS_Subset, FS_CardinalityType
    <3>2. T \in D(n)
      BY <2>2, <3>1
    <3>3. s[T] = IF T = {} THEN 0 ELSE f[First(T)] + s[T \ {First(T)}]
      BY <2>3 DEF Summed
    <3> QED
      BY <3>2, <3>3
  <2>6. t = [T \in D(n) |-> IF T = {} THEN 0 ELSE f[First(T)] + t[T \ {First(T)}]]
    <3>1. \A T \in D(n) : T # {} => t[T \ {First(T)}] = s[T \ {First(T)}]
      BY <2>4, <2>5
    <3> QED
      BY <3>1
  <2>7. Summed(f, t, n)
    BY <2>6 DEF Summed
  <2> QED
    BY <1>2, <2>7 DEF n
<1> QED
  BY <1>3, <1>4

LEMMA TotalIs ==
    ASSUME NEW f
    PROVE  \E s : Sums(f, s) /\ Total(f) = s[Credential]
<1> DEFINE D == {T \in SUBSET Credential : Cardinality(T) <= Cardinality(Credential)}
           Is1(s) == s = [S \in SUBSET Credential |->
                            IF S = {} THEN 0 ELSE f[First(S)] + s[S \ {First(S)}]]
           s == CHOOSE s : Is1(s)
<1>1. D = SUBSET Credential
  BY CallsAssumption, FS_Subset
<1>2. \E t : Is1(t)
  <2>1. PICK t : Summed(f, t, Cardinality(Credential))
    BY SumExists
  <2>2. t = [S \in D |-> IF S = {} THEN 0 ELSE f[First(S)] + t[S \ {First(S)}]]
    BY <2>1 DEF Summed
  <2> HIDE DEF D
  <2>3. Is1(t)
    BY <1>1, <2>2
  <2> QED
    BY <2>3
<1>3. Is1(s)
  BY <1>2
<1>4. Total(f) = s[Credential]
  BY DEF Total, First
<1> HIDE DEF s
<1>5. Sums(f, s)
  BY <1>3 DEF Sums
<1> QED
  BY <1>4, <1>5

LEMMA TotalOfNone ==
    Total([c \in Credential |-> 0]) = 0
<1> DEFINE f == [c \in Credential |-> 0]
<1>1. PICK s : Sums(f, s) /\ Total(f) = s[Credential]
  BY TotalIs
<1> DEFINE A == {S \in SUBSET Credential : s[S] # 0}
<1> SUFFICES ASSUME A # {} PROVE FALSE
  BY <1>1
<1>2. PICK S \in A : \A c \in S : S \ {c} \notin A
  BY SmallestSet
<1>3. S \in SUBSET Credential /\ S # {} /\ s[S] # 0
  BY <1>1, <1>2 DEF Sums
<1> DEFINE c == First(S)
<1>4. c \in S /\ f[c] = 0
  BY <1>3, FirstIn
<1>5. s[S \ {c}] = 0
  BY <1>2, <1>3, <1>4
<1>6. s[S] = f[c] + s[S \ {c}]
  BY <1>1, <1>3 DEF Sums
<1> QED
  BY <1>3, <1>4, <1>5, <1>6

LEMMA TotalGrows ==
    ASSUME NEW f \in [Credential -> Nat], NEW x \in Credential
    PROVE  Total(f) \in Nat /\ Total([f EXCEPT ![x] = @ + 1]) = Total(f) + 1
<1> DEFINE g == [f EXCEPT ![x] = @ + 1]
<1>1. PICK s : Sums(f, s) /\ Total(f) = s[Credential]
  BY TotalIs
<1>2. PICK t : Sums(g, t) /\ Total(g) = t[Credential]
  BY TotalIs
<1>3. \A c \in Credential : f[c] \in Nat /\ g[c] = IF c = x THEN f[c] + 1 ELSE f[c]
  OBVIOUS
<1> HIDE DEF g
<1> DEFINE Right(S) == s[S] \in Nat /\ t[S] = IF x \in S THEN s[S] + 1 ELSE s[S]
           A == {S \in SUBSET Credential : ~Right(S)}
<1> SUFFICES ASSUME A # {} PROVE FALSE
  <2>1. Right(Credential)
    OBVIOUS
  <2> QED
    BY <1>1, <1>2, <2>1 DEF g
<1>4. PICK S \in A : \A c \in S : S \ {c} \notin A
  BY SmallestSet
<1>5. S \in SUBSET Credential /\ ~Right(S)
  BY <1>4
<1>6. S # {}
  <2>1. s[{}] = 0 /\ t[{}] = 0 /\ x \notin {}
    BY <1>1, <1>2 DEF Sums
  <2>2. Right({})
    BY <2>1
  <2> QED
    BY <1>5, <2>2
<1> DEFINE c == First(S)
<1>7. c \in S /\ c \in Credential
  BY <1>5, <1>6, FirstIn
<1>8. Right(S \ {c})
  BY <1>4, <1>5, <1>7
<1>9. s[S] = f[c] + s[S \ {c}] /\ t[S] = g[c] + t[S \ {c}]
  BY <1>1, <1>2, <1>5, <1>6 DEF Sums
<1> HIDE DEF c
<1>10. x \in S \ {c} <=> x \in S /\ x # c
  OBVIOUS
<1> QED
  BY <1>3, <1>5, <1>7, <1>8, <1>9, <1>10

-----------------------------------------------------------------------------
(* The counters as functions of a quota *)

DayCount == [day : Nat, used : Nat]
Counters == [inFlight : Int, daily : DayCount, paid : DayCount]

\* A quota of this day: no counter is of a day to come.
OfToday(q) ==
    /\ q \in [day : Nat, states : {q.states}, service : Counters]
    /\ q.states \in [Known(q) -> Counters]
    /\ q.service.paid.day <= q.day
    /\ \A c \in Known(q) : q.states[c].paid.day <= q.day

Gauge(q, c) == IF c \in Known(q) THEN q.states[c].inFlight ELSE 0
ServicePaid(q) == Used(q, q.service.paid)

LEMMA UsedIs ==
    ASSUME NEW q, q.day \in Nat, NEW x \in DayCount, x.day <= q.day
    PROVE  /\ Used(q, x) \in Nat
           /\ Roll(q, x) \in DayCount /\ Roll(q, x).day = q.day /\ Used(q, Roll(q, x)) = Used(q, x)
           /\ More(q, x) \in DayCount /\ More(q, x).day = q.day /\ Used(q, More(q, x)) = Used(q, x) + 1
<1>1. x.day \in Nat /\ x.used \in Nat
  BY DEF DayCount
<1>2. Used(q, x) \in Nat
  BY <1>1 DEF Used
<1>3. ASSUME NEW n \in Nat
      PROVE  Counter(q, n) \in DayCount /\ Counter(q, n).day = q.day /\ Counter(q, n).used = n
  BY DEF Counter, DayCount
<1> QED
  BY <1>2, <1>3 DEF Roll, More, Used

LEMMA CountersAre ==
    ASSUME NEW q, OfToday(q)
    PROVE  /\ q.day \in Nat /\ q.service \in Counters /\ q.service.inFlight \in Int
           /\ q.service.paid \in DayCount /\ q.service.daily \in DayCount
           /\ \A c \in Known(q) : /\ q.states[c] \in Counters /\ q.states[c].inFlight \in Int
                                  /\ q.states[c].paid \in DayCount /\ q.states[c].daily \in DayCount
           /\ \A c : Gauge(q, c) \in Int /\ PaidToday(q, c) \in Nat
           /\ ServicePaid(q) \in Nat
<1>1. q.day \in Nat /\ q.service \in Counters /\ \A c \in Known(q) : q.states[c] \in Counters
  BY DEF OfToday
<1>2. \A s \in Counters : s.inFlight \in Int /\ s.paid \in DayCount /\ s.daily \in DayCount
  BY DEF Counters
<1>3. ASSUME NEW c PROVE Gauge(q, c) \in Int /\ PaidToday(q, c) \in Nat
  BY <1>1, <1>2, UsedIs DEF Gauge, PaidToday, OfToday
<1>4. ServicePaid(q) \in Nat
  BY <1>1, <1>2, UsedIs DEF ServicePaid, OfToday
<1> QED
  BY <1>1, <1>2, <1>3, <1>4

\* A state that is remembered, and those that are forgotten for it, change no count.
LEMMA Remembered ==
    ASSUME NEW q, OfToday(q), NEW c, NEW idle
    PROVE  LET r == WithState(q, c, idle)
           IN  /\ OfToday(r) /\ r.day = q.day /\ r.service = q.service /\ c \in Known(r)
               /\ \A d : Gauge(r, d) = Gauge(q, d) /\ PaidToday(r, d) = PaidToday(q, d)
<1> DEFINE r == WithState(q, c, idle)
<1>1. CASE c \in Known(q)
  BY <1>1 DEF WithState
<1>2. CASE c \notin Known(q)
  <2> DEFINE gone == IF Cardinality(Known(q)) >= Threshold THEN Forgotten(q, idle) ELSE {}
             kept == [d \in (Known(q) \ gone) \cup {c} |-> IF d = c THEN NewState(q) ELSE q.states[d]]
  <2>1. r = [q EXCEPT !.states = kept]
    BY <1>2 DEF WithState
  <2>2. ASSUME NEW d \in gone
        PROVE  d \in Known(q) /\ q.states[d].inFlight = 0 /\ Used(q, q.states[d].paid) = 0
    BY <2>2 DEF Forgotten
  <2> HIDE DEF gone, r
  <2>3. DOMAIN kept = (Known(q) \ gone) \cup {c}
    OBVIOUS
  <2>4. \A d \in DOMAIN kept : kept[d] = IF d = c THEN NewState(q) ELSE q.states[d]
    OBVIOUS
  <2> HIDE DEF kept
  <2>5. /\ r \in [day : Nat, states : {kept}, service : Counters]
        /\ r.day = q.day /\ r.service = q.service /\ r.states = kept
    BY <2>1 DEF OfToday
  <2>6. /\ NewState(q) \in Counters /\ NewState(q).inFlight = 0
        /\ NewState(q).paid.day = q.day /\ NewState(q).paid.used = 0
    BY CountersAre DEF NewState, Counter, Counters, DayCount
  <2>7. \A d \in DOMAIN kept : kept[d] \in Counters /\ kept[d].paid.day <= q.day
    BY <2>3, <2>4, <2>6, CountersAre DEF OfToday
  <2>8. kept \in [DOMAIN kept -> Counters]
    <3>1. kept = [d \in DOMAIN kept |-> kept[d]]
      BY DEF kept
    <3> QED
      BY <2>7, <3>1
  <2>9. OfToday(r)
    <3>1. Known(r) = DOMAIN kept
      BY <2>5 DEF Known
    <3> QED
      BY <2>5, <2>7, <2>8, <3>1, CountersAre DEF OfToday
  <2>10. ASSUME NEW d
         PROVE  Gauge(r, d) = Gauge(q, d) /\ PaidToday(r, d) = PaidToday(q, d)
    <3>1. \A x : Used(r, x) = Used(q, x)
      BY <2>5 DEF Used
    <3>2. Used(q, NewState(q).paid) = 0
      BY <2>6 DEF Used
    <3>3. CASE d = c
      <4>1. d \in DOMAIN kept /\ kept[d] = NewState(q)
        BY <2>3, <2>4, <3>3
      <4> QED
        BY <1>2, <2>5, <2>6, <3>1, <3>2, <3>3, <4>1 DEF Gauge, PaidToday, Known
    <3>4. CASE d # c /\ d \in gone
      <4>1. d \notin DOMAIN kept
        BY <2>3, <3>4
      <4> QED
        BY <2>2, <2>5, <3>1, <3>4, <4>1 DEF Gauge, PaidToday, Known
    <3>5. CASE d # c /\ d \notin gone
      <4>1. d \in DOMAIN kept <=> d \in Known(q)
        BY <2>3, <3>5
      <4>2. d \in DOMAIN kept => kept[d] = q.states[d]
        BY <2>4, <3>5
      <4> QED
        BY <2>5, <3>1, <4>1, <4>2 DEF Gauge, PaidToday, Known
    <3> QED
      BY <3>3, <3>4, <3>5
  <2>11. c \in Known(r)
    BY <2>3, <2>5 DEF Known
  <2> QED
    BY <2>5, <2>9, <2>10, <2>11 DEF r
<1> QED
  BY <1>1, <1>2

\* A change at one credential and at the service.
Recount(q, c, s, v) ==
    [q EXCEPT !.states = [d \in Known(q) |-> IF d = c THEN s ELSE q.states[d]], !.service = v]

LEMMA Recounted ==
    ASSUME NEW q, OfToday(q), NEW c \in Known(q), NEW s \in Counters, NEW v \in Counters,
           s.paid.day <= q.day, v.paid.day <= q.day
    PROVE  LET r == Recount(q, c, s, v)
           IN  /\ OfToday(r) /\ r.day = q.day /\ r.service = v
               /\ \A d : /\ Gauge(r, d) = IF d = c THEN s.inFlight ELSE Gauge(q, d)
                         /\ PaidToday(r, d) = IF d = c THEN Used(q, s.paid) ELSE PaidToday(q, d)
               /\ ServicePaid(r) = Used(q, v.paid)
<1> DEFINE states == [d \in Known(q) |-> IF d = c THEN s ELSE q.states[d]]
           r == [q EXCEPT !.states = states, !.service = v]
<1>1. DOMAIN states = Known(q) /\ \A d \in Known(q) : states[d] = IF d = c THEN s ELSE q.states[d]
  OBVIOUS
<1>2. states \in [Known(q) -> Counters]
  BY CountersAre
<1> HIDE DEF states
<1>3. /\ r \in [day : Nat, states : {states}, service : Counters]
      /\ r.day = q.day /\ r.service = v /\ r.states = states
  BY DEF OfToday
<1> HIDE DEF r
<1>4. Known(r) = Known(q) /\ \A x : Used(r, x) = Used(q, x)
  BY <1>1, <1>3 DEF Known, Used
<1>5. OfToday(r)
  BY <1>1, <1>2, <1>3, <1>4 DEF OfToday
<1>6. ASSUME NEW d
      PROVE  /\ Gauge(r, d) = IF d = c THEN s.inFlight ELSE Gauge(q, d)
             /\ PaidToday(r, d) = IF d = c THEN Used(q, s.paid) ELSE PaidToday(q, d)
  BY <1>1, <1>3, <1>4 DEF Gauge, PaidToday
<1>7. ServicePaid(r) = Used(q, v.paid)
  BY <1>3, <1>4 DEF ServicePaid
<1> QED
  BY <1>3, <1>5, <1>6, <1>7 DEF r, states, Recount

LEMMA AdmittedIs ==
    ASSUME NEW q, OfToday(q), NEW c \in Known(q)
    PROVE  LET r == Admitted(q, c)
           IN  /\ OfToday(r) /\ r.day = q.day /\ ServicePaid(r) = ServicePaid(q)
               /\ r.service.inFlight = q.service.inFlight + 1
               /\ \A d : /\ Gauge(r, d) = IF d = c THEN Gauge(q, d) + 1 ELSE Gauge(q, d)
                         /\ PaidToday(r, d) = PaidToday(q, d)
<1> DEFINE s == OneIn(q, q.states[c])
           v == OneIn(q, q.service)
           r == Recount(q, c, s, v)
<1>1. ASSUME NEW x \in Counters, x.paid.day <= q.day, x.daily.day \in Nat
      PROVE  /\ OneIn(q, x) \in Counters /\ OneIn(q, x).inFlight = x.inFlight + 1
             /\ OneIn(q, x).paid.day = q.day /\ Used(q, OneIn(q, x).paid) = Used(q, x.paid)
  <2>1. q.day \in Nat /\ x.inFlight \in Int /\ x.paid \in DayCount /\ x.daily \in DayCount
    BY CountersAre DEF Counters
  <2>2. More(q, x.daily) \in DayCount
    <3>1. Used(q, x.daily) \in Nat
      BY <2>1 DEF Used, DayCount
    <3> QED
      BY <2>1, <3>1 DEF More, Counter, DayCount
  <2>3. /\ Roll(q, x.paid) \in DayCount /\ Roll(q, x.paid).day = q.day
        /\ Used(q, Roll(q, x.paid)) = Used(q, x.paid)
    BY <1>1, <2>1, UsedIs
  <2>4. x.inFlight + 1 \in Int
    BY <2>1
  <2> DEFINE d == More(q, x.daily)  i == x.inFlight + 1  p == Roll(q, x.paid)
  <2>5. OneIn(q, x) = [x EXCEPT !.daily = d, !.inFlight = i, !.paid = p]
    BY DEF OneIn
  <2>6. i \in Int /\ d \in DayCount /\ p \in DayCount
    BY <2>2, <2>3, <2>4
  <2> HIDE DEF d, i, p
  <2>7. OneIn(q, x) \in Counters /\ OneIn(q, x).inFlight = i /\ OneIn(q, x).paid = p
    BY <2>5, <2>6 DEF Counters
  <2> QED
    BY <2>3, <2>7 DEF i, p
<1>2. /\ s \in Counters /\ s.inFlight = q.states[c].inFlight + 1
      /\ s.paid.day = q.day /\ Used(q, s.paid) = Used(q, q.states[c].paid)
  BY <1>1, CountersAre DEF OfToday, DayCount
<1>3. /\ v \in Counters /\ v.inFlight = q.service.inFlight + 1
      /\ v.paid.day = q.day /\ Used(q, v.paid) = Used(q, q.service.paid)
  BY <1>1, CountersAre DEF OfToday, DayCount
<1>4. Admitted(q, c) = r
  BY DEF Admitted, Known, OfToday, Recount
<1>5. q.day \in Nat
  BY CountersAre
<1> HIDE DEF s, v
<1>6. /\ OfToday(r) /\ r.day = q.day /\ r.service = v
      /\ \A d : /\ Gauge(r, d) = IF d = c THEN s.inFlight ELSE Gauge(q, d)
                /\ PaidToday(r, d) = IF d = c THEN Used(q, s.paid) ELSE PaidToday(q, d)
      /\ ServicePaid(r) = Used(q, v.paid)
  BY <1>2, <1>3, <1>5, Recounted
<1> HIDE DEF r
<1>7. Gauge(q, c) = q.states[c].inFlight /\ PaidToday(q, c) = Used(q, q.states[c].paid)
  BY DEF Gauge, PaidToday
<1> QED
  BY <1>2, <1>3, <1>4, <1>6, <1>7 DEF ServicePaid

LEMMA ReleasedIs ==
    ASSUME NEW q, OfToday(q), NEW c \in Known(q)
    PROVE  LET r == Released(q, c)
           IN  /\ OfToday(r) /\ r.day = q.day /\ ServicePaid(r) = ServicePaid(q)
               /\ r.service.inFlight = q.service.inFlight - 1
               /\ \A d : /\ Gauge(r, d) = IF d = c THEN Gauge(q, d) - 1 ELSE Gauge(q, d)
                         /\ PaidToday(r, d) = PaidToday(q, d)
<1> DEFINE s == [q.states[c] EXCEPT !.inFlight = @ - 1]
           v == [q.service EXCEPT !.inFlight = @ - 1]
           r == Recount(q, c, s, v)
<1>1. ASSUME NEW x \in Counters
      PROVE  LET y == [x EXCEPT !.inFlight = @ - 1]
             IN  y \in Counters /\ y.inFlight = x.inFlight - 1 /\ y.paid = x.paid
  BY DEF Counters
<1>2. s \in Counters /\ s.inFlight = q.states[c].inFlight - 1 /\ s.paid = q.states[c].paid
  BY <1>1, CountersAre
<1>3. v \in Counters /\ v.inFlight = q.service.inFlight - 1 /\ v.paid = q.service.paid
  BY <1>1, CountersAre
<1>4. Released(q, c) = r
  <2>1. [d \in Known(q) |-> IF d = c THEN [q.states[d] EXCEPT !.inFlight = @ - 1] ELSE q.states[d]]
          = [d \in Known(q) |-> IF d = c THEN s ELSE q.states[d]]
    OBVIOUS
  <2> QED
    BY <2>1 DEF Released, OfToday, Recount
<1> HIDE DEF s, v
<1>5. s.paid.day <= q.day /\ v.paid.day <= q.day
  BY <1>2, <1>3 DEF OfToday
<1>6. /\ OfToday(r) /\ r.day = q.day /\ r.service = v
      /\ \A d : /\ Gauge(r, d) = IF d = c THEN s.inFlight ELSE Gauge(q, d)
                /\ PaidToday(r, d) = IF d = c THEN Used(q, s.paid) ELSE PaidToday(q, d)
      /\ ServicePaid(r) = Used(q, v.paid)
  BY <1>2, <1>3, <1>5, Recounted
<1> HIDE DEF r
<1>7. Gauge(q, c) = q.states[c].inFlight /\ PaidToday(q, c) = Used(q, q.states[c].paid)
  BY DEF Gauge, PaidToday
<1> QED
  BY <1>2, <1>3, <1>4, <1>6, <1>7 DEF ServicePaid

LEMMA PaidIs ==
    ASSUME NEW q, OfToday(q), NEW c \in Known(q)
    PROVE  LET r == Paid(q, c)
           IN  /\ OfToday(r) /\ r.day = q.day /\ ServicePaid(r) = ServicePaid(q) + 1
               /\ r.service.inFlight = q.service.inFlight
               /\ \A d : /\ Gauge(r, d) = Gauge(q, d)
                         /\ PaidToday(r, d) = IF d = c THEN PaidToday(q, d) + 1 ELSE PaidToday(q, d)
<1> DEFINE s == [q.states[c] EXCEPT !.paid = More(q, @)]
           v == [q.service EXCEPT !.paid = More(q, @)]
           r == Recount(q, c, s, v)
<1>1. ASSUME NEW x \in Counters, x.paid.day <= q.day
      PROVE  LET y == [x EXCEPT !.paid = More(q, @)]
             IN  /\ y \in Counters /\ y.inFlight = x.inFlight
                 /\ y.paid.day = q.day /\ Used(q, y.paid) = Used(q, x.paid) + 1
  <2>1. /\ More(q, x.paid) \in DayCount /\ More(q, x.paid).day = q.day
        /\ Used(q, More(q, x.paid)) = Used(q, x.paid) + 1
    <3>1. q.day \in Nat /\ x.paid \in DayCount
      BY CountersAre DEF Counters
    <3> QED
      BY <1>1, <3>1, UsedIs
  <2>2. \A n \in DayCount : LET y == [x EXCEPT !.paid = n]
                            IN  y \in Counters /\ y.inFlight = x.inFlight /\ y.paid = n
    BY DEF Counters
  <2> QED
    BY <2>1, <2>2
<1>2. /\ s \in Counters /\ s.inFlight = q.states[c].inFlight
      /\ s.paid.day = q.day /\ Used(q, s.paid) = Used(q, q.states[c].paid) + 1
  BY <1>1, CountersAre DEF OfToday
<1>3. /\ v \in Counters /\ v.inFlight = q.service.inFlight
      /\ v.paid.day = q.day /\ Used(q, v.paid) = Used(q, q.service.paid) + 1
  BY <1>1, CountersAre DEF OfToday
<1>4. Paid(q, c) = r
  BY DEF Paid, Known, OfToday, Recount
<1>5. q.day \in Nat
  BY CountersAre
<1> HIDE DEF s, v
<1>6. /\ OfToday(r) /\ r.day = q.day /\ r.service = v
      /\ \A d : /\ Gauge(r, d) = IF d = c THEN s.inFlight ELSE Gauge(q, d)
                /\ PaidToday(r, d) = IF d = c THEN Used(q, s.paid) ELSE PaidToday(q, d)
      /\ ServicePaid(r) = Used(q, v.paid)
  BY <1>2, <1>3, <1>5, Recounted
<1> HIDE DEF r
<1>7. Gauge(q, c) = q.states[c].inFlight /\ PaidToday(q, c) = Used(q, q.states[c].paid)
  BY DEF Gauge, PaidToday
<1> QED
  BY <1>2, <1>3, <1>4, <1>6, <1>7 DEF ServicePaid

-----------------------------------------------------------------------------
(* The counters are true: the inductive invariant *)

Holding == {w \in Worker : job[w].slot}

\* Who has a slot, and whom a call is charged to.
JobsFit ==
    \A w \in Worker :
        /\ job[w].pc # "free" => job[w].by \in Credential
        /\ job[w].pc \in {"free", "admit"} => ~job[w].slot
        /\ job[w].pc = "provider" => job[w].day \in Nat /\ job[w].day <= quota.day

CountInv ==
    /\ Jobs /\ JobsFit /\ OfToday(quota) /\ bills \in [Credential -> Nat]
    /\ CountersAreTrue

LEMMA GaugesAre ==
    SlotsAreCounted <=>
        /\ \A c \in Credential : Gauge(quota, c) = Slots(c)
        /\ quota.service.inFlight = Cardinality(Holding) /\ Cardinality(Holding) <= Ceiling.inFlight
  BY DEF SlotsAreCounted, Gauge, Holding

LEMMA BillsAre ==
    BilledIsSpent <=>
        /\ \A c \in Credential : PaidToday(quota, c) = bills[c] + Placing(c)
        /\ ServicePaid(quota) = Total(bills) + Cardinality(Calling) /\ ServicePaid(quota) <= Ceiling.paid
  BY DEF BilledIsSpent, ServicePaid

LEMMA Counts ==
    ASSUME NEW A \in SUBSET Worker
    PROVE  /\ Cardinality(A) \in Nat /\ (A # {} => Cardinality(A) > 0)
           /\ \A w \in Worker \ A : Cardinality(A \cup {w}) = Cardinality(A) + 1
           /\ \A w \in A : Cardinality(A \ {w}) = Cardinality(A) - 1
<1>1. IsFiniteSet(A) /\ Cardinality(A) \in Nat
  BY CallsAssumption, FS_Subset, FS_CardinalityType
<1>2. A # {} => Cardinality(A) > 0
  BY <1>1, FS_EmptySet
<1> QED
  BY <1>1, <1>2, FS_AddElement, FS_RemoveElement

LEMMA CountsAreNat ==
    /\ \A c : Slots(c) \in Nat /\ Placing(c) \in Nat
    /\ Cardinality(Holding) \in Nat /\ Cardinality(Calling) \in Nat
<1>1. ASSUME NEW c PROVE Slots(c) \in Nat /\ Placing(c) \in Nat
  <2>1. /\ {w \in Worker : job[w].slot /\ job[w].by = c} \in SUBSET Worker
        /\ {w \in Calling : job[w].by = c} \in SUBSET Worker
    BY DEF Calling
  <2> QED
    BY <2>1, Counts DEF Slots, Placing
<1> QED
  BY <1>1, Counts DEF Holding, Calling

\* Nobody takes or gives back a slot.
SameSlots ==
    \A u \in Worker : /\ job'[u].slot <=> job[u].slot
                      /\ job[u].slot => job'[u].by = job[u].by

LEMMA SlotsRest ==
    ASSUME SameSlots
    PROVE  Holding' = Holding /\ \A c : Slots(c)' = Slots(c)
<1>1. Holding' = Holding
  BY DEF SameSlots, Holding
<1>2. ASSUME NEW c PROVE Slots(c)' = Slots(c)
  <2>1. {w \in Worker : job'[w].slot /\ job'[w].by = c} = {w \in Worker : job[w].slot /\ job[w].by = c}
    BY DEF SameSlots
  <2> QED
    BY <2>1 DEF Slots
<1> QED
  BY <1>1, <1>2

\* One does.
LEMMA SlotMoves ==
    ASSUME NEW w \in Worker, \A u \in Worker : u # w => job'[u] = job[u]
    PROVE  /\ (~job[w].slot /\ job'[w].slot) =>
                 /\ Cardinality(Holding') = Cardinality(Holding) + 1
                 /\ \A c : Slots(c)' = IF c = job'[w].by THEN Slots(c) + 1 ELSE Slots(c)
           /\ (job[w].slot /\ ~job'[w].slot) =>
                 /\ Cardinality(Holding') = Cardinality(Holding) - 1
                 /\ \A c : Slots(c)' = IF c = job[w].by THEN Slots(c) - 1 ELSE Slots(c)
<1> DEFINE Of(c) == {u \in Worker : job[u].slot /\ job[u].by = c}
           After(c) == {u \in Worker : job'[u].slot /\ job'[u].by = c}
<1>1. /\ Holding \in SUBSET Worker /\ \A c : Of(c) \in SUBSET Worker
      /\ \A c : Slots(c) = Cardinality(Of(c)) /\ Slots(c)' = Cardinality(After(c))
  BY DEF Holding, Slots
<1>2. CASE ~job[w].slot /\ job'[w].slot
  <2>1. w \notin Holding /\ Holding' = Holding \cup {w}
    BY <1>2 DEF Holding
  <2>2. ASSUME NEW c
        PROVE  w \notin Of(c) /\ After(c) = IF c = job'[w].by THEN Of(c) \cup {w} ELSE Of(c)
    BY <1>2
  <2> HIDE DEF Of, After
  <2>3. ASSUME NEW c
        PROVE  Slots(c)' = IF c = job'[w].by THEN Slots(c) + 1 ELSE Slots(c)
    BY <1>1, <2>2, Counts
  <2> QED
    BY <1>1, <1>2, <2>1, <2>3, Counts
<1>3. CASE job[w].slot /\ ~job'[w].slot
  <2>1. w \in Holding /\ Holding' = Holding \ {w}
    BY <1>3 DEF Holding
  <2>2. ASSUME NEW c
        PROVE  IF c = job[w].by THEN w \in Of(c) /\ After(c) = Of(c) \ {w} ELSE After(c) = Of(c)
    BY <1>3
  <2> HIDE DEF Of, After
  <2>3. ASSUME NEW c
        PROVE  Slots(c)' = IF c = job[w].by THEN Slots(c) - 1 ELSE Slots(c)
    BY <1>1, <2>2, Counts
  <2> QED
    BY <1>1, <1>3, <2>1, <2>3, Counts
<1> QED
  BY <1>2, <1>3

\* Nobody goes to the provider or comes back.
SameCalls ==
    /\ quota'.day = quota.day
    /\ \A u \in Worker :
          /\ job'[u].pc = "provider" <=> job[u].pc = "provider"
          /\ job[u].pc = "provider" => job'[u].by = job[u].by /\ job'[u].day = job[u].day

LEMMA CallsRest ==
    ASSUME SameCalls
    PROVE  Calling' = Calling /\ \A c : Placing(c)' = Placing(c)
<1>1. Calling' = Calling
  BY DEF SameCalls, Calling, Is
<1>2. ASSUME NEW c PROVE Placing(c)' = Placing(c)
  <2>1. {u \in Calling : job'[u].by = c} = {u \in Calling : job[u].by = c}
    BY DEF SameCalls, Calling, Is
  <2> QED
    BY <1>1, <2>1 DEF Placing
<1> QED
  BY <1>1, <1>2

LEMMA CallMoves ==
    ASSUME NEW w \in Worker, \A u \in Worker : u # w => job'[u] = job[u],
           quota'.day = quota.day
    PROVE  /\ (w \notin Calling /\ w \in Calling') =>
                 /\ Cardinality(Calling') = Cardinality(Calling) + 1
                 /\ \A c : Placing(c)' = IF c = job'[w].by THEN Placing(c) + 1 ELSE Placing(c)
           /\ (w \in Calling /\ w \notin Calling') =>
                 /\ Cardinality(Calling') = Cardinality(Calling) - 1
                 /\ \A c : Placing(c)' = IF c = job[w].by THEN Placing(c) - 1 ELSE Placing(c)
           /\ (w \notin Calling /\ w \notin Calling') =>
                 Calling' = Calling /\ \A c : Placing(c)' = Placing(c)
<1> DEFINE Of(c) == {u \in Calling : job[u].by = c}
           After(c) == {u \in Calling' : job'[u].by = c}
<1>1. /\ Calling \in SUBSET Worker /\ \A c : Of(c) \in SUBSET Worker
      /\ \A c : Placing(c) = Cardinality(Of(c)) /\ Placing(c)' = Cardinality(After(c))
  BY DEF Calling, Placing
<1>2. \A u \in Worker : u # w => (u \in Calling' <=> u \in Calling)
  BY DEF Calling, Is
<1>3. Calling' \in SUBSET Worker
  BY DEF Calling
<1>4. CASE w \notin Calling /\ w \in Calling'
  <2>1. Calling' = Calling \cup {w}
    BY <1>1, <1>2, <1>3, <1>4
  <2>2. ASSUME NEW c
        PROVE  w \notin Of(c) /\ After(c) = IF c = job'[w].by THEN Of(c) \cup {w} ELSE Of(c)
    BY <1>1, <1>4, <2>1
  <2> HIDE DEF Of, After
  <2>3. ASSUME NEW c
        PROVE  Placing(c)' = IF c = job'[w].by THEN Placing(c) + 1 ELSE Placing(c)
    BY <1>1, <2>2, Counts
  <2> QED
    BY <1>1, <1>4, <2>1, <2>3, Counts
<1>5. CASE w \in Calling /\ w \notin Calling'
  <2>1. Calling' = Calling \ {w}
    BY <1>1, <1>2, <1>3, <1>5
  <2>2. ASSUME NEW c
        PROVE  IF c = job[w].by THEN w \in Of(c) /\ After(c) = Of(c) \ {w} ELSE After(c) = Of(c)
    BY <1>1, <1>5, <2>1
  <2> HIDE DEF Of, After
  <2>3. ASSUME NEW c
        PROVE  Placing(c)' = IF c = job[w].by THEN Placing(c) - 1 ELSE Placing(c)
    BY <1>1, <2>2, Counts
  <2> QED
    BY <1>1, <1>5, <2>1, <2>3, Counts
<1>6. CASE w \notin Calling /\ w \notin Calling'
  <2>1. Calling' = Calling
    BY <1>1, <1>2, <1>3, <1>6
  <2>2. ASSUME NEW c PROVE After(c) = Of(c)
    BY <1>1, <1>6, <2>1
  <2> HIDE DEF Of, After
  <2> QED
    BY <1>1, <1>6, <2>1, <2>2
<1> QED
  BY <1>4, <1>5, <1>6

LEMMA GaugesStay ==
    ASSUME CountInv, SameSlots, \A c : Gauge(quota', c) = Gauge(quota, c),
           quota'.service.inFlight = quota.service.inFlight
    PROVE  SlotsAreCounted'
<1>1. Holding' = Holding /\ \A c : Slots(c)' = Slots(c)
  BY SlotsRest
<1>2. /\ \A c \in Credential : Gauge(quota, c) = Slots(c)
      /\ quota.service.inFlight = Cardinality(Holding) /\ Cardinality(Holding) <= Ceiling.inFlight
  BY GaugesAre DEF CountInv, CountersAreTrue
<1>3. /\ \A c \in Credential : Gauge(quota', c) = Slots(c)'
      /\ quota'.service.inFlight = Cardinality(Holding') /\ Cardinality(Holding') <= Ceiling.inFlight
  BY <1>1, <1>2
<1> QED
  BY <1>3 DEF SlotsAreCounted, Gauge, Holding

LEMMA BillsStay ==
    ASSUME CountInv, SameCalls, \A c : PaidToday(quota', c) = PaidToday(quota, c),
           ServicePaid(quota') = ServicePaid(quota), bills' = bills
    PROVE  BilledIsSpent'
<1>1. Calling' = Calling /\ \A c : Placing(c)' = Placing(c)
  BY CallsRest
<1>2. /\ \A c \in Credential : PaidToday(quota, c) = bills[c] + Placing(c)
      /\ ServicePaid(quota) = Total(bills) + Cardinality(Calling) /\ ServicePaid(quota) <= Ceiling.paid
  BY BillsAre DEF CountInv, CountersAreTrue
<1>3. /\ \A c \in Credential : PaidToday(quota', c) = bills'[c] + Placing(c)'
      /\ ServicePaid(quota') = Total(bills') + Cardinality(Calling') /\ ServicePaid(quota') <= Ceiling.paid
  BY <1>1, <1>2
<1> QED
  BY <1>3 DEF BilledIsSpent, ServicePaid

\* A step that touches no counter, and changes nothing of what they count.
LEMMA QuietKeeps ==
    ASSUME CountInv, Jobs', SameSlots, SameCalls, quota' = quota, bills' = bills,
           \A u \in Worker : /\ job'[u].pc # "free" => job'[u].by \in Credential
                             /\ job'[u].pc \in {"free", "admit"} => ~job'[u].slot
    PROVE  CountInv'
<1>1. SlotsAreCounted' /\ BilledIsSpent'
  BY GaugesStay, BillsStay
<1>2. JobsFit'
  BY DEF CountInv, JobsFit, SameCalls
<1> QED
  BY <1>1, <1>2 DEF CountInv, CountersAreTrue

LEMMA QuietSteps ==
    ASSUME CountInv, NEW w \in Worker,
           \/ \E c \in Credential, q \in Query \cup {NoQuery} : ToolCall(w, c, q)
           \/ Claim(w) \/ Publish(w) \/ Pop(w) \/ JoinTimeout(w)
    PROVE  CountInv'
<1>1. Formed(job[w]) /\ quota' = quota /\ bills' = bills
  BY DEF CountInv, Jobs, ToolCall, Claim, Publish, Pop, JoinTimeout
<1>2. \E new : /\ Put(w, new) /\ Formed(new)
               /\ new.slot <=> job[w].slot
               /\ job[w].slot => new.by = job[w].by
               /\ job[w].pc # "provider" /\ new.pc \notin {"provider", "free"}
               /\ new.by \in Credential
               /\ new.pc = "admit" => ~new.slot
  <2>1. CASE \E c \in Credential, q \in Query \cup {NoQuery} : ToolCall(w, c, q)
    <3>1. PICK c \in Credential, q \in Query \cup {NoQuery} : ToolCall(w, c, q)
      BY <2>1
    <3> DEFINE new == [Free EXCEPT !.pc = "admit", !.by = c, !.query = q, !.limits = limits[c]]
    <3>2. Formed(new) /\ new.pc = "admit" /\ new.slot = FALSE /\ new.by = c
      BY DEF Free, Formed
    <3>3. job[w].pc = "free" /\ Put(w, new)
      BY <3>1 DEF ToolCall, Is
    <3> HIDE DEF new
    <3> QED
      BY <3>2, <3>3 DEF CountInv, JobsFit
  <2>2. CASE Claim(w) \/ Publish(w) \/ Pop(w) \/ JoinTimeout(w)
    <3>1. job[w].pc \in {"claim", "publish", "pop", "wait"}
      BY <2>2 DEF Claim, Publish, Pop, JoinTimeout, Is
    <3> DEFINE Gone(new) ==
                  /\ Formed(new) /\ new.slot = job[w].slot /\ new.by = job[w].by
                  /\ new.pc \in {"run", "wake", "wait", "spend", "pop"}
    <3>2. \E new : Put(w, new) /\ Gone(new)
      <4>1. CASE Claim(w)
        <5> DEFINE q == job[w].query
        <5>1. CASE q \in Cached
          <6>1. Put(w, [job[w] EXCEPT !.pc = "run"])
            BY <4>1, <5>1 DEF Claim, Goto
          <6>2. Gone([job[w] EXCEPT !.pc = "run"])
            BY <1>1 DEF Formed
          <6> QED
            BY <6>1, <6>2
        <5>2. CASE q \notin Cached /\ q \in DOMAIN inflight
          <6> DEFINE l == inflight[q]
                     new == [job[w] EXCEPT !.pc = "wait", !.leader = l, !.vector = FALSE]
          <6>1. Put(w, new)
            BY <4>1, <5>2 DEF Claim
          <6> HIDE DEF l
          <6>2. Gone(new)
            BY <1>1 DEF Formed
          <6> QED
            BY <6>1, <6>2
        <5>3. CASE q \notin Cached /\ q \notin DOMAIN inflight
          <6> DEFINE l == limits[job[w].by]
                     new == [job[w] EXCEPT !.pc = "spend", !.limits = l, !.vector = FALSE]
          <6>1. Put(w, new)
            BY <4>1, <5>3 DEF Claim
          <6> HIDE DEF l
          <6>2. Gone(new)
            BY <1>1 DEF Formed
          <6> QED
            BY <6>1, <6>2
        <5> QED
          BY <5>1, <5>2, <5>3
      <4>2. CASE Publish(w)
        <5>1. Put(w, [job[w] EXCEPT !.pc = "pop", !.vector = TRUE])
          BY <4>2 DEF Publish
        <5>2. Gone([job[w] EXCEPT !.pc = "pop", !.vector = TRUE])
          BY <1>1 DEF Formed
        <5> QED
          BY <5>1, <5>2
      <4>3. CASE Pop(w)
        <5>1. Put(w, [job[w] EXCEPT !.pc = "wake"])
          BY <4>3 DEF Pop, Goto
        <5>2. Gone([job[w] EXCEPT !.pc = "wake"])
          BY <1>1 DEF Formed
        <5> QED
          BY <5>1, <5>2
      <4>4. CASE JoinTimeout(w)
        <5>1. Put(w, [job[w] EXCEPT !.pc = "run", !.leader = NoQuery])
          BY <4>4 DEF JoinTimeout
        <5>2. Gone([job[w] EXCEPT !.pc = "run", !.leader = NoQuery])
          BY <1>1 DEF Formed
        <5> QED
          BY <5>1, <5>2
      <4> QED
        BY <2>2, <4>1, <4>2, <4>3, <4>4
    <3>3. PICK new : Put(w, new) /\ Gone(new)
      BY <3>2
    <3> QED
      BY <3>1, <3>2, <3>3 DEF CountInv, JobsFit
  <2> QED
    BY <2>1, <2>2
<1>3. PICK new : /\ Put(w, new) /\ Formed(new)
                 /\ new.slot <=> job[w].slot
                 /\ job[w].slot => new.by = job[w].by
                 /\ job[w].pc # "provider" /\ new.pc \notin {"provider", "free"}
                 /\ new.by \in Credential
                 /\ new.pc = "admit" => ~new.slot
  BY <1>2
<1>4. /\ Jobs' /\ job'[w] = new
      /\ \A u \in Worker : u # w => job'[u] = job[u]
  BY <1>3, PutOne DEF CountInv
<1>5. SameSlots /\ SameCalls
  BY <1>1, <1>3, <1>4 DEF SameSlots, SameCalls
<1>6. \A u \in Worker : /\ job'[u].pc # "free" => job'[u].by \in Credential
                        /\ job'[u].pc \in {"free", "admit"} => ~job'[u].slot
  BY <1>3, <1>4 DEF CountInv, JobsFit
<1> QED
  BY <1>1, <1>4, <1>5, <1>6, QuietKeeps

LEMMA WakeCounts ==
    ASSUME CountInv, NEW w \in Worker, Wake(w)
    PROVE  CountInv'
<1>1. job[w].pc = "wake" /\ quota' = quota /\ bills' = bills /\ \A u \in Worker : Formed(job[u])
  BY DEF CountInv, Jobs, Wake, Is
<1>2. ASSUME NEW u \in Worker
      PROVE  /\ Formed(job'[u]) /\ job'[u].slot = job[u].slot /\ job'[u].by = job[u].by
             /\ job'[u].pc = job[u].pc \/ (job[u].pc \in {"wake", "wait"} /\ job'[u].pc \in {"run", "claim"})
             /\ job'[u].day = job[u].day
  <2>1. CASE u = w
    <3>1. job'[u] = [job[u] EXCEPT !.pc = "run", !.vector = FALSE]
      BY <2>1 DEF Wake
    <3> QED
      BY <1>1, <2>1, <3>1 DEF Formed
  <2>2. CASE u # w /\ Waiting(u, w)
    <3>1. PICK pc \in {"run", "claim"} : job'[u] = [job[u] EXCEPT !.pc = pc, !.leader = NoQuery]
      BY <2>2 DEF Wake
    <3>2. job[u].pc = "wait"
      BY <2>2 DEF Waiting
    <3> QED
      BY <1>1, <3>1, <3>2 DEF Formed
  <2>3. CASE u # w /\ ~Waiting(u, w)
    BY <1>1, <2>3 DEF Wake
  <2> QED
    BY <2>1, <2>2, <2>3
<1>3. Jobs'
  <2>1. job' = [u \in Worker |-> job'[u]]
    BY DEF Wake
  <2> QED
    BY <1>2, <2>1 DEF Jobs
<1>4. SameSlots /\ SameCalls
  BY <1>1, <1>2 DEF SameSlots, SameCalls
<1>5. \A u \in Worker : /\ job'[u].pc # "free" => job'[u].by \in Credential
                        /\ job'[u].pc \in {"free", "admit"} => ~job'[u].slot
  BY <1>2 DEF CountInv, JobsFit
<1> QED
  BY <1>1, <1>3, <1>4, <1>5, QuietKeeps

\* guard: a slot is taken with its gauges, or the caller is only remembered.
LEMMA AdmitCounts ==
    ASSUME CountInv, NEW w \in Worker, Admit(w)
    PROVE  CountInv'
<1> DEFINE c == job[w].by
<1>1. /\ Formed(job[w]) /\ job[w].pc = "admit" /\ ~job[w].slot /\ c \in Credential
      /\ bills' = bills /\ OfToday(quota)
  BY DEF CountInv, Jobs, JobsFit, Admit, Is
<1>2. PICK idle \in IdleSets(c) :
         LET q == WithState(quota, c, idle)
         IN  \/ /\ Room(q, c, job[w].limits)
                /\ quota' = Admitted(q, c)
                /\ Put(w, [job[w] EXCEPT !.pc = IF job[w].query = NoQuery THEN "run" ELSE "claim",
                                          !.slot = TRUE, !.limits = NoLimits])
             \/ quota' = q /\ Put(w, Free)
  BY DEF Admit
<1> DEFINE q == WithState(quota, c, idle)
<1>3. /\ OfToday(q) /\ q.day = quota.day /\ q.service = quota.service /\ c \in Known(q)
      /\ \A d : Gauge(q, d) = Gauge(quota, d) /\ PaidToday(q, d) = PaidToday(quota, d)
      /\ ServicePaid(q) = ServicePaid(quota)
  <2>1. /\ OfToday(q) /\ q.day = quota.day /\ q.service = quota.service /\ c \in Known(q)
        /\ \A d : Gauge(q, d) = Gauge(quota, d) /\ PaidToday(q, d) = PaidToday(quota, d)
    BY <1>1, Remembered
  <2> QED
    BY <2>1 DEF ServicePaid, Used
<1>4. CASE Room(q, c, job[w].limits) /\ quota' = Admitted(q, c)
             /\ Put(w, [job[w] EXCEPT !.pc = IF job[w].query = NoQuery THEN "run" ELSE "claim",
                                       !.slot = TRUE, !.limits = NoLimits])
  <2> DEFINE new == [job[w] EXCEPT !.pc = IF job[w].query = NoQuery THEN "run" ELSE "claim",
                                   !.slot = TRUE, !.limits = NoLimits]
  <2>1. /\ Formed(new) /\ new.pc \in {"run", "claim"} /\ new.slot = TRUE /\ new.by = c
    BY <1>1 DEF Formed
  <2>2. Put(w, new)
    BY <1>4
  <2> HIDE DEF new
  <2>3. /\ Jobs' /\ job'[w] = new /\ \A u \in Worker : u # w => job'[u] = job[u]
    BY <2>1, <2>2, PutOne DEF CountInv
  <2>4. q.service.inFlight < Ceiling.inFlight
    BY <1>4 DEF Room
  <2> HIDE DEF q
  <2>5. /\ OfToday(quota') /\ quota'.day = quota.day /\ ServicePaid(quota') = ServicePaid(quota)
        /\ quota'.service.inFlight = quota.service.inFlight + 1
        /\ \A d : /\ Gauge(quota', d) = IF d = c THEN Gauge(quota, d) + 1 ELSE Gauge(quota, d)
                  /\ PaidToday(quota', d) = PaidToday(quota, d)
    BY <1>3, <1>4, AdmittedIs
  <2>6. SlotsAreCounted'
    <3>1. /\ \A d \in Credential : Gauge(quota, d) = Slots(d)
          /\ quota.service.inFlight = Cardinality(Holding)
      BY GaugesAre DEF CountInv, CountersAreTrue
    <3>2. /\ Cardinality(Holding') = Cardinality(Holding) + 1
          /\ \A d : Slots(d)' = IF d = c THEN Slots(d) + 1 ELSE Slots(d)
      BY <1>1, <2>1, <2>3, SlotMoves
    <3>3. \A d \in Credential : Gauge(quota', d) = Slots(d)'
      BY <2>5, <3>1, <3>2
    <3>4. quota'.service.inFlight = Cardinality(Holding') /\ quota'.service.inFlight <= Ceiling.inFlight
      <4>1. Cardinality(Holding) \in Nat /\ Ceiling.inFlight \in Nat
        BY CountsAreNat, CallsAssumption
      <4>2. quota.service.inFlight < Ceiling.inFlight
        BY <1>3, <2>4
      <4> QED
        BY <2>5, <3>1, <3>2, <4>1, <4>2
    <3> QED
      BY <3>3, <3>4 DEF SlotsAreCounted, Gauge, Holding
  <2>7. SameCalls
    BY <1>1, <2>1, <2>3, <2>5 DEF SameCalls
  <2>8. BilledIsSpent'
    BY <1>1, <2>5, <2>7, BillsStay
  <2>9. JobsFit'
    BY <1>1, <2>1, <2>3, <2>5 DEF CountInv, JobsFit
  <2> QED
    BY <1>1, <2>3, <2>5, <2>6, <2>8, <2>9 DEF CountInv, CountersAreTrue
<1>5. CASE quota' = q /\ Put(w, Free)
  <2> HIDE DEF q
  <2>1. Formed(Free) /\ Free.pc = "free" /\ Free.slot = FALSE
    BY DEF Formed, Free
  <2>2. /\ Jobs' /\ job'[w] = Free /\ \A u \in Worker : u # w => job'[u] = job[u]
    BY <1>5, <2>1, PutOne DEF CountInv
  <2>3. SameSlots /\ SameCalls
    BY <1>1, <1>3, <1>5, <2>1, <2>2 DEF SameSlots, SameCalls
  <2>4. SlotsAreCounted' /\ BilledIsSpent'
    BY <1>1, <1>3, <1>5, <2>3, GaugesStay, BillsStay
  <2>5. JobsFit'
    BY <1>3, <1>5, <2>1, <2>2 DEF CountInv, JobsFit
  <2> QED
    BY <1>1, <1>3, <1>5, <2>2, <2>4, <2>5 DEF CountInv, CountersAreTrue
<1> QED
  BY <1>2, <1>4, <1>5

\* A slot is given back once: by the cancelled call, or else by its return.
LEMMA ReleaseCounts ==
    ASSUME CountInv, NEW w \in Worker, Cancel(w) \/ Return(w)
    PROVE  CountInv'
<1> DEFINE c == job[w].by
<1>1. Formed(job[w]) /\ bills' = bills /\ OfToday(quota)
  BY DEF CountInv, Jobs, Cancel, Return
<1>2. PICK new : /\ Put(w, new) /\ Formed(new) /\ ~new.slot
                 /\ new.pc # "admit" /\ (new.pc # "free" => new.by \in Credential)
                 /\ new.pc = "provider" <=> job[w].pc = "provider"
                 /\ new.pc = "provider" => new.by = c /\ new.day = job[w].day
  <2>1. CASE Cancel(w)
    <3> DEFINE new == [job[w] EXCEPT !.slot = FALSE]
    <3>1. Formed(new) /\ new.slot = FALSE /\ new.pc = job[w].pc /\ new.by = c /\ new.day = job[w].day
      BY <1>1 DEF Formed
    <3>2. Put(w, new) /\ job[w].slot
      BY <2>1 DEF Cancel
    <3> HIDE DEF new
    <3> QED
      BY <3>1, <3>2 DEF CountInv, JobsFit
  <2>2. CASE Return(w)
    <3>1. Formed(Free) /\ Free.pc = "free" /\ Free.slot = FALSE
      BY DEF Formed, Free
    <3>2. Put(w, Free) /\ job[w].pc = "run"
      BY <2>2 DEF Return, Is
    <3> QED
      BY <3>1, <3>2
  <2> QED
    BY <2>1, <2>2
<1>3. /\ Jobs' /\ job'[w] = new /\ \A u \in Worker : u # w => job'[u] = job[u]
  BY <1>2, PutOne DEF CountInv
<1>4. CASE ~job[w].slot
  <2>1. quota' = quota
    BY <1>4 DEF Cancel, Return
  <2>2. SameSlots /\ SameCalls
    BY <1>2, <1>3, <1>4, <2>1 DEF SameSlots, SameCalls
  <2>3. \A u \in Worker : /\ job'[u].pc # "free" => job'[u].by \in Credential
                          /\ job'[u].pc \in {"free", "admit"} => ~job'[u].slot
    BY <1>2, <1>3 DEF CountInv, JobsFit
  <2> QED
    BY <1>1, <1>3, <2>1, <2>2, <2>3, QuietKeeps
<1>5. CASE job[w].slot
  <2>1. quota' = Released(quota, c)
    BY <1>5 DEF Cancel, Return
  <2>2. /\ \A d \in Credential : Gauge(quota, d) = Slots(d)
        /\ quota.service.inFlight = Cardinality(Holding) /\ Cardinality(Holding) <= Ceiling.inFlight
    BY GaugesAre DEF CountInv, CountersAreTrue
  <2>3. c \in Credential
    BY <1>5 DEF CountInv, JobsFit
  <2>4. c \in Known(quota)
    <3>1. {u \in Worker : job[u].slot /\ job[u].by = c} # {}
      BY <1>5
    <3>2. Slots(c) > 0
      BY <3>1, Counts DEF Slots
    <3> QED
      BY <2>2, <2>3, <3>2 DEF Gauge
  <2>5. /\ OfToday(quota') /\ quota'.day = quota.day /\ ServicePaid(quota') = ServicePaid(quota)
        /\ quota'.service.inFlight = quota.service.inFlight - 1
        /\ \A d : /\ Gauge(quota', d) = IF d = c THEN Gauge(quota, d) - 1 ELSE Gauge(quota, d)
                  /\ PaidToday(quota', d) = PaidToday(quota, d)
    BY <1>1, <2>1, <2>4, ReleasedIs
  <2>6. /\ Cardinality(Holding') = Cardinality(Holding) - 1
        /\ \A d : Slots(d)' = IF d = c THEN Slots(d) - 1 ELSE Slots(d)
    BY <1>2, <1>3, <1>5, SlotMoves
  <2>7. SlotsAreCounted'
    <3>1. \A d \in Credential : Gauge(quota', d) = Slots(d)'
      BY <2>2, <2>5, <2>6
    <3>2. Cardinality(Holding) \in Nat /\ Ceiling.inFlight \in Nat
      BY CountsAreNat, CallsAssumption
    <3>3. quota'.service.inFlight = Cardinality(Holding') /\ quota'.service.inFlight <= Ceiling.inFlight
      BY <2>2, <2>5, <2>6, <3>2
    <3> QED
      BY <3>1, <3>3 DEF SlotsAreCounted, Gauge, Holding
  <2>8. SameCalls
    BY <1>2, <1>3, <2>5 DEF SameCalls
  <2>9. BilledIsSpent'
    BY <1>1, <2>5, <2>8, BillsStay
  <2>10. JobsFit'
    BY <1>2, <1>3, <2>5 DEF CountInv, JobsFit
  <2> QED
    BY <1>1, <1>3, <2>5, <2>7, <2>9, <2>10 DEF CountInv, CountersAreTrue
<1> QED
  BY <1>4, <1>5

\* charge_paid: the leader's provider call is counted as it is let through.
LEMMA SpendCounts ==
    ASSUME CountInv, NEW w \in Worker, Spend(w)
    PROVE  CountInv'
<1> DEFINE c == job[w].by
<1>1. /\ Formed(job[w]) /\ job[w].pc = "spend" /\ c \in Credential
      /\ bills' = bills /\ OfToday(quota)
  BY DEF CountInv, Jobs, JobsFit, Spend, Is
<1>2. PICK idle \in IdleSets(c) :
         LET q == WithState(quota, c, idle)
         IN  \/ /\ MayPay(q, c, job[w].limits) /\ quota' = Paid(q, c)
                /\ Put(w, [job[w] EXCEPT !.pc = "provider", !.day = q.day, !.limits = NoLimits])
             \/ /\ quota' \in {quota, q}
                /\ Put(w, [job[w] EXCEPT !.pc = "pop", !.limits = NoLimits])
  BY DEF Spend
<1> DEFINE q == WithState(quota, c, idle)
<1>3. /\ OfToday(q) /\ q.day = quota.day /\ q.service = quota.service /\ c \in Known(q)
      /\ \A d : Gauge(q, d) = Gauge(quota, d) /\ PaidToday(q, d) = PaidToday(quota, d)
      /\ ServicePaid(q) = ServicePaid(quota)
  <2>1. /\ OfToday(q) /\ q.day = quota.day /\ q.service = quota.service /\ c \in Known(q)
        /\ \A d : Gauge(q, d) = Gauge(quota, d) /\ PaidToday(q, d) = PaidToday(quota, d)
    BY <1>1, Remembered
  <2> QED
    BY <2>1 DEF ServicePaid, Used
<1>4. CASE /\ MayPay(q, c, job[w].limits) /\ quota' = Paid(q, c)
           /\ Put(w, [job[w] EXCEPT !.pc = "provider", !.day = q.day, !.limits = NoLimits])
  <2> HIDE DEF q
  <2> DEFINE new == [job[w] EXCEPT !.pc = "provider", !.day = q.day, !.limits = NoLimits]
  <2>1. Formed(new) /\ new.pc = "provider" /\ new.slot = job[w].slot /\ new.by = c /\ new.day = q.day
    BY <1>1 DEF Formed
  <2>2. Put(w, new)
    BY <1>4
  <2> HIDE DEF new
  <2>3. /\ Jobs' /\ job'[w] = new /\ \A u \in Worker : u # w => job'[u] = job[u]
    BY <2>1, <2>2, PutOne DEF CountInv
  <2>4. ServicePaid(q) < Ceiling.paid
    BY <1>4 DEF MayPay, ServicePaid
  <2>5. /\ OfToday(quota') /\ quota'.day = quota.day /\ ServicePaid(quota') = ServicePaid(quota) + 1
        /\ quota'.service.inFlight = quota.service.inFlight
        /\ \A d : /\ Gauge(quota', d) = Gauge(quota, d)
                  /\ PaidToday(quota', d) = IF d = c THEN PaidToday(quota, d) + 1 ELSE PaidToday(quota, d)
    BY <1>3, <1>4, PaidIs
  <2>6. SameSlots
    BY <2>1, <2>3 DEF SameSlots
  <2>7. SlotsAreCounted'
    BY <2>5, <2>6, GaugesStay
  <2>8. BilledIsSpent'
    <3>1. /\ \A d \in Credential : PaidToday(quota, d) = bills[d] + Placing(d)
          /\ ServicePaid(quota) = Total(bills) + Cardinality(Calling)
      BY BillsAre DEF CountInv, CountersAreTrue
    <3>2. w \notin Calling /\ w \in Calling' /\ job'[w].by = c
      BY <1>1, <1>3, <2>1, <2>3, <2>5 DEF Calling, Is
    <3>3. /\ Cardinality(Calling') = Cardinality(Calling) + 1
          /\ \A d : Placing(d)' = IF d = c THEN Placing(d) + 1 ELSE Placing(d)
      BY <2>3, <2>5, <3>2, CallMoves
    <3>4. ASSUME NEW d \in Credential
          PROVE  PaidToday(quota', d) = bills'[d] + Placing(d)'
      <4>1. bills[d] \in Nat /\ Placing(d) \in Nat
        BY CountsAreNat DEF CountInv
      <4> QED
        BY <1>1, <2>5, <3>1, <3>3, <4>1
    <3>5. Total(bills) \in Nat /\ Cardinality(Calling) \in Nat /\ Ceiling.paid \in Nat
      <4>1. Total(bills) \in Nat
        BY <1>1, TotalGrows DEF CountInv
      <4> QED
        BY <4>1, CountsAreNat, CallsAssumption
    <3>6. ServicePaid(quota') = Total(bills') + Cardinality(Calling')
      BY <1>1, <2>5, <3>1, <3>3, <3>5
    <3>7. ServicePaid(quota') <= Ceiling.paid
      BY <1>3, <2>4, <2>5, <3>1, <3>5
    <3> QED
      BY <3>4, <3>6, <3>7 DEF BilledIsSpent, ServicePaid
  <2>9. JobsFit'
    <3>1. quota.day \in Nat
      BY <1>1, CountersAre
    <3> QED
      BY <1>1, <1>3, <2>1, <2>3, <2>5, <3>1 DEF CountInv, JobsFit
  <2> QED
    BY <1>1, <2>3, <2>5, <2>7, <2>8, <2>9 DEF CountInv, CountersAreTrue
<1>5. CASE quota' \in {quota, q} /\ Put(w, [job[w] EXCEPT !.pc = "pop", !.limits = NoLimits])
  <2> HIDE DEF q
  <2> DEFINE new == [job[w] EXCEPT !.pc = "pop", !.limits = NoLimits]
  <2>1. Formed(new) /\ new.pc = "pop" /\ new.slot = job[w].slot /\ new.by = c
    BY <1>1 DEF Formed
  <2>2. Put(w, new)
    BY <1>5
  <2> HIDE DEF new
  <2>3. /\ Jobs' /\ job'[w] = new /\ \A u \in Worker : u # w => job'[u] = job[u]
    BY <2>1, <2>2, PutOne DEF CountInv
  <2>4. /\ OfToday(quota') /\ quota'.day = quota.day /\ ServicePaid(quota') = ServicePaid(quota)
        /\ quota'.service.inFlight = quota.service.inFlight
        /\ \A d : Gauge(quota', d) = Gauge(quota, d) /\ PaidToday(quota', d) = PaidToday(quota, d)
    BY <1>1, <1>3, <1>5
  <2>5. SameSlots /\ SameCalls
    BY <1>1, <2>1, <2>3, <2>4 DEF SameSlots, SameCalls
  <2>6. SlotsAreCounted' /\ BilledIsSpent'
    BY <1>1, <2>4, <2>5, GaugesStay, BillsStay
  <2>7. JobsFit'
    BY <1>1, <2>1, <2>3, <2>4 DEF CountInv, JobsFit
  <2> QED
    BY <1>1, <2>3, <2>4, <2>6, <2>7 DEF CountInv, CountersAreTrue
<1> QED
  BY <1>2, <1>4, <1>5

\* The provider's bill takes over from the call that is placed.
LEMMA AskCounts ==
    ASSUME CountInv, NEW w \in Worker, Ask(w)
    PROVE  CountInv'
<1> DEFINE c == job[w].by
           B == [bills EXCEPT ![c] = @ + 1]
<1>1. /\ Formed(job[w]) /\ job[w].pc = "provider" /\ c \in Credential
      /\ quota' = quota /\ OfToday(quota) /\ bills \in [Credential -> Nat]
      /\ bills' = [bills EXCEPT ![c] = IF job[w].day = quota.day THEN @ + 1 ELSE @]
  BY DEF CountInv, Jobs, JobsFit, Ask, Is
<1>2. PICK pc \in {"publish", "pop"} : Put(w, [job[w] EXCEPT !.pc = pc, !.day = 0])
  BY DEF Ask
<1> DEFINE new == [job[w] EXCEPT !.pc = pc, !.day = 0]
<1>3. Formed(new) /\ new.pc \in {"publish", "pop"} /\ new.slot = job[w].slot /\ new.by = c
  BY <1>1 DEF Formed
<1>4. Put(w, new)
  BY <1>2
<1> HIDE DEF new
<1>5. /\ Jobs' /\ job'[w] = new /\ \A u \in Worker : u # w => job'[u] = job[u]
  BY <1>3, <1>4, PutOne DEF CountInv
<1>6. SameSlots /\ SlotsAreCounted'
  <2>1. SameSlots
    BY <1>3, <1>5 DEF SameSlots
  <2> QED
    BY <1>1, <2>1, GaugesStay
<1>7. JobsFit'
  BY <1>1, <1>3, <1>5, <1>6 DEF CountInv, JobsFit, SameSlots
<1>8. /\ \A d \in Credential : PaidToday(quota, d) = bills[d] + Placing(d)
      /\ ServicePaid(quota) = Total(bills) + Cardinality(Calling) /\ ServicePaid(quota) <= Ceiling.paid
  BY BillsAre DEF CountInv, CountersAreTrue
<1>9. w \notin Calling' /\ (w \in Calling <=> job[w].day = quota.day)
  BY <1>1, <1>3, <1>5 DEF Calling, Is
<1>10. \A d \in Credential : bills[d] \in Nat /\ Placing(d) \in Nat
  BY <1>1, CountsAreNat
<1>11. Total(bills) \in Nat /\ Total(B) = Total(bills) + 1 /\ Cardinality(Calling) \in Nat
  BY <1>1, CountsAreNat, TotalGrows
<1>12. BilledIsSpent' /\ bills' \in [Credential -> Nat]
  <2>1. CASE job[w].day = quota.day
    <3>1. bills' = B
      BY <1>1, <2>1
    <3>2. /\ Cardinality(Calling') = Cardinality(Calling) - 1
          /\ \A d : Placing(d)' = IF d = c THEN Placing(d) - 1 ELSE Placing(d)
      BY <1>1, <1>5, <1>9, <2>1, CallMoves
    <3>3. \A d \in Credential : B[d] = IF d = c THEN bills[d] + 1 ELSE bills[d]
      BY <1>1
    <3>4. B \in [Credential -> Nat]
      BY <1>1
    <3> HIDE DEF B
    <3>5. \A d \in Credential : PaidToday(quota', d) = bills'[d] + Placing(d)'
      BY <1>1, <1>8, <1>10, <3>1, <3>2, <3>3
    <3>6. ServicePaid(quota') = Total(bills') + Cardinality(Calling') /\ ServicePaid(quota') <= Ceiling.paid
      <4>1. Total(bills') = Total(bills) + 1
        BY <1>11, <3>1
      <4>2. ServicePaid(quota') = ServicePaid(quota)
        BY <1>1
      <4>3. (Total(bills) + 1) + (Cardinality(Calling) - 1) = Total(bills) + Cardinality(Calling)
        BY <1>11
      <4> QED
        BY <1>8, <3>2, <4>1, <4>2, <4>3
    <3> QED
      BY <3>1, <3>4, <3>5, <3>6 DEF BilledIsSpent, ServicePaid
  <2>2. CASE job[w].day # quota.day
    <3>1. bills' = bills
      BY <1>1, <2>2
    <3>2. Calling' = Calling /\ \A d : Placing(d)' = Placing(d)
      BY <1>1, <1>5, <1>9, <2>2, CallMoves
    <3>3. \A d \in Credential : PaidToday(quota', d) = bills'[d] + Placing(d)'
      BY <1>1, <1>8, <3>1, <3>2
    <3>4. ServicePaid(quota') = Total(bills') + Cardinality(Calling') /\ ServicePaid(quota') <= Ceiling.paid
      BY <1>1, <1>8, <3>1, <3>2
    <3> QED
      BY <1>1, <3>1, <3>3, <3>4 DEF BilledIsSpent, ServicePaid
  <2> QED
    BY <2>1, <2>2
<1> QED
  BY <1>1, <1>5, <1>6, <1>7, <1>12 DEF CountInv, CountersAreTrue

\* No call of a day before is counted in the new one.
LEMMA MidnightCounts ==
    ASSUME CountInv, Midnight
    PROVE  CountInv'
<1>1. /\ quota' = [quota EXCEPT !.day = @ + 1] /\ bills' = [c \in Credential |-> 0]
      /\ job' = job /\ OfToday(quota) /\ quota.day \in Nat
  BY CountersAre DEF CountInv, Midnight
<1>2. /\ quota' \in [day : Nat, states : {quota.states}, service : Counters]
      /\ quota'.day = quota.day + 1 /\ quota'.states = quota.states /\ quota'.service = quota.service
  BY <1>1 DEF OfToday
<1>3. ASSUME NEW x \in DayCount, x.day <= quota.day
      PROVE  Used(quota', x) = 0 /\ x.day <= quota'.day
  <2>1. x.day \in Nat
    BY DEF DayCount
  <2>2. x.day # quota'.day /\ x.day <= quota'.day
    BY <1>1, <1>2, <1>3, <2>1
  <2> QED
    BY <2>2 DEF Used
<1>4. OfToday(quota')
  <2>1. \A c \in Known(quota) : quota.states[c].paid \in DayCount /\ quota.states[c].paid.day <= quota.day
    BY <1>1, CountersAre DEF OfToday
  <2>2. quota.service.paid \in DayCount /\ quota.service.paid.day <= quota.day
    BY <1>1, CountersAre DEF OfToday
  <2>3. Known(quota') = Known(quota)
    BY <1>2 DEF Known
  <2>4. \A c \in Known(quota) : quota.states[c].paid.day <= quota'.day
    BY <1>3, <2>1
  <2>5. quota.service.paid.day <= quota'.day
    BY <1>3, <2>2
  <2> QED
    BY <1>1, <1>2, <2>3, <2>4, <2>5 DEF OfToday
<1>5. \A c : Gauge(quota', c) = Gauge(quota, c)
  BY <1>2 DEF Gauge, Known
<1>6. SlotsAreCounted'
  <2>1. SameSlots
    BY <1>1 DEF SameSlots
  <2> QED
    BY <1>2, <1>5, <2>1, GaugesStay
<1>7. Calling' = {} /\ \A c : Placing(c)' = 0
  <2>1. Calling' = {}
    <3>1. ASSUME NEW u \in Worker, job[u].pc = "provider" PROVE job[u].day # quota'.day
      <4>1. job[u].day \in Nat /\ job[u].day <= quota.day
        BY <3>1 DEF CountInv, JobsFit
      <4> QED
        BY <1>1, <1>2, <4>1
    <3> QED
      BY <1>1, <3>1 DEF Calling, Is
  <2>2. ASSUME NEW c PROVE Placing(c)' = 0
    <3>1. {u \in Calling' : job'[u].by = c} = {}
      BY <2>1
    <3> QED
      BY <3>1, FS_EmptySet DEF Placing
  <2> QED
    BY <2>1, <2>2
<1>8. BilledIsSpent'
  <2>1. ASSUME NEW c \in Credential
        PROVE  PaidToday(quota', c) = bills'[c] + Placing(c)'
    <3>1. c \in Known(quota) =>
             quota.states[c].paid \in DayCount /\ quota.states[c].paid.day <= quota.day
      BY <1>1, CountersAre DEF OfToday
    <3>2. c \in Known(quota) => Used(quota', quota.states[c].paid) = 0
      BY <1>3, <3>1
    <3>3. PaidToday(quota', c) = 0
      BY <1>2, <3>2 DEF PaidToday, Known
    <3> QED
      BY <1>1, <1>7, <3>3
  <2>2. ServicePaid(quota') = 0
    <3>1. quota.service.paid \in DayCount /\ quota.service.paid.day <= quota.day
      BY <1>1, CountersAre DEF OfToday
    <3> QED
      BY <1>2, <1>3, <3>1 DEF ServicePaid
  <2>3. Total(bills') = 0 /\ Cardinality(Calling') = 0 /\ Ceiling.paid \in Nat
    BY <1>1, <1>7, TotalOfNone, FS_EmptySet, CallsAssumption
  <2>4. ServicePaid(quota') = Total(bills') + Cardinality(Calling') /\ ServicePaid(quota') <= Ceiling.paid
    BY <2>2, <2>3
  <2> QED
    BY <2>1, <2>4 DEF BilledIsSpent, ServicePaid
<1>9. JobsFit'
  <2>1. \A u \in Worker : job[u].pc = "provider" => job[u].day \in Nat /\ job[u].day <= quota'.day
    BY <1>1, <1>2 DEF CountInv, JobsFit
  <2> QED
    BY <1>1, <2>1 DEF CountInv, JobsFit
<1>10. Jobs' /\ bills' \in [Credential -> Nat]
  BY <1>1 DEF CountInv, Jobs
<1> QED
  BY <1>4, <1>6, <1>8, <1>9, <1>10 DEF CountInv, CountersAreTrue

LEMMA CountInitHolds == CallsInit => CountInv
<1> SUFFICES ASSUME CallsInit PROVE CountInv
  OBVIOUS
<1>1. /\ quota = NewQuota(1) /\ bills = [c \in Credential |-> 0]
      /\ job = [w \in Worker |-> Free] /\ \A w \in Worker : job[w] = Free
  BY DEF CallsInit
<1>2. Formed(Free) /\ Free.pc = "free" /\ Free.slot = FALSE
  BY DEF Formed, Free
<1>3. Jobs /\ JobsFit
  BY <1>1, <1>2 DEF Jobs, JobsFit
<1>4. /\ quota.day = 1 /\ Known(quota) = {} /\ quota.service.inFlight = 0
      /\ quota.service.paid = [day |-> 1, used |-> 0] /\ OfToday(quota)
  BY <1>1 DEF NewQuota, NewState, Counter, Known, OfToday, Counters, DayCount
<1>5. Holding = {} /\ Calling = {}
  BY <1>1, <1>2 DEF Holding, Calling, Is
<1>6. \A c : Slots(c) = 0 /\ Placing(c) = 0
  <2>1. ASSUME NEW c PROVE Slots(c) = 0 /\ Placing(c) = 0
    <3>1. {w \in Worker : job[w].slot /\ job[w].by = c} = {} /\ {w \in Calling : job[w].by = c} = {}
      BY <1>5 DEF Holding
    <3> QED
      BY <3>1, FS_EmptySet DEF Slots, Placing
  <2> QED
    BY <2>1
<1>7. Cardinality({}) = 0 /\ Ceiling.inFlight \in Nat /\ Ceiling.paid \in Nat
  BY FS_EmptySet, CallsAssumption
<1>8. SlotsAreCounted
  BY <1>4, <1>5, <1>6, <1>7, GaugesAre DEF Gauge
<1>9. BilledIsSpent
  <2>1. ServicePaid(quota) = 0
    BY <1>4 DEF ServicePaid, Used
  <2>2. Total(bills) = 0 /\ \A c \in Credential : bills[c] = 0
    BY <1>1, TotalOfNone
  <2> QED
    BY <1>4, <1>5, <1>6, <1>7, <2>1, <2>2, BillsAre DEF PaidToday
<1> QED
  BY <1>1, <1>3, <1>4, <1>8, <1>9 DEF CountInv, CountersAreTrue

LEMMA CountStepKeeps == CountInv /\ [CallsNext]_callVars => CountInv'
<1> SUFFICES ASSUME CountInv, [CallsNext]_callVars PROVE CountInv'
  OBVIOUS
<1>1. CASE job' = job /\ quota' = quota /\ bills' = bills
  <2>1. Jobs' /\ SameSlots /\ SameCalls
    BY <1>1 DEF CountInv, Jobs, SameSlots, SameCalls
  <2>2. \A u \in Worker : /\ job'[u].pc # "free" => job'[u].by \in Credential
                          /\ job'[u].pc \in {"free", "admit"} => ~job'[u].slot
    BY <1>1 DEF CountInv, JobsFit
  <2> QED
    BY <1>1, <2>1, <2>2, QuietKeeps
<1>2. ASSUME NEW w \in Worker, Run(w)
      PROVE  CountInv'
  BY <1>2, AdmitCounts, ReleaseCounts, QuietSteps, SpendCounts, AskCounts, WakeCounts DEF Run
<1>3. CASE Environment
  <2>1. ASSUME NEW w \in Worker,
               \/ \E c \in Credential, q \in Query \cup {NoQuery} : ToolCall(w, c, q)
               \/ Cancel(w) \/ JoinTimeout(w)
        PROVE  CountInv'
    BY <2>1, QuietSteps, ReleaseCounts
  <2> QED
    BY <1>1, <1>3, <2>1, MidnightCounts DEF Environment, Edit
<1> QED
  BY <1>1, <1>2, <1>3 DEF CallsNext, callVars

\* quota.py: the gauges count the calls that hold a slot and the bills are the provider calls of the
\* day, within the service's ceilings, for any workers, credentials and limits, whoever is
\* cancelled, refused, forgotten or revoked, and at whatever midnight.
THEOREM CountersStayTrue == CallsSpec => []CountersAreTrue
<1>1. CountInv => CountersAreTrue
  BY DEF CountInv
<1> QED
  BY <1>1, CountInitHolds, CountStepKeeps, PTL DEF CallsSpec

-----------------------------------------------------------------------------
(* The credential store *)

\* What a parse of the file admits.
Admits(text) == IF text = Torn THEN {} ELSE Live(text)

Typed ==
    /\ file \in [mtime : Int, text : {file.text}]
    /\ command \in [pc : {"none", "open", "write"}, text : {command.text}]
    /\ server \in [pc : {"boot", "stamp", "serve", "parse"}, live : {server.live}, stamp : Int,
                   seen : Int, reloaded : BOOLEAN]

\* The modification time has not passed what the store saw, unless the file was opened since.
Stamped ==
    /\ server.pc = "parse" => server.seen <= file.mtime
    /\ server.reloaded => server.stamp <= file.mtime /\ server.pc \in {"serve", "parse"}

\* A file that is open is empty, so filling it within the tick of its emptying hides nothing
\* from a store that read it in between: that store admits nobody.
Caught == server.reloaded /\ server.stamp = file.mtime => server.live \subseteq Admits(file.text)
StoreInv ==
    /\ Typed /\ Stamped /\ Caught
    /\ command.pc = "write" => file.text = Torn

LEMMA StoreInitHolds == StoreInit => StoreInv
<1> SUFFICES ASSUME StoreInit PROVE StoreInv
  OBVIOUS
<1> QED
  BY DEF StoreInit, StoreInv, Typed, Stamped, Caught

LEMMA CommandKeeps ==
    ASSUME StoreInv, Open \/ Write \/ \E text : Begin(text)
    PROVE  StoreInv'
<1>1. CASE \E text : Begin(text)
  BY <1>1 DEF Begin, StoreInv, Typed, Stamped, Caught
<1>2. CASE Open
  <2>1. Typed' /\ file'.mtime = file.mtime + 1 /\ file'.text = Torn /\ server' = server
    BY <1>2 DEF Open, StoreInv, Typed
  <2> QED
    BY <2>1 DEF StoreInv, Typed, Stamped, Caught
<1>3. CASE Write
  <2>1. PICK tick \in {0, 1} : file' = [mtime |-> file.mtime + tick, text |-> command.text]
    BY <1>3 DEF Write
  <2>2. /\ Typed' /\ file'.mtime = file.mtime + tick /\ server' = server
        /\ command'.pc = "none" /\ file.text = Torn
    BY <1>3, <2>1 DEF Write, StoreInv, Typed
  <2> QED
    BY <2>2 DEF StoreInv, Typed, Stamped, Caught, Admits
<1> QED
  BY <1>1, <1>2, <1>3

LEMMA StoreKeeps ==
    ASSUME StoreInv, Boot \/ BootStamp \/ Restart \/ StatFile \/ Parse
    PROVE  StoreInv'
<1>1. CASE Boot
  <2>1. /\ Typed' /\ file' = file /\ command' = command
        /\ server'.pc \in {"stamp", "serve"} /\ server'.reloaded = FALSE
    BY <1>1 DEF Boot, StoreInv, Typed, Stamped
  <2> QED
    BY <2>1 DEF StoreInv, Stamped, Caught
<1>2. CASE BootStamp
  <2>1. /\ Typed' /\ file' = file /\ command' = command
        /\ server'.pc \in {"stamp", "serve"} /\ server'.reloaded = FALSE
    BY <1>2 DEF BootStamp, StoreInv, Typed, Stamped
  <2> QED
    BY <2>1 DEF StoreInv, Stamped, Caught
<1>3. CASE Restart
  BY <1>3 DEF Restart, StoreInv, Typed, Stamped, Caught
<1>4. CASE StatFile
  <2>1. /\ Typed' /\ file' = file /\ command' = command
        /\ server'.pc = "parse" /\ server'.seen = file.mtime /\ server'.live = server.live
        /\ server'.stamp = server.stamp /\ server'.reloaded = server.reloaded
    BY <1>4 DEF StatFile, StoreInv, Typed
  <2> QED
    BY <2>1 DEF StoreInv, Typed, Stamped, Caught
<1>5. CASE Parse
  BY <1>5 DEF Parse, StoreInv, Typed, Stamped, Caught, Admits
<1> QED
  BY <1>1, <1>2, <1>3, <1>4, <1>5

LEMMA StoreStepKeeps == StoreInv /\ [StoreNext]_storeVars => StoreInv'
<1> SUFFICES ASSUME StoreInv, [StoreNext]_storeVars PROVE StoreInv'
  OBVIOUS
<1>1. CASE StoreNext
  BY <1>1, CommandKeeps, StoreKeeps DEF StoreNext, Issue, Revoke
<1>2. CASE UNCHANGED storeVars
  BY <1>2 DEF storeVars, StoreInv, Typed, Stamped, Caught
<1> QED
  BY <1>1, <1>2

\* access.py: a store that takes the credential file for read, once it has read it anew, admits nobody
\* the file revokes.
THEOREM RevocationsApply == StoreSpec => []RevocationApplies
<1>1. StoreInv => RevocationApplies
  BY DEF StoreInv, Caught, Admits, RevocationApplies
<1> QED
  BY <1>1, StoreInitHolds, StoreStepKeeps, PTL DEF StoreSpec
=============================================================================
