------------------------ MODULE ObservationLogProofs ------------------------
(***************************************************************************)
(* Proofs about ObservationLog for every set of observations and of        *)
(* decisions, and for any number of runs, kills and cut writes: a log that *)
(* reads has at most one correction of a record, its halves in order; and  *)
(* a sweep that trusts its index gets what the whole log would give it.    *)
(***************************************************************************)
EXTENDS ObservationLog, NaturalsInduction, FiniteSetTheorems, WellFoundedInduction, TLAPS

-----------------------------------------------------------------------------
(* What a log is made of *)

Attribution == [decision : Decision, run : Nat]
CorrectionText ==
    {Refiled(r, a) : r \in Observation, a \in Attribution}
        \cup {Retracted(r, a) : r \in Observation, a \in Attribution}
Text == {Torn} \cup {Observed(r) : r \in Observation} \cup CorrectionText
Piece == [text : Text, ended : BOOLEAN]

Texts(L) == [i \in DOMAIN L |-> L[i].text]

\* The first n pieces read.
Sound(L, n) == \A i \in 1..n : L[i].text # Torn /\ (i < n => L[i].ended)

\* No observation is filed twice: its line names it.
Distinct(L) ==
    \A i, j \in DOMAIN L :
        L[i].text.kind = "observation" /\ L[j].text = L[i].text => i = j

\* Of the first n texts: no half is without the one before it, none is there twice.
HalvesInOrder(T, n) ==
    \A i \in 1..n : T[i].kind = "retracted" => \E k \in 1..(i - 1) : T[k] = Refiled(T[i].of, T[i].by)
HalvesOnce(T, n) ==
    \A i, j \in 1..n :
        T[i].kind \in {"refiled", "retracted"} /\ T[j].kind = T[i].kind /\ T[j].of = T[i].of => i = j
Good(T, n) == HalvesInOrder(T, n) /\ HalvesOnce(T, n)

-----------------------------------------------------------------------------
(* The inductive invariant of CorrectionsStand *)

CommandShape ==
    \/ command = Idle
    \/ command.step = "plan" /\ command = [step |-> "plan", by |-> command.by] /\ command.by \in Attribution
    \/ /\ command.step = "apply"
       /\ command = [step |-> "apply", size |-> command.size, through |-> command.through,
                     rest |-> command.rest]
    \/ command.step = "append" /\ command = [step |-> "append", rest |-> command.rest]
    \/ command.step = "back up" /\ command = [step |-> "back up", body |-> command.body]
    \/ command.step = "rewrite" /\ command = [step |-> "rewrite", body |-> command.body]

LogType == log \in Seq(Piece) /\ runs \in Nat /\ CommandShape

\* However much of the log reads, it is good.
BeginningsStand(L) == \A n \in 0..Len(L) : Sound(L, n) => Good(Texts(L), n)

\* What reattribute is to append leaves the log good, if it has damaged nothing so far.
Intact == \A i \in DOMAIN log : log[i].ended /\ log[i].text # Torn
PlanStands ==
    command.step \in {"apply", "append"} =>
        /\ command.rest \in Seq(CorrectionText)
        /\ Intact => Good(Texts(log) \o command.rest, Len(log) + Len(command.rest))

\* What repair is to write is a beginning of the log.
BodyIsPrefix ==
    command.step \in {"back up", "rewrite"} =>
        /\ command.body \in Seq(Piece) /\ Len(command.body) <= Len(log)
        /\ \A i \in 1..Len(command.body) : command.body[i] = log[i]

StandInv == LogType /\ Distinct(log) /\ BeginningsStand(log) /\ PlanStands /\ BodyIsPrefix

-----------------------------------------------------------------------------
(* The inductive invariant of IndexIsTheFold *)

\* The corrections in the first n pieces, and the view of them alone.
CorrectedIn(L, n, kind, r) ==
    {i \in 1..n : L[i].ended /\ L[i].text.kind = kind /\ L[i].text.of = r}
CompletedIn(L, n, r) ==
    {L[i].text.by : i \in CorrectedIn(L, n, "refiled", r)}
        \cap {L[i].text.by : i \in CorrectedIn(L, n, "retracted", r)}
ViewOf(L, n) ==
    [i \in {i \in 1..n : L[i].text.kind = "observation"} |->
        [of |-> L[i].text.of, by |-> CompletedIn(L, n, L[i].text.of)]]
\* The view of what reads.
Folds(view, L, n) == Sound(L, n) => view = ViewOf(L, n)

IndexShape ==
    index # NoIndex =>
        /\ index = [through |-> index.through, view |-> index.view, prefix |-> index.prefix]
        /\ index.through \in Nat /\ index.prefix \in Seq(Piece)
        /\ Len(index.prefix) = index.through => Folds(index.view, index.prefix, index.through)

SweepShape ==
    \/ sweep = Idle \/ sweep = [step |-> "prove"] \/ sweep = [step |-> "capture"]
    \/ sweep.step = "fold" /\ sweep = [step |-> "fold", start |-> sweep.start, view |-> sweep.view]
    \/ sweep.step = "write" /\ sweep = [step |-> "write", through |-> sweep.through, view |-> sweep.view]

\* The workload lock keeps reattribute from a sweep.
Locked ==
    /\ sweep # Idle => workload = "sweep"
    /\ command.step \in {"plan", "apply", "append"} => workload = "reattribute"

\* A fold starts from nothing, or from a view of what is still there, behind every correction.
NoneLater(start) ==
    \A i \in 1..Len(log) : \A r \in Observation :
        i \in Begun(r) \cup Closed(r) => i <= start
FoldStands ==
    sweep.step = "fold" =>
        \/ sweep.start = 0 /\ sweep.view = <<>>
        \/ sweep.start \in 0..Len(log) /\ NoneLater(sweep.start) /\ Folds(sweep.view, log, sweep.start)
WriteStands ==
    sweep.step = "write" =>
        sweep.through \in 0..Len(log) /\ Folds(sweep.view, log, sweep.through)

FoldInv == IndexShape /\ SweepShape /\ Locked /\ FoldStands /\ WriteStands

-----------------------------------------------------------------------------
(* Texts *)

LEMMA TextForms ==
    /\ \A r : Observed(r).kind = "observation" /\ Observed(r).of = r /\ Observed(r) # Torn
    /\ \A r, a : /\ Refiled(r, a).kind = "refiled" /\ Refiled(r, a).of = r /\ Refiled(r, a).by = a
                 /\ Retracted(r, a).kind = "retracted" /\ Retracted(r, a).of = r
                 /\ Retracted(r, a).by = a
    /\ Torn.kind = "torn"
  BY DEF Observed, Refiled, Retracted, Torn

LEMMA TextKinds ==
    ASSUME NEW t \in Text
    PROVE  \/ t = Torn /\ t.kind = "torn"
           \/ t.kind = "observation" /\ t.of \in Observation /\ t = Observed(t.of)
           \/ /\ t.kind = "refiled" /\ t.of \in Observation /\ t.by \in Attribution
              /\ t = Refiled(t.of, t.by) /\ t \in CorrectionText
           \/ /\ t.kind = "retracted" /\ t.of \in Observation /\ t.by \in Attribution
              /\ t = Retracted(t.of, t.by) /\ t \in CorrectionText
<1>1. CASE t = Torn
  BY <1>1, TextForms
<1>2. CASE \E r \in Observation : t = Observed(r)
  BY <1>2, TextForms
<1>3. CASE \E r \in Observation, a \in Attribution : t = Refiled(r, a)
  BY <1>3, TextForms DEF CorrectionText
<1>4. CASE \E r \in Observation, a \in Attribution : t = Retracted(r, a)
  BY <1>4, TextForms DEF CorrectionText
<1> QED
  BY <1>1, <1>2, <1>3, <1>4 DEF Text, CorrectionText

LEMMA CorrectionKinds ==
    ASSUME NEW t \in CorrectionText
    PROVE  t \in Text /\ t # Torn /\ t.kind \in {"refiled", "retracted"}
<1>1. t \in Text
  BY DEF Text
<1>2. t # Torn /\ t.kind \in {"refiled", "retracted"}
  BY TextForms DEF CorrectionText
<1> QED
  BY <1>1, <1>2

LEMMA LogElements ==
    ASSUME NEW L \in Seq(Piece)
    PROVE  /\ Len(L) \in Nat /\ DOMAIN L = 1..Len(L)
           /\ \A i \in 1..Len(L) : L[i] \in Piece /\ L[i].text \in Text /\ L[i].ended \in BOOLEAN
<1>1. Len(L) \in Nat /\ DOMAIN L = 1..Len(L) /\ \A i \in 1..Len(L) : L[i] \in Piece
  OBVIOUS
<1>2. \A x \in Piece : x.text \in Text /\ x.ended \in BOOLEAN
  BY DEF Piece
<1> QED
  BY <1>1, <1>2

LEMMA TextsOf ==
    ASSUME NEW L \in Seq(Piece)
    PROVE  /\ Texts(L) \in Seq(Text) /\ Len(Texts(L)) = Len(L)
           /\ \A i \in 1..Len(L) : Texts(L)[i] = L[i].text
<1>1. /\ Len(L) \in Nat /\ DOMAIN L = 1..Len(L)
      /\ \A i \in 1..Len(L) : L[i].text \in Text
  BY LogElements
<1>2. Texts(L) = [i \in 1..Len(L) |-> L[i].text]
  BY <1>1 DEF Texts
<1>3. Texts(L) \in [1..Len(L) -> Text]
  BY <1>1, <1>2
<1>4. Texts(L) \in Seq(Text)
  BY <1>1, <1>3
<1>5. Len(Texts(L)) = Len(L)
  BY <1>1, <1>3, <1>4
<1> QED
  BY <1>2, <1>4, <1>5

\* Reads is Sound, of the whole.
LEMMA ReadsAll ==
    ASSUME NEW L \in Seq(Piece)
    PROVE  Reads(L, 0) <=> Sound(L, Len(L))
<1>1. Len(L) \in Nat
  OBVIOUS
<1>2. ASSUME Sound(L, Len(L)), NEW i \in 1..Len(L) PROVE Clean(L, 0, i)
  <2>1. L[i].text # Torn /\ (i < Len(L) => L[i].ended)
    BY <1>2 DEF Sound
  <2>2. ASSUME i > 1 PROVE L[i - 1].ended
    <3>1. i - 1 \in 1..Len(L) /\ i - 1 < Len(L)
      BY <1>1, <2>2
    <3> QED
      BY <1>2, <3>1 DEF Sound
  <2> QED
    BY <2>1, <2>2 DEF Clean
<1>3. ASSUME Reads(L, 0), NEW i \in 1..Len(L) PROVE L[i].text # Torn /\ (i < Len(L) => L[i].ended)
  BY <1>3 DEF Reads, Clean
<1> QED
  BY <1>2, <1>3 DEF Sound, Reads

-----------------------------------------------------------------------------
(* Numbers *)

\* The library's induction theorems cannot be instantiated; NatLessThanWellFounded can be cited.
LEMMA LeastNumber ==
    ASSUME NEW A, A # {}, \A x \in A : x \in Nat
    PROVE  \E k \in A : \A m \in A : k <= m
<1> DEFINE R == OpToRel(<, Nat)
<1>1. IsWellFoundedOn(R, Nat)
  BY NatLessThanWellFounded
<1>2. A \subseteq Nat
  OBVIOUS
<1> HIDE DEF R
<1>3. PICK k \in A : \A m \in A : <<m, k>> \notin R
  BY <1>1, <1>2, WFMin
<1>4. ASSUME NEW m \in A PROVE k <= m
  <2>1. ~(m < k)
    BY <1>2, <1>3 DEF R, OpToRel
  <2> QED
    BY <1>2, <2>1
<1> QED
  BY <1>4

\* How many of a set are no greater: no two of its numbers have as many.
LEMMA RanksDiffer ==
    ASSUME NEW B, IsFiniteSet(B), \A x \in B : x \in Nat
    PROVE  /\ \A i \in B : Cardinality({j \in B : j <= i}) \in 1..Cardinality(B)
           /\ \A i, k \in B :
                 Cardinality({j \in B : j <= i}) = Cardinality({j \in B : j <= k}) => i = k
<1>1. Cardinality(B) \in Nat
  BY FS_CardinalityType
<1>2. ASSUME NEW i \in B
      PROVE  /\ IsFiniteSet({j \in B : j <= i})
             /\ Cardinality({j \in B : j <= i}) \in 1..Cardinality(B)
  <2> DEFINE D == {j \in B : j <= i}
  <2>1. D \in SUBSET B /\ i \in D
    OBVIOUS
  <2> HIDE DEF D
  <2>2. IsFiniteSet(D) /\ Cardinality(D) <= Cardinality(B)
    BY <2>1, FS_Subset
  <2>3. Cardinality(D) \in Nat /\ Cardinality(D) # 0
    BY <2>1, <2>2, FS_CardinalityType, FS_EmptySet
  <2> QED
    BY <1>1, <2>2, <2>3 DEF D
<1>3. ASSUME NEW i \in B, NEW k \in B, i < k
      PROVE  Cardinality({j \in B : j <= i}) # Cardinality({j \in B : j <= k})
  <2> DEFINE D == {j \in B : j <= i}
             E == {j \in B : j <= k}
  <2>1. D \in SUBSET E /\ k \in E /\ k \notin D
    BY <1>3
  <2>2. IsFiniteSet(E)
    BY <1>2
  <2> HIDE DEF D, E
  <2>3. Cardinality(E) = Cardinality(D) => E = D
    BY <2>1, <2>2, FS_Subset
  <2>4. Cardinality(D) # Cardinality(E)
    BY <2>1, <2>3
  <2> QED
    BY <2>4 DEF D, E
<1>4. ASSUME NEW i \in B, NEW k \in B,
             Cardinality({j \in B : j <= i}) = Cardinality({j \in B : j <= k})
      PROVE  i = k
  <2>1. ~(i < k) /\ ~(k < i)
    BY <1>3, <1>4
  <2> QED
    BY <2>1
<1> QED
  BY <1>2, <1>4

\* In a finite set of numbers there is one of every rank.
LEMMA EveryRank ==
    ASSUME NEW B, IsFiniteSet(B), \A x \in B : x \in Nat, NEW n \in 1..Cardinality(B)
    PROVE  \E i \in B : Cardinality({j \in B : j <= i}) = n
<1> DEFINE N == Cardinality(B)
           rank == [i \in B |-> Cardinality({j \in B : j <= i})]
<1>1. N \in Nat
  BY FS_CardinalityType
<1>2. rank \in [B -> 1..N]
  BY RanksDiffer
<1>3. ASSUME NEW i \in B, NEW k \in B, rank[i] = rank[k] PROVE i = k
  <2>1. Cardinality({j \in B : j <= i}) = Cardinality({j \in B : j <= k})
    BY <1>3
  <2> HIDE DEF rank
  <2> QED
    BY <2>1, RanksDiffer
<1> HIDE DEF rank, N
<1>4. rank \in Injection(B, 1..N)
  BY <1>2, <1>3 DEF Injection, IsInjective
<1>5. IsFiniteSet(1..N) /\ Cardinality(1..N) = N
  BY <1>1, FS_Interval
<1>6. rank \in Surjection(B, 1..N)
  BY <1>4, <1>5, FS_Injection DEF N
<1>7. PICK i \in B : rank[i] = n
  BY <1>6 DEF Surjection, N
<1> QED
  BY <1>7 DEF rank

-----------------------------------------------------------------------------
(* Good texts *)

\* What is good stays good in any text that begins with it.
LEMMA GoodBeginning ==
    ASSUME NEW T, NEW U, NEW m \in Nat, NEW n \in Nat, n <= m, Good(T, m),
           \A i \in 1..n : U[i] = T[i]
    PROVE  Good(U, n)
<1>1. \A i \in 1..n : i \in 1..m /\ (1..(i - 1)) \subseteq 1..n
  OBVIOUS
<1>2. HalvesInOrder(U, n)
  <2> SUFFICES ASSUME NEW i \in 1..n, U[i].kind = "retracted"
               PROVE  \E k \in 1..(i - 1) : U[k] = Refiled(U[i].of, U[i].by)
    BY DEF HalvesInOrder
  <2>1. PICK k \in 1..(i - 1) : T[k] = Refiled(T[i].of, T[i].by)
    BY <1>1 DEF Good, HalvesInOrder
  <2> QED
    BY <1>1, <2>1
<1>3. HalvesOnce(U, n)
  BY <1>1 DEF Good, HalvesOnce
<1> QED
  BY <1>2, <1>3 DEF Good

\* A text that is no correction breaks nothing.
LEMMA GoodWithOther ==
    ASSUME NEW T, NEW n \in Nat, Good(T, n), T[n + 1].kind \notin {"refiled", "retracted"}
    PROVE  Good(T, n + 1)
<1>1. \A i \in 1..(n + 1) : i \in 1..n \/ i = n + 1
  OBVIOUS
<1>2. HalvesInOrder(T, n + 1)
  BY <1>1 DEF Good, HalvesInOrder
<1>3. HalvesOnce(T, n + 1)
  BY <1>1 DEF Good, HalvesOnce
<1> QED
  BY <1>2, <1>3 DEF Good

\* The other two: a first half of a record that has none, and a second half of the first.
LEMMA GoodWithHalf ==
    ASSUME NEW T, NEW n \in Nat, Good(T, n),
           \A i \in 1..n : ~(T[i].kind = T[n + 1].kind /\ T[i].of = T[n + 1].of),
           T[n + 1].kind = "retracted" => \E k \in 1..n : T[k] = Refiled(T[n + 1].of, T[n + 1].by)
    PROVE  Good(T, n + 1)
<1>1. \A i \in 1..(n + 1) : i \in 1..n \/ i = n + 1
  OBVIOUS
<1>2. HalvesInOrder(T, n + 1)
  BY <1>1 DEF Good, HalvesInOrder
<1>3. HalvesOnce(T, n + 1)
  <2> SUFFICES ASSUME NEW i \in 1..(n + 1), NEW j \in 1..(n + 1), T[i].kind \in {"refiled", "retracted"},
                      T[j].kind = T[i].kind, T[j].of = T[i].of
               PROVE  i = j
    BY DEF HalvesOnce
  <2>1. CASE i \in 1..n /\ j \in 1..n
    BY <2>1 DEF Good, HalvesOnce
  <2> QED
    BY <1>1, <2>1
<1> QED
  BY <1>2, <1>3 DEF Good

\* An observation between what is there and what is to come breaks nothing.
LEMMA GoodAround ==
    ASSUME NEW T \in Seq(Text), NEW R \in Seq(Text), NEW r, Observed(r) \in Text,
           Good(T \o R, Len(T) + Len(R))
    PROVE  Good(Append(T, Observed(r)) \o R, Len(T) + 1 + Len(R))
<1> DEFINE t == Len(T)
           n == t + Len(R)
           A == T \o R
           B == Append(T, Observed(r)) \o R
           Was(i) == IF i <= t THEN i ELSE i - 1
<1>1. t \in Nat /\ Len(R) \in Nat /\ n \in Nat
  OBVIOUS
<1>2. \A i \in 1..n : A[i] = IF i <= t THEN T[i] ELSE R[i - t]
  OBVIOUS
<1>3. \A i \in 1..(n + 1) : B[i] = IF i <= t THEN T[i] ELSE IF i = t + 1 THEN Observed(r) ELSE R[i - t - 1]
  <2> DEFINE P == Append(T, Observed(r))
  <2>1. P \in Seq(Text) /\ Len(P) = t + 1
    OBVIOUS
  <2>2. \A i \in 1..(t + 1) : P[i] = IF i <= t THEN T[i] ELSE Observed(r)
    OBVIOUS
  <2> HIDE DEF t, P
  <2>3. \A i \in 1..(t + 1 + Len(R)) : B[i] = IF i <= t + 1 THEN P[i] ELSE R[i - (t + 1)]
    <3>1. B = P \o R
      BY DEF P
    <3> QED
      BY <1>1, <2>1, <3>1
  <2> HIDE DEF B
  <2>4. ASSUME NEW i \in 1..(n + 1)
        PROVE  B[i] = IF i <= t THEN T[i] ELSE IF i = t + 1 THEN Observed(r) ELSE R[i - t - 1]
    <3>1. i \in 1..(t + 1 + Len(R)) /\ i - (t + 1) = i - t - 1
      BY <1>1
    <3>2. CASE i <= t
      BY <1>1, <2>2, <2>3, <3>1, <3>2
    <3>3. CASE i = t + 1
      BY <1>1, <2>2, <2>3, <3>1, <3>3
    <3>4. CASE i > t + 1
      <4>1. B[i] = R[i - (t + 1)]
        BY <1>1, <2>3, <3>1, <3>4
      <4> QED
        BY <1>1, <3>1, <3>4, <4>1
    <3> QED
      BY <1>1, <3>2, <3>3, <3>4
  <2> QED
    BY <2>4
<1> HIDE DEF t, n, A, B
<1>4. Observed(r).kind = "observation"
  BY TextForms
<1>5. \A i \in 1..(n + 1) : i # t + 1 => Was(i) \in 1..n /\ B[i] = A[Was(i)]
  <2> SUFFICES ASSUME NEW i \in 1..(n + 1), i # t + 1
               PROVE  Was(i) \in 1..n /\ B[i] = A[Was(i)]
    OBVIOUS
  <2>0. n = t + Len(R)
    BY DEF n, t
  <2>1. CASE i <= t
    BY <1>1, <1>2, <1>3, <2>0, <2>1
  <2>2. CASE i > t + 1
    <3>1. i - 1 \in 1..n /\ ~(i - 1 <= t) /\ (i - 1) - t = i - t - 1 /\ ~(i <= t)
      BY <1>1, <2>0, <2>2
    <3> QED
      BY <1>2, <1>3, <3>1
  <2> QED
    BY <1>1, <2>1, <2>2
<1>6. B[t + 1] = Observed(r)
  <2>1. t + 1 \in 1..(n + 1) /\ ~(t + 1 <= t)
    BY <1>1 DEF n, t
  <2> QED
    BY <1>3, <2>1
<1>7. Good(A, n)
  BY DEF A, n, t
<1>8. HalvesInOrder(B, n + 1)
  <2> SUFFICES ASSUME NEW i \in 1..(n + 1), B[i].kind = "retracted"
               PROVE  \E k \in 1..(i - 1) : B[k] = Refiled(B[i].of, B[i].by)
    BY DEF HalvesInOrder
  <2>1. i # t + 1
    BY <1>4, <1>6
  <2>2. Was(i) \in 1..n /\ B[i] = A[Was(i)]
    BY <1>5, <2>1
  <2>3. PICK k \in 1..(Was(i) - 1) : A[k] = Refiled(B[i].of, B[i].by)
    BY <1>7, <2>2 DEF Good, HalvesInOrder
  <2>4. PICK l \in 1..(i - 1) : l # t + 1 /\ Was(l) = k
    <3>1. CASE k <= t
      BY <1>1, <2>2, <2>3, <3>1
    <3>2. CASE k > t
      <4>1. k + 1 \in 1..(i - 1) /\ k + 1 # t + 1 /\ ~(k + 1 <= t) /\ (k + 1) - 1 = k
        BY <1>1, <2>2, <2>3, <3>2
      <4> QED
        BY <4>1
    <3> QED
      BY <1>1, <2>3, <3>1, <3>2
  <2>5. l \in 1..(n + 1)
    BY <1>1, <2>4
  <2>6. B[l] = A[k]
    BY <1>5, <2>4, <2>5
  <2> QED
    BY <2>3, <2>4, <2>6
<1>9. HalvesOnce(B, n + 1)
  <2> SUFFICES ASSUME NEW i \in 1..(n + 1), NEW j \in 1..(n + 1), B[i].kind \in {"refiled", "retracted"},
                      B[j].kind = B[i].kind, B[j].of = B[i].of
               PROVE  i = j
    BY DEF HalvesOnce
  <2>1. i # t + 1 /\ j # t + 1
    BY <1>4, <1>6
  <2>2. Was(i) \in 1..n /\ Was(j) \in 1..n /\ B[i] = A[Was(i)] /\ B[j] = A[Was(j)]
    BY <1>5, <2>1
  <2>3. Was(i) = Was(j)
    BY <1>7, <2>2 DEF Good, HalvesOnce
  <2> QED
    BY <1>1, <2>1, <2>3
<1>10. n + 1 = Len(T) + 1 + Len(R)
  BY <1>1 DEF n, t
<1> QED
  BY <1>8, <1>9, <1>10 DEF Good, B

-----------------------------------------------------------------------------
(* How a log changes *)

LEMMA LogGrows ==
    ASSUME NEW L \in Seq(Piece), NEW p \in Piece
    PROVE  /\ Append(L, p) \in Seq(Piece) /\ Len(Append(L, p)) = Len(L) + 1
           /\ \A i \in 1..Len(L) : Append(L, p)[i] = L[i]
           /\ Append(L, p)[Len(L) + 1] = p
           /\ Texts(Append(L, p)) = Append(Texts(L), p.text)
           /\ \A i \in 1..Len(L) : Texts(Append(L, p))[i] = Texts(L)[i]
           /\ Texts(Append(L, p))[Len(L) + 1] = p.text
<1> DEFINE M == Append(L, p)
<1>1. /\ M \in Seq(Piece) /\ Len(M) = Len(L) + 1 /\ Len(L) \in Nat
      /\ \A i \in 1..Len(L) : M[i] = L[i]
      /\ M[Len(L) + 1] = p
  OBVIOUS
<1>2. p.text \in Text
  BY DEF Piece
<1> HIDE DEF M
<1>3. /\ Texts(L) \in Seq(Text) /\ Len(Texts(L)) = Len(L)
      /\ \A i \in 1..Len(L) : Texts(L)[i] = L[i].text
  BY TextsOf
<1>4. /\ Texts(M) \in Seq(Text) /\ Len(Texts(M)) = Len(M)
      /\ \A i \in 1..Len(M) : Texts(M)[i] = M[i].text
  BY <1>1, TextsOf
<1>5. /\ \A i \in 1..Len(L) : Texts(M)[i] = Texts(L)[i]
      /\ Texts(M)[Len(L) + 1] = p.text
  BY <1>1, <1>3, <1>4
<1>6. Texts(M) = Append(Texts(L), p.text)
  <2> DEFINE A == Append(Texts(L), p.text)
  <2>1. /\ A \in Seq(Text) /\ Len(A) = Len(L) + 1
        /\ \A i \in 1..Len(L) : A[i] = Texts(L)[i]
        /\ A[Len(L) + 1] = p.text
    BY <1>1, <1>2, <1>3
  <2> HIDE DEF A
  <2>2. \A i \in 1..(Len(L) + 1) : A[i] = Texts(M)[i]
    BY <1>1, <1>5, <2>1
  <2>3. A = Texts(M)
    BY <1>1, <1>4, <2>1, <2>2
  <2> QED
    BY <2>3 DEF A
<1> QED
  BY <1>1, <1>5, <1>6 DEF M

\* An append keeps the beginnings if, where all reads, the new text is good on top of the others.
LEMMA BeginningsGrow ==
    ASSUME NEW L \in Seq(Piece), NEW p \in Piece, BeginningsStand(L),
           Sound(Append(L, p), Len(L) + 1) => Good(Texts(Append(L, p)), Len(L) + 1)
    PROVE  BeginningsStand(Append(L, p))
<1> DEFINE M == Append(L, p)
<1>1. /\ Len(M) = Len(L) + 1 /\ Len(L) \in Nat
      /\ \A i \in 1..Len(L) : M[i] = L[i] /\ Texts(M)[i] = Texts(L)[i]
  BY LogGrows
<1> SUFFICES ASSUME NEW n \in 0..Len(M), Sound(M, n) PROVE Good(Texts(M), n)
  BY DEF BeginningsStand
<1> HIDE DEF M
<1>2. CASE n = Len(L) + 1
  BY <1>2 DEF M
<1>3. CASE n <= Len(L)
  <2>1. Sound(L, n)
    BY <1>1, <1>3 DEF Sound
  <2>2. Good(Texts(L), n) /\ n \in Nat
    BY <1>1, <1>3, <2>1 DEF BeginningsStand
  <2>3. \A i \in 1..n : Texts(M)[i] = Texts(L)[i]
    BY <1>1, <1>3
  <2>4. n <= n
    BY <2>2
  <2> QED
    BY <2>2, <2>3, <2>4, GoodBeginning
<1> QED
  BY <1>1, <1>2, <1>3

\* A log cut down to a beginning of it, the last text of which may be torn.
CutDown(M, L) ==
    /\ Len(M) <= Len(L)
    /\ \A i \in 1..Len(M) : i < Len(M) => M[i] = L[i]
    /\ \A i \in 1..Len(M) : M[i].text \in {L[i].text, Torn}

LEMMA CutDownStands ==
    ASSUME NEW L \in Seq(Piece), NEW M \in Seq(Piece), CutDown(M, L), BeginningsStand(L), Distinct(L)
    PROVE  BeginningsStand(M) /\ Distinct(M)
<1>1. /\ Len(M) \in Nat /\ Len(L) \in Nat /\ Len(M) <= Len(L)
      /\ DOMAIN M = 1..Len(M) /\ DOMAIN L = 1..Len(L)
  BY DEF CutDown
<1>2. ASSUME NEW n \in 0..Len(M), Sound(M, n) PROVE Good(Texts(M), n)
  <2>1. n \in 0..Len(L) /\ n \in Nat /\ 1..n \subseteq 1..Len(M) /\ 1..n \subseteq 1..Len(L)
    BY <1>1
  <2>2. \A i \in 1..n : M[i].text = L[i].text
    BY <1>2, <2>1 DEF CutDown, Sound
  <2>3. \A i \in 1..n : i < n => M[i] = L[i]
    BY <1>1, <2>1 DEF CutDown
  <2>4. Sound(L, n)
    BY <1>2, <2>2, <2>3 DEF Sound
  <2>5. Good(Texts(L), n)
    BY <2>1, <2>4 DEF BeginningsStand
  <2>6. \A i \in 1..n : Texts(M)[i] = Texts(L)[i]
    BY <1>1, <2>1, <2>2 DEF Texts
  <2> QED
    BY <2>1, <2>5, <2>6, GoodBeginning
<1>3. Distinct(M)
  <2> SUFFICES ASSUME NEW i \in 1..Len(M), NEW j \in 1..Len(M),
                      M[i].text.kind = "observation", M[j].text = M[i].text
               PROVE  i = j
    BY <1>1 DEF Distinct
  <2>1. M[i].text = L[i].text /\ M[j].text = L[j].text
    BY TextForms DEF CutDown
  <2> QED
    BY <1>1, <2>1 DEF Distinct
<1> QED
  BY <1>2, <1>3 DEF BeginningsStand

LEMMA DistinctGrows ==
    ASSUME NEW L \in Seq(Piece), NEW p \in Piece, Distinct(L),
           p.text.kind = "observation" => \A i \in 1..Len(L) : L[i].text # p.text
    PROVE  Distinct(Append(L, p))
<1> DEFINE M == Append(L, p)
<1>1. /\ M \in Seq(Piece) /\ Len(M) = Len(L) + 1 /\ Len(L) \in Nat
      /\ \A i \in 1..Len(L) : M[i] = L[i]
      /\ M[Len(L) + 1] = p
  BY LogGrows
<1>2. DOMAIN M = 1..(Len(L) + 1) /\ DOMAIN L = 1..Len(L)
  BY <1>1
<1> HIDE DEF M
<1>3. \A i \in 1..(Len(L) + 1) : i \in 1..Len(L) \/ i = Len(L) + 1
  BY <1>1
<1>4. Distinct(M)
  BY <1>1, <1>2, <1>3 DEF Distinct
<1> QED
  BY <1>4 DEF M

-----------------------------------------------------------------------------
(* Captures, halves and repairs *)

LEMMA Within ==
    ASSUME NEW m \in Nat, NEW n \in Nat, m <= n
    PROVE  m <= n + 1 /\ \A i \in 1..m : i \in 1..n
OBVIOUS

LEMMA BodyStays ==
    ASSUME log \in Seq(Piece), BodyIsPrefix, command' = command,
           NEW p \in Piece, log' = Append(log, p)
    PROVE  BodyIsPrefix'
<1> SUFFICES ASSUME command.step \in {"back up", "rewrite"}
             PROVE  /\ command.body \in Seq(Piece) /\ Len(command.body) <= Len(log')
                    /\ \A i \in 1..Len(command.body) : command.body[i] = log'[i]
  BY DEF BodyIsPrefix
<1> DEFINE B == command.body
<1>1. B \in Seq(Piece) /\ \A i \in 1..Len(B) : B[i] = log[i]
  BY DEF BodyIsPrefix
<1>2. Len(B) <= Len(log)
  BY DEF BodyIsPrefix
<1>3. Len(B) \in Nat /\ Len(log) \in Nat
  BY <1>1, LogElements
<1>4. \A i \in 1..Len(log) : log'[i] = log[i]
  BY LogGrows
<1>5. Len(log') = Len(log) + 1
  BY LogGrows
<1> HIDE DEF B
<1>6. Len(B) <= Len(log')
  BY <1>2, <1>3, <1>5, Within
<1>7. \A i \in 1..Len(B) : i \in 1..Len(log)
  BY <1>2, <1>3, Within
<1> QED
  BY <1>1, <1>4, <1>6, <1>7 DEF B

LEMMA CapturesStand ==
    ASSUME StandInv, NEW r \in Observation, Capture(r)
    PROVE  StandInv'
<1>1. log \in Seq(Piece) /\ Len(log) \in Nat /\ DOMAIN log = 1..Len(log)
  BY DEF StandInv, LogType
<1>2. PICK p \in Piece : /\ log' = Append(log, p) /\ p.text \in {Observed(r), Torn}
                         /\ p.ended => p.text = Observed(r)
  <2>1. ASSUME NEW t \in {Observed(r), Torn}
        PROVE  /\ [text |-> t, ended |-> TRUE] \in Piece
               /\ [text |-> t, ended |-> FALSE] \in Piece
    BY DEF Piece, Text
  <2> QED
    BY <2>1 DEF Capture, Put, Cut
<1> DEFINE t == p.text
<1>3. p \in Piece /\ p.text = t
  OBVIOUS
<1>4. log' = Append(log, p) /\ t \in {Observed(r), Torn} /\ (p.ended => t = Observed(r))
  BY <1>2
<1> HIDE DEF t
<1>5. /\ log' \in Seq(Piece) /\ Len(log') = Len(log) + 1 /\ DOMAIN log' = 1..(Len(log) + 1)
      /\ \A i \in 1..Len(log) : log'[i] = log[i]
      /\ log'[Len(log) + 1] = p
      /\ Texts(log') = Append(Texts(log), t)
      /\ \A i \in 1..Len(log) : Texts(log')[i] = Texts(log)[i]
      /\ Texts(log')[Len(log) + 1] = t
  <2>1. DOMAIN log' = 1..Len(log')
    BY <1>1, <1>3, <1>4, LogGrows
  <2> QED
    BY <1>1, <1>3, <1>4, <2>1, LogGrows
<1>6. t.kind \notin {"refiled", "retracted"}
  BY <1>4, TextForms
<1>7. command' = command /\ runs' = runs /\ \A i \in 1..Len(log) : log[i].text # Observed(r)
  BY <1>1 DEF Capture
<1>8. LogType'
  BY <1>5, <1>7 DEF StandInv, LogType, CommandShape
<1>9. Distinct(log')
  <2>1. p.text.kind = "observation" => \A i \in 1..Len(log) : log[i].text # p.text
    BY <1>3, <1>4, <1>7, TextForms
  <2> QED
    BY <1>1, <1>3, <1>4, <2>1, DistinctGrows DEF StandInv
<1>10. BeginningsStand(log')
  <2>1. ASSUME Sound(Append(log, p), Len(log) + 1)
        PROVE  Good(Texts(Append(log, p)), Len(log) + 1)
    <3>1. Sound(log, Len(log))
      BY <1>1, <1>4, <1>5, <2>1 DEF Sound
    <3>2. Good(Texts(log), Len(log))
      BY <1>1, <3>1 DEF StandInv, BeginningsStand
    <3>3. Good(Texts(log'), Len(log))
      <4> DEFINE n == Len(log)
                 T == Texts(log)
                 U == Texts(log')
      <4>1. \A i \in 1..n : U[i] = T[i]
        BY <1>5
      <4>2. n \in Nat /\ Good(T, n)
        BY <1>1, <3>2
      <4> HIDE DEF n, T, U
      <4>3. n <= n
        BY <4>2
      <4>4. Good(U, n)
        BY <4>1, <4>2, <4>3, GoodBeginning
      <4> QED
        BY <4>4 DEF n, U
    <3>4. Good(Texts(log'), Len(log) + 1)
      BY <1>1, <1>5, <1>6, <3>3, GoodWithOther
    <3> QED
      BY <1>4, <3>4
  <2> QED
    BY <1>1, <1>3, <1>4, <2>1, BeginningsGrow DEF StandInv
<1>11. PlanStands'
  <2> SUFFICES ASSUME command.step \in {"apply", "append"}
               PROVE  /\ command.rest \in Seq(CorrectionText)
                      /\ Intact' => Good(Texts(log') \o command.rest, Len(log') + Len(command.rest))
    BY <1>7 DEF PlanStands
  <2>1. command.rest \in Seq(CorrectionText) /\ command.rest \in Seq(Text)
    <3>1. command.rest \in Seq(CorrectionText) /\ CorrectionText \subseteq Text
      BY CorrectionKinds DEF StandInv, PlanStands
    <3> QED
      BY <3>1
  <2>2. ASSUME Intact'
        PROVE  Good(Texts(log') \o command.rest, Len(log') + Len(command.rest))
    <3>1. Intact /\ t = Observed(r)
      <4>1. \A i \in 1..(Len(log) + 1) : log'[i].ended /\ log'[i].text # Torn
        BY <1>5, <2>2 DEF Intact
      <4>2. (\A i \in 1..Len(log) : i \in 1..(Len(log) + 1)) /\ Len(log) + 1 \in 1..(Len(log) + 1)
        BY <1>1
      <4>3. p.ended /\ p.text # Torn
        BY <1>5, <4>1, <4>2
      <4>4. \A i \in DOMAIN log : log[i].ended /\ log[i].text # Torn
        BY <1>1, <1>5, <4>1, <4>2
      <4> QED
        BY <1>4, <4>3, <4>4 DEF Intact
    <3>2. Good(Texts(log) \o command.rest, Len(log) + Len(command.rest))
      BY <3>1 DEF StandInv, PlanStands
    <3>3. Observed(r) \in Text /\ Texts(log) \in Seq(Text) /\ Len(Texts(log)) = Len(log)
      BY <1>1, TextsOf DEF Text
    <3>4. Good(Append(Texts(log), Observed(r)) \o command.rest, Len(log) + 1 + Len(command.rest))
      BY <2>1, <3>2, <3>3, GoodAround
    <3> QED
      BY <1>5, <3>1, <3>4
  <2> QED
    BY <2>1, <2>2
<1>12. BodyIsPrefix'
  BY <1>1, <1>4, <1>7, BodyStays DEF StandInv
<1> QED
  BY <1>8, <1>9, <1>10, <1>11, <1>12 DEF StandInv

LEMMA HeadMoves ==
    ASSUME NEW T \in Seq(Text), NEW R \in Seq(Text), R # <<>>
    PROVE  /\ Head(R) \in Text /\ Tail(R) \in Seq(Text) /\ Len(Tail(R)) = Len(R) - 1
           /\ Len(R) \in Nat /\ Len(R) >= 1
           /\ (T \o R)[Len(T) + 1] = Head(R) /\ \A i \in 1..Len(T) : (T \o R)[i] = T[i]
           /\ Append(T, Head(R)) \o Tail(R) = T \o R
<1>1. /\ Head(R) \in Text /\ Tail(R) \in Seq(Text) /\ Len(Tail(R)) = Len(R) - 1
      /\ Len(R) \in Nat /\ Len(R) >= 1
  OBVIOUS
<1>2. (T \o R)[Len(T) + 1] = Head(R) /\ \A i \in 1..Len(T) : (T \o R)[i] = T[i]
  BY <1>1
<1>3. Append(T, Head(R)) \o Tail(R) = T \o R
  BY <1>1
<1> QED
  BY <1>1, <1>2, <1>3

LEMMA RestType ==
    ASSUME StandInv, command.step \in {"apply", "append"}
    PROVE  command.rest \in Seq(CorrectionText) /\ command.rest \in Seq(Text)
<1>1. command.rest \in Seq(CorrectionText) /\ CorrectionText \subseteq Text
  BY CorrectionKinds DEF StandInv, PlanStands
<1> QED
  BY <1>1

\* The next half of a plan, whole or cut.
LEMMA HalfStands ==
    ASSUME StandInv, command.step = "append", command.rest # <<>>,
           NEW p \in Piece, log' = Append(log, p), p.text \in {Head(command.rest), Torn}
    PROVE  log' \in Seq(Piece) /\ Distinct(log') /\ BeginningsStand(log')
<1> DEFINE R == command.rest
           n == Len(log)
           T == Texts(log)
<1>1. log \in Seq(Piece) /\ n \in Nat /\ DOMAIN log = 1..n
  BY LogElements DEF StandInv, LogType
<1>2. R \in Seq(CorrectionText) /\ R \in Seq(Text) /\ R # <<>>
  BY RestType
<1>3. Head(R) \in CorrectionText
  BY <1>2
<1>4. /\ log' \in Seq(Piece) /\ Len(log') = n + 1
      /\ \A i \in 1..n : log'[i] = log[i] /\ Texts(log')[i] = T[i]
      /\ log'[n + 1] = p /\ Texts(log')[n + 1] = p.text
  BY <1>1, LogGrows
<1>5. T \in Seq(Text) /\ Len(T) = n
  BY <1>1, TextsOf
<1>6. Intact => Good(T \o R, n + Len(R))
  BY DEF StandInv, PlanStands
<1>7. Distinct(log')
  <2>1. p.text.kind # "observation"
    BY <1>3, CorrectionKinds, TextForms
  <2> QED
    BY <1>1, <2>1, DistinctGrows DEF StandInv
<1> HIDE DEF R, n, T
<1>8. /\ (T \o R)[n + 1] = Head(R) /\ Len(R) \in Nat /\ Len(R) >= 1
      /\ \A i \in 1..n : (T \o R)[i] = T[i]
  BY <1>2, <1>5, HeadMoves
<1>9. ASSUME Sound(log', n + 1) PROVE Good(Texts(log'), n + 1)
  <2>1. \A i \in 1..n : i \in 1..(n + 1) /\ i < n + 1
    BY <1>1
  <2>2. Intact
    BY <1>1, <1>4, <1>9, <2>1 DEF Sound, Intact
  <2>3. n + 1 \in 1..(n + 1) /\ n + 1 \in Nat
    BY <1>1
  <2>4. p.text = Head(R)
    BY <1>4, <1>9, <2>3 DEF Sound, R
  <2>5. \A i \in 1..(n + 1) : i \in 1..n \/ i = n + 1
    BY <1>1
  <2>6. \A i \in 1..(n + 1) : Texts(log')[i] = (T \o R)[i]
    BY <1>4, <1>8, <2>4, <2>5
  <2>7. n + Len(R) \in Nat /\ n + 1 <= n + Len(R)
    BY <1>1, <1>8
  <2> QED
    BY <1>6, <2>2, <2>3, <2>6, <2>7, GoodBeginning
<1>10. BeginningsStand(log')
  BY <1>1, <1>9, BeginningsGrow DEF n, StandInv
<1> QED
  BY <1>4, <1>7, <1>10

LEMMA HalvesStand ==
    ASSUME StandInv, AppendHalf \/ HalfIsCut
    PROVE  StandInv'
<1> DEFINE R == command.rest
<1>1. /\ command.step = "append" /\ R # <<>> /\ runs' = runs
      /\ R \in Seq(CorrectionText) /\ R \in Seq(Text) /\ log \in Seq(Piece)
  BY RestType DEF AppendHalf, HalfIsCut, StandInv, LogType
<1>2. Head(R) \in Text /\ Torn \in Text
  BY <1>1 DEF Text
<1>3. command = [step |-> "append", rest |-> R]
  BY <1>1 DEF StandInv, LogType, CommandShape, Idle
<1>4. CASE AppendHalf
  <2> DEFINE p == [text |-> Head(R), ended |-> TRUE]
  <2>1. p \in Piece /\ p.text = Head(R)
    BY <1>2 DEF Piece
  <2>2. log' = Append(log, p)
    BY <1>4 DEF AppendHalf, Put
  <2>3. command' = [step |-> "append", rest |-> Tail(R)]
    BY <1>3, <1>4 DEF AppendHalf
  <2> HIDE DEF p
  <2>4. log' \in Seq(Piece) /\ Distinct(log') /\ BeginningsStand(log')
    BY <1>1, <2>1, <2>2, HalfStands
  <2>5. LogType'
    BY <1>1, <2>3, <2>4 DEF StandInv, LogType, CommandShape
  <2>6. BodyIsPrefix'
    BY <2>3 DEF BodyIsPrefix
  <2>7. ASSUME Intact' PROVE Intact
    <3>1. /\ Len(log') = Len(log) + 1 /\ Len(log) \in Nat
          /\ DOMAIN log = 1..Len(log) /\ DOMAIN log' = 1..Len(log')
          /\ \A i \in 1..Len(log) : log'[i] = log[i]
      BY <1>1, <2>1, <2>2, <2>4, LogGrows, LogElements
    <3> QED
      BY <2>7, <3>1 DEF Intact
  <2>8. PlanStands'
    <3>1. Tail(R) \in Seq(CorrectionText)
      BY <1>1
    <3>2. Texts(log') = Append(Texts(log), Head(R)) /\ Len(log') = Len(log) + 1 /\ Len(log) \in Nat
      BY <1>1, <2>1, <2>2, LogGrows, LogElements
    <3>3. Texts(log) \in Seq(Text)
      BY <1>1, TextsOf
    <3>4. /\ Len(Tail(R)) = Len(R) - 1 /\ Len(R) \in Nat
          /\ Append(Texts(log), Head(R)) \o Tail(R) = Texts(log) \o R
      <4>1. R \in Seq(Text) /\ R # <<>>
        BY <1>1
      <4> HIDE DEF R
      <4> QED
        BY <3>3, <4>1, HeadMoves
    <3>5. Len(log') + Len(Tail(R)) = Len(log) + Len(R)
      <4>1. \A a, b \in Nat : (a + 1) + (b - 1) = a + b
        OBVIOUS
      <4>2. Len(log') = Len(log) + 1 /\ Len(log) \in Nat
        BY <3>2
      <4>3. Len(Tail(R)) = Len(R) - 1 /\ Len(R) \in Nat
        BY <3>4
      <4> QED
        BY <4>1, <4>2, <4>3
    <3>6. Intact => Good(Texts(log) \o R, Len(log) + Len(R))
      BY <1>1 DEF StandInv, PlanStands
    <3>7. Intact' => Good(Texts(log') \o Tail(R), Len(log') + Len(Tail(R)))
      BY <2>7, <3>2, <3>4, <3>5, <3>6
    <3>8. command'.rest = Tail(R)
      BY <2>3
    <3> HIDE DEF R
    <3> QED
      BY <3>1, <3>7, <3>8 DEF PlanStands
  <2> QED
    BY <2>4, <2>5, <2>6, <2>8 DEF StandInv
<1>5. CASE HalfIsCut
  <2>1. PICK t \in {Head(R), Torn} : log' = Append(log, [text |-> t, ended |-> FALSE])
    BY <1>5 DEF HalfIsCut, Cut
  <2> DEFINE p == [text |-> t, ended |-> FALSE]
  <2>2. p \in Piece /\ p.text \in {Head(R), Torn}
    BY <1>2 DEF Piece
  <2> HIDE DEF p
  <2>3. log' = Append(log, p)
    BY <2>1 DEF p
  <2>4. log' \in Seq(Piece) /\ Distinct(log') /\ BeginningsStand(log')
    BY <1>1, <2>2, <2>3, HalfStands
  <2>5. command' = Idle
    BY <1>5 DEF HalfIsCut
  <2> QED
    BY <1>1, <2>4, <2>5 DEF StandInv, LogType, CommandShape, PlanStands, BodyIsPrefix, Idle
<1> QED
  BY <1>4, <1>5

LEMMA RewritesStand ==
    ASSUME StandInv, Rewrite \/ RewriteIsCut
    PROVE  StandInv'
<1> DEFINE B == command.body
<1>1. /\ command.step = "rewrite" /\ runs' = runs /\ command' = Idle
      /\ log \in Seq(Piece) /\ BeginningsStand(log) /\ Distinct(log)
  BY DEF Rewrite, RewriteIsCut, StandInv, LogType
<1>2. B \in Seq(Piece) /\ \A i \in 1..Len(B) : B[i] = log[i]
  BY <1>1 DEF StandInv, BodyIsPrefix
<1>3. Len(B) <= Len(log)
  BY <1>1 DEF StandInv, BodyIsPrefix
<1>4. /\ Len(B) \in Nat /\ Len(log) \in Nat /\ DOMAIN B = 1..Len(B)
      /\ \A i \in 1..Len(B) : B[i] \in Piece /\ B[i].text \in Text
  BY <1>1, <1>2, LogElements
<1> HIDE DEF B
<1>5. log' \in Seq(Piece) /\ CutDown(log', log)
  <2>1. CASE Rewrite
    <3>1. log' = B
      BY <2>1 DEF Rewrite, B
    <3> QED
      BY <1>2, <1>3, <3>1 DEF CutDown
  <2>2. ASSUME NEW n \in 0..(Len(B) - 1), log' = SubSeq(B, 1, n)
        PROVE  log' \in Seq(Piece) /\ CutDown(log', log)
    <3>1. n \in Nat /\ n <= Len(B) /\ n <= Len(log)
      BY <1>3, <1>4
    <3>2. log' \in Seq(Piece) /\ Len(log') = n /\ \A i \in 1..n : log'[i] = B[i]
      BY <1>2, <1>4, <2>2, <3>1
    <3>3. \A i \in 1..n : i \in 1..Len(B)
      BY <1>4, <3>1, Within
    <3> QED
      BY <1>2, <3>1, <3>2, <3>3 DEF CutDown
  <2>3. ASSUME NEW n \in 0..(Len(B) - 1), NEW t \in {B[n + 1].text, Torn},
               log' = Append(SubSeq(B, 1, n), [text |-> t, ended |-> FALSE])
        PROVE  log' \in Seq(Piece) /\ CutDown(log', log)
    <3> DEFINE C == SubSeq(B, 1, n)
               p == [text |-> t, ended |-> FALSE]
    <3>1. n \in Nat /\ n + 1 <= Len(B) /\ n + 1 <= Len(log) /\ n + 1 \in 1..Len(B)
      BY <1>3, <1>4
    <3>2. C \in Seq(Piece) /\ Len(C) = n /\ \A i \in 1..n : C[i] = B[i]
      BY <1>2, <1>4, <3>1
    <3>3. p \in Piece /\ p.text = t
      BY <1>4, <3>1 DEF Piece, Text
    <3> HIDE DEF C, p
    <3>4. log' = Append(C, p)
      BY <2>3 DEF C, p
    <3>5. /\ log' \in Seq(Piece) /\ Len(log') = n + 1
          /\ \A i \in 1..n : log'[i] = C[i]
          /\ log'[n + 1] = p
      BY <3>2, <3>3, <3>4, LogGrows
    <3>6. \A i \in 1..(n + 1) : i \in 1..Len(B) /\ (i < n + 1 => i \in 1..n) /\ (i \in 1..n \/ i = n + 1)
      BY <1>4, <3>1
    <3>7. \A i \in 1..(n + 1) : i < n + 1 => log'[i] = log[i]
      BY <1>2, <3>2, <3>5, <3>6
    <3>8. \A i \in 1..(n + 1) : log'[i].text \in {log[i].text, Torn}
      BY <1>2, <3>1, <3>2, <3>3, <3>5, <3>6
    <3> QED
      BY <3>1, <3>5, <3>7, <3>8 DEF CutDown
  <2> QED
    BY <2>1, <2>2, <2>3 DEF RewriteIsCut, B
<1>6. BeginningsStand(log') /\ Distinct(log')
  BY <1>1, <1>5, CutDownStands
<1> QED
  BY <1>1, <1>5, <1>6 DEF StandInv, LogType, CommandShape, PlanStands, BodyIsPrefix, Idle

\* What repair keeps is what lies before the last newline.
LEMMA EndedIsPrefix ==
    ASSUME log \in Seq(Piece)
    PROVE  /\ Ended \in Seq(Piece) /\ Len(Ended) <= Len(log)
           /\ \A i \in 1..Len(Ended) : Ended[i] = log[i]
<1> DEFINE N == Len(log)
           EndsAt(n) == (n = 0 \/ log[n].ended) /\ \A i \in (n + 1)..N : ~log[i].ended
           A == {n \in 0..N : n = 0 \/ log[n].ended}
           k == CHOOSE n \in 0..N : EndsAt(n)
<1>1. N \in Nat
  OBVIOUS
<1>2. \E n \in 0..N : EndsAt(n)
  <2>1. \E n \in A : \A m \in A : m <= n
    <3> DEFINE U == {m \in Nat : \A n \in A : n <= m}
    <3>1. U # {} /\ \A x \in U : x \in Nat
      BY <1>1
    <3>2. PICK u \in U : \A m \in U : u <= m
      BY <3>1, LeastNumber
    <3>3. u \in A
      <4> SUFFICES ASSUME u \notin A PROVE FALSE
        OBVIOUS
      <4>1. u # 0 /\ u \in Nat /\ u - 1 \in Nat
        BY <1>1
      <4>2. \A n \in A : n <= u /\ n # u /\ n \in Nat
        BY <1>1, <3>2
      <4> HIDE DEF A
      <4>3. u - 1 \in U
        BY <4>1, <4>2
      <4> QED
        BY <3>2, <4>1, <4>3
    <3> QED
      BY <3>2, <3>3
  <2>2. PICK n \in A : \A m \in A : m <= n
    BY <2>1
  <2>3. ASSUME NEW i \in (n + 1)..N PROVE ~log[i].ended
    BY <1>1, <2>2
  <2> QED
    BY <2>2, <2>3
<1>3. k \in 0..N
  BY <1>2
<1>4. Ended = SubSeq(log, 1, k)
  BY DEF Ended
<1> HIDE DEF k
<1>5. k \in Nat /\ k <= Len(log)
  BY <1>1, <1>3
<1>6. /\ SubSeq(log, 1, k) \in Seq(Piece) /\ Len(SubSeq(log, 1, k)) = k
      /\ \A i \in 1..k : SubSeq(log, 1, k)[i] = log[i]
  BY <1>1, <1>5
<1> QED
  BY <1>4, <1>5, <1>6

-----------------------------------------------------------------------------
(* A plan *)

LEMMA SelectedIs ==
    ASSUME log \in Seq(Piece), Distinct(log)
    PROVE  \E N \in Nat :
              /\ DOMAIN Selected = 1..N
              /\ \A n \in 1..N : Selected[n] \in Misfiled
              /\ \A m, n \in 1..N : Selected[m] = Selected[n] => m = n
<1> DEFINE P == {i \in DOMAIN log : log[i].text.kind = "observation" /\ log[i].text.of \in Misfiled}
           N == Cardinality(P)
           HasRank(i, n) == Cardinality({j \in P : j <= i}) = n
           At(n) == CHOOSE i \in P : HasRank(i, n)
<1>1. Len(log) \in Nat /\ DOMAIN log = 1..Len(log)
  BY LogElements
<1>2. IsFiniteSet(P) /\ \A i \in P : i \in Nat
  <2>1. IsFiniteSet(1..Len(log)) /\ P \in SUBSET (1..Len(log))
    BY <1>1, FS_Interval
  <2> QED
    BY <1>1, <2>1, FS_Subset
<1>3. N \in Nat
  BY <1>2, FS_CardinalityType
<1>4. Selected = [n \in 1..N |-> log[At(n)].text.of]
  BY DEF Selected
<1>5. \A i \in P : i \in DOMAIN log /\ log[i].text.kind = "observation" /\ log[i].text.of \in Misfiled
  OBVIOUS
<1> HIDE DEF P
<1>6. ASSUME NEW n \in 1..N PROVE At(n) \in P /\ HasRank(At(n), n)
  <2>1. \E i \in P : HasRank(i, n)
    BY <1>2, EveryRank
  <2> HIDE DEF HasRank
  <2> QED
    BY <2>1
<1> HIDE DEF At, HasRank
<1>7. ASSUME NEW m \in 1..N, NEW n \in 1..N, Selected[m] = Selected[n] PROVE m = n
  <2>1. At(m) \in P /\ At(n) \in P /\ log[At(m)].text.of = log[At(n)].text.of
    BY <1>4, <1>6, <1>7
  <2>2. log[At(m)].text \in Text /\ log[At(n)].text \in Text
    BY <1>1, <1>5, <2>1, LogElements
  <2>3. log[At(m)].text = log[At(n)].text
    BY <1>5, <2>1, <2>2, TextKinds, TextForms
  <2>4. At(m) = At(n)
    BY <1>5, <2>1, <2>3 DEF Distinct
  <2>5. HasRank(At(n), m) /\ HasRank(At(n), n)
    BY <1>6, <2>4
  <2> QED
    BY <2>5 DEF HasRank
<1>8. ASSUME NEW n \in 1..N PROVE Selected[n] \in Misfiled
  BY <1>4, <1>5, <1>6
<1>9. DOMAIN Selected = 1..N
  BY <1>4
<1> QED
  BY <1>3, <1>7, <1>8, <1>9

LEMMA AdditionsType ==
    ASSUME log \in Seq(Piece), NEW r \in Observation, NEW a \in Attribution
    PROVE  Additions(r, a) \in Seq(CorrectionText)
<1>1. Refiled(r, a) \in CorrectionText /\ \A b \in Attribution : Retracted(r, b) \in CorrectionText
  BY DEF CorrectionText
<1>2. ASSUME Begun(r) # {} PROVE (CHOOSE b \in By(Begun(r)) : TRUE) \in Attribution
  <2>1. By(Begun(r)) # {}
    BY <1>2 DEF By
  <2>2. \A i \in Begun(r) : i \in 1..Len(log) /\ log[i].text.kind = "refiled"
    BY LogElements DEF Begun, Corrections
  <2>3. \A i \in Begun(r) : log[i].text.by \in Attribution
    BY <2>2, LogElements, TextKinds
  <2> QED
    BY <2>1, <2>3 DEF By
<1>3. Completion(r, a) = <<Retracted(r, CHOOSE b \in By(Begun(r)) : TRUE)>>
  BY DEF Completion
<1>4. <<Refiled(r, a), Retracted(r, a)>> \in Seq(CorrectionText)
  BY <1>1
<1>5. Begun(r) # {} => Completion(r, a) \in Seq(CorrectionText)
  BY <1>1, <1>2, <1>3
<1>6. <<>> \in Seq(CorrectionText)
  OBVIOUS
<1> QED
  BY <1>4, <1>5, <1>6 DEF Additions

\* What a plan that is not refused adds for one record, to a log all of which reads.
LEMMA AdditionsOf ==
    ASSUME log \in Seq(Piece), Intact, NEW r \in Observation, NEW a \in Attribution,
           ~Foreign(r, a.decision)
    PROVE  \/ Additions(r, a) = <<>>
           \/ \E b \in Attribution :
                 /\ Additions(r, a) = <<Retracted(r, b)>>
                 /\ \E k \in 1..Len(log) : Texts(log)[k] = Refiled(r, b)
                 /\ \A i \in 1..Len(log) : ~(Texts(log)[i].kind = "retracted" /\ Texts(log)[i].of = r)
           \/ /\ Additions(r, a) = <<Refiled(r, a), Retracted(r, a)>>
              /\ \A i \in 1..Len(log) :
                    ~(Texts(log)[i].kind \in {"refiled", "retracted"} /\ Texts(log)[i].of = r)
<1>1. /\ Len(log) \in Nat /\ DOMAIN log = 1..Len(log)
      /\ \A i \in 1..Len(log) : log[i].text \in Text
  BY LogElements
<1>2. \A i \in 1..Len(log) : Texts(log)[i] = log[i].text
  BY TextsOf
<1>3. \A i \in 1..Len(log) : log[i].ended /\ Clean(log, 0, i)
  <2> SUFFICES ASSUME NEW i \in 1..Len(log)
               PROVE  log[i].ended /\ Clean(log, 0, i)
    OBVIOUS
  <2>1. \A j \in 1..Len(log) : log[j].ended /\ log[j].text # Torn
    BY <1>1 DEF Intact
  <2>2. i > 1 => i - 1 \in 1..Len(log)
    BY <1>1
  <2> QED
    BY <2>1, <2>2 DEF Clean
<1>4. /\ Begun(r) = {i \in 1..Len(log) : log[i].text.kind = "refiled" /\ log[i].text.of = r}
      /\ Closed(r) = {i \in 1..Len(log) : log[i].text.kind = "retracted" /\ log[i].text.of = r}
  BY <1>1, <1>3 DEF Begun, Closed, Corrections
<1>5. CASE Completed(r) # {}
  BY <1>5 DEF Additions
<1>6. CASE Completed(r) = {} /\ Begun(r) # {}
  <2>1. PICK i \in Begun(r) : Closed(r) = {} /\ Begun(r) = {i}
    BY <1>6 DEF Foreign, Resumable
  <2>2. i \in 1..Len(log) /\ log[i].text = Refiled(r, log[i].text.by) /\ log[i].text.by \in Attribution
    BY <1>1, <1>4, <2>1, TextKinds
  <2>3. By(Begun(r)) = {log[i].text.by}
    BY <2>1 DEF By
  <2>4. Additions(r, a) = <<Retracted(r, log[i].text.by)>>
    BY <1>6, <2>3 DEF Additions, Completion
  <2>5. \A k \in 1..Len(log) : ~(log[k].text.kind = "retracted" /\ log[k].text.of = r)
    BY <1>4, <2>1
  <2> QED
    BY <1>2, <2>2, <2>4, <2>5
<1>7. CASE Completed(r) = {} /\ Begun(r) = {}
  <2>1. Closed(r) = {}
    BY <1>7 DEF Foreign, Resumable
  <2>2. Additions(r, a) = <<Refiled(r, a), Retracted(r, a)>>
    BY <1>7 DEF Additions
  <2> QED
    BY <1>2, <1>4, <1>7, <2>1, <2>2
<1> QED
  BY <1>5, <1>6, <1>7

LEMMA GoodWithNext ==
    ASSUME NEW T \in Seq(Text), NEW R \in Seq(Text), NEW h \in Text, Good(T \o R, Len(T) + Len(R)),
           \A i \in 1..Len(T) : ~(T[i].kind = h.kind /\ T[i].of = h.of),
           \A i \in 1..Len(R) : ~(R[i].kind = h.kind /\ R[i].of = h.of),
           h.kind = "retracted" => \/ \E k \in 1..Len(T) : T[k] = Refiled(h.of, h.by)
                                   \/ \E k \in 1..Len(R) : R[k] = Refiled(h.of, h.by)
    PROVE  /\ Append(R, h) \in Seq(Text) /\ Len(Append(R, h)) = Len(R) + 1
           /\ Good(T \o Append(R, h), Len(T) + Len(Append(R, h)))
<1> DEFINE t == Len(T)
           n == t + Len(R)
           P == Append(R, h)
           A == T \o R
           B == T \o P
<1>1. t \in Nat /\ Len(R) \in Nat /\ n \in Nat
  OBVIOUS
<1>2. P \in Seq(Text) /\ Len(P) = Len(R) + 1
  OBVIOUS
<1>3. P[Len(R) + 1] = h /\ \A i \in 1..Len(R) : P[i] = R[i]
  OBVIOUS
<1>4. \A i \in 1..n : A[i] = IF i <= t THEN T[i] ELSE R[i - t]
  OBVIOUS
<1> HIDE DEF P
<1>5. \A i \in 1..(t + Len(P)) : B[i] = IF i <= t THEN T[i] ELSE P[i - t]
  BY <1>2
<1>6. t + Len(P) = n + 1
  BY <1>1, <1>2
<1>7. Good(A, n)
  OBVIOUS
<1>8. n = t + Len(R)
  OBVIOUS
<1> HIDE DEF t, n, A, B
<1>9. B[n + 1] = h
  <2>1. n + 1 \in 1..(t + Len(P)) /\ ~(n + 1 <= t) /\ (n + 1) - t = Len(R) + 1
    BY <1>1, <1>6, <1>8
  <2> QED
    BY <1>3, <1>5, <2>1
<1>10. \A i \in 1..n : /\ B[i] = A[i]
                       /\ i <= t => B[i] = T[i] /\ i \in 1..t
                       /\ i > t => B[i] = R[i - t] /\ i - t \in 1..Len(R)
  <2> SUFFICES ASSUME NEW i \in 1..n
               PROVE  /\ B[i] = A[i]
                      /\ i <= t => B[i] = T[i] /\ i \in 1..t
                      /\ i > t => B[i] = R[i - t] /\ i - t \in 1..Len(R)
    OBVIOUS
  <2>1. i \in 1..(t + Len(P)) /\ (i <= t => i \in 1..t) /\ (i > t => i - t \in 1..Len(R) /\ ~(i <= t))
    BY <1>1, <1>6, <1>8
  <2>2. CASE i <= t
    BY <1>4, <1>5, <2>1, <2>2
  <2>3. CASE i > t
    BY <1>3, <1>4, <1>5, <2>1, <2>3
  <2> QED
    BY <1>1, <2>2, <2>3
<1>11. \A i \in 1..n : ~(B[i].kind = h.kind /\ B[i].of = h.of)
  <2>1. \A i \in 1..n : i <= t \/ i > t
    BY <1>1
  <2> QED
    BY <1>10, <2>1 DEF t
<1>12. h.kind = "retracted" => \E k \in 1..n : B[k] = Refiled(h.of, h.by)
  <2>1. ASSUME NEW k \in 1..t, T[k] = Refiled(h.of, h.by) PROVE k \in 1..n /\ B[k] = T[k]
    <3>1. k \in 1..n /\ k <= t
      BY <1>1, <1>8
    <3> QED
      BY <1>10, <3>1
  <2>2. ASSUME NEW k \in 1..Len(R), R[k] = Refiled(h.of, h.by) PROVE k + t \in 1..n /\ B[k + t] = R[k]
    <3>1. k + t \in 1..n /\ k + t > t /\ (k + t) - t = k
      BY <1>1, <1>8
    <3> QED
      BY <1>10, <3>1
  <2> QED
    BY <2>1, <2>2 DEF t
<1>13. Good(B, n)
  <2>1. n <= n
    BY <1>1
  <2> QED
    BY <1>1, <1>7, <1>10, <2>1, GoodBeginning
<1>14. Good(B, n + 1)
  BY <1>1, <1>9, <1>11, <1>12, <1>13, GoodWithHalf
<1> QED
  BY <1>2, <1>6, <1>14 DEF B, P, t

\* The additions for one more record, on top of those for others.
LEMMA AdditionsStand ==
    ASSUME log \in Seq(Piece), Intact, NEW r \in Observation, NEW a \in Attribution,
           ~Foreign(r, a.decision), NEW R \in Seq(CorrectionText),
           Good(Texts(log) \o R, Len(log) + Len(R)), \A j \in 1..Len(R) : R[j].of # r
    PROVE  /\ R \o Additions(r, a) \in Seq(CorrectionText)
           /\ Good(Texts(log) \o (R \o Additions(r, a)), Len(log) + Len(R \o Additions(r, a)))
           /\ \A j \in 1..Len(R \o Additions(r, a)) :
                 \/ (R \o Additions(r, a))[j].of = r
                 \/ \E i \in 1..Len(R) : (R \o Additions(r, a))[j] = R[i]
<1> DEFINE T == Texts(log)
<1>1. T \in Seq(Text) /\ Len(T) = Len(log) /\ R \in Seq(Text)
  <2>1. CorrectionText \subseteq Text
    BY CorrectionKinds
  <2> QED
    BY <2>1, TextsOf
<1>2. Good(T \o R, Len(T) + Len(R))
  BY <1>1
<1>3. Additions(r, a) \in Seq(CorrectionText)
  BY AdditionsType
<1>4. R \o Additions(r, a) \in Seq(CorrectionText)
  BY <1>3
<1> HIDE DEF T
<1>5. CASE Additions(r, a) = <<>>
  <2>1. R \o Additions(r, a) = R
    BY <1>5
  <2> QED
    BY <1>1, <1>2, <1>4, <2>1 DEF T
<1>6. ASSUME NEW b \in Attribution, Additions(r, a) = <<Retracted(r, b)>>,
             \E k \in 1..Len(T) : T[k] = Refiled(r, b),
             \A i \in 1..Len(T) : ~(T[i].kind = "retracted" /\ T[i].of = r)
      PROVE  /\ Good(T \o (R \o Additions(r, a)), Len(log) + Len(R \o Additions(r, a)))
             /\ \A j \in 1..Len(R \o Additions(r, a)) :
                   \/ (R \o Additions(r, a))[j].of = r
                   \/ \E i \in 1..Len(R) : (R \o Additions(r, a))[j] = R[i]
  <2> DEFINE h == Retracted(r, b)
  <2>1. h \in Text /\ h.kind = "retracted" /\ h.of = r /\ h.by = b
    BY TextForms DEF Text, CorrectionText
  <2> HIDE DEF h
  <2>2. R \o Additions(r, a) = Append(R, h)
    BY <1>6 DEF h
  <2>3. /\ Len(Append(R, h)) = Len(R) + 1
        /\ Good(T \o Append(R, h), Len(T) + Len(Append(R, h)))
    BY <1>1, <1>2, <1>6, <2>1, GoodWithNext
  <2>4. \A j \in 1..(Len(R) + 1) : Append(R, h)[j] = IF j = Len(R) + 1 THEN h ELSE R[j]
    OBVIOUS
  <2>5. \A j \in 1..(Len(R) + 1) : j = Len(R) + 1 \/ j \in 1..Len(R)
    OBVIOUS
  <2> QED
    BY <1>1, <2>1, <2>2, <2>3, <2>4, <2>5
<1>7. ASSUME Additions(r, a) = <<Refiled(r, a), Retracted(r, a)>>,
             \A i \in 1..Len(T) : ~(T[i].kind \in {"refiled", "retracted"} /\ T[i].of = r)
      PROVE  /\ Good(T \o (R \o Additions(r, a)), Len(log) + Len(R \o Additions(r, a)))
             /\ \A j \in 1..Len(R \o Additions(r, a)) :
                   \/ (R \o Additions(r, a))[j].of = r
                   \/ \E i \in 1..Len(R) : (R \o Additions(r, a))[j] = R[i]
  <2> DEFINE g == Refiled(r, a)
             h == Retracted(r, a)
             Q == Append(R, g)
  <2>1. /\ g \in Text /\ g.kind = "refiled" /\ g.of = r
        /\ h \in Text /\ h.kind = "retracted" /\ h.of = r /\ h.by = a
        /\ g = Refiled(h.of, h.by)
    BY TextForms DEF Text, CorrectionText
  <2> HIDE DEF g, h
  <2>2. R \o Additions(r, a) = Append(Q, h)
    BY <1>7 DEF g, h
  <2>3. \A j \in 1..(Len(R) + 1) : Q[j] = IF j = Len(R) + 1 THEN g ELSE R[j]
    OBVIOUS
  <2>4. Len(R) + 1 \in 1..(Len(R) + 1) /\ \A j \in 1..(Len(R) + 1) : j = Len(R) + 1 \/ j \in 1..Len(R)
    OBVIOUS
  <2>5. /\ Q \in Seq(Text) /\ Len(Q) = Len(R) + 1
        /\ Good(T \o Q, Len(T) + Len(Q))
    <3>1. \A i \in 1..Len(T) : ~(T[i].kind = g.kind /\ T[i].of = g.of)
      BY <1>7, <2>1
    <3>2. \A i \in 1..Len(R) : ~(R[i].kind = g.kind /\ R[i].of = g.of)
      BY <2>1
    <3> QED
      BY <1>1, <1>2, <2>1, <3>1, <3>2, GoodWithNext
  <2> HIDE DEF Q
  <2>6. /\ Len(Append(Q, h)) = Len(Q) + 1
        /\ Good(T \o Append(Q, h), Len(T) + Len(Append(Q, h)))
    <3>1. \A i \in 1..Len(T) : ~(T[i].kind = h.kind /\ T[i].of = h.of)
      BY <1>7, <2>1
    <3>2. \A i \in 1..Len(Q) : ~(Q[i].kind = h.kind /\ Q[i].of = h.of)
      BY <2>1, <2>3, <2>4, <2>5
    <3>3. \E k \in 1..Len(Q) : Q[k] = Refiled(h.of, h.by)
      BY <2>1, <2>3, <2>4, <2>5
    <3> QED
      BY <1>1, <2>1, <2>5, <3>1, <3>2, <3>3, GoodWithNext
  <2>7. \A j \in 1..(Len(Q) + 1) : Append(Q, h)[j] = IF j = Len(Q) + 1 THEN h ELSE Q[j]
    BY <2>5
  <2>8. \A j \in 1..(Len(Q) + 1) : j = Len(Q) + 1 \/ j \in 1..Len(Q)
    BY <2>5
  <2>9. \A j \in 1..(Len(Q) + 1) : Append(Q, h)[j].of = r \/ \E i \in 1..Len(R) : Append(Q, h)[j] = R[i]
    BY <2>1, <2>3, <2>4, <2>5, <2>7, <2>8
  <2> QED
    BY <1>1, <2>2, <2>6, <2>9
<1>8. \/ Additions(r, a) = <<>>
      \/ \E b \in Attribution :
            /\ Additions(r, a) = <<Retracted(r, b)>>
            /\ \E k \in 1..Len(T) : T[k] = Refiled(r, b)
            /\ \A i \in 1..Len(T) : ~(T[i].kind = "retracted" /\ T[i].of = r)
      \/ /\ Additions(r, a) = <<Refiled(r, a), Retracted(r, a)>>
         /\ \A i \in 1..Len(T) : ~(T[i].kind \in {"refiled", "retracted"} /\ T[i].of = r)
  BY <1>1, AdditionsOf DEF T
<1>9. CASE Additions(r, a) # <<>>
  BY <1>6, <1>7, <1>8, <1>9, <1>4 DEF T
<1> QED
  BY <1>5, <1>9

-----------------------------------------------------------------------------
(* FlattenSeq: its recursive function exists, so that it is what its equation says *)

Flattens(f, s, n) == f = [i \in 1..n |-> IF i = 1 THEN s[i] ELSE f[i - 1] \o s[i]]

LEMMA FlatteningExists ==
    ASSUME NEW s, NEW N \in Nat
    PROVE  \E f : Flattens(f, s, N)
<1> DEFINE A == {n \in Nat : ~\E f : Flattens(f, s, n)}
<1> SUFFICES ASSUME A # {} PROVE FALSE
  OBVIOUS
<1>1. PICK n \in A : \A m \in A : n <= m
  BY LeastNumber
<1>2. n \in Nat /\ ~\E f : Flattens(f, s, n)
  BY <1>1
<1>3. CASE n = 0
  <2>1. Flattens([i \in 1..0 |-> s], s, 0)
    BY DEF Flattens
  <2> QED
    BY <1>2, <1>3, <2>1
<1>4. CASE n > 0
  <2>1. n - 1 \in Nat /\ n - 1 \notin A
    BY <1>1, <1>2, <1>4
  <2>2. PICK f : Flattens(f, s, n - 1)
    BY <2>1
  <2> DEFINE g == [i \in 1..n |-> IF i = 1 THEN s[i] ELSE f[i - 1] \o s[i]]
  <2>3. \A i \in 1..(n - 1) : f[i] = IF i = 1 THEN s[i] ELSE f[i - 1] \o s[i]
    BY <2>2 DEF Flattens
  <2>4. \A i \in 1..n : g[i] = IF i = 1 THEN s[i] ELSE f[i - 1] \o s[i]
    OBVIOUS
  <2>5. DOMAIN g = 1..n
    OBVIOUS
  <2> HIDE DEF g
  <2>6. \A i \in 1..(n - 1) : g[i] = f[i] /\ i \in 1..n
    BY <1>2, <2>3, <2>4
  <2>7. \A i \in 1..n : i # 1 => i - 1 \in 1..(n - 1)
    BY <1>2
  <2>8. \A i \in 1..n : i # 1 => g[i - 1] = f[i - 1]
    BY <2>6, <2>7
  <2>9. g = [i \in 1..n |-> IF i = 1 THEN s[i] ELSE g[i - 1] \o s[i]]
    BY <2>8 DEF g
  <2> QED
    BY <1>2, <2>9 DEF Flattens
<1> QED
  BY <1>2, <1>3, <1>4

LEMMA FlattenIs ==
    ASSUME NEW s, NEW N \in Nat \ {0}, Len(s) = N
    PROVE  \E f : Flattens(f, s, N) /\ FlattenSeq(s) = f[N]
<1> DEFINE f == CHOOSE f : Flattens(f, s, N)
<1>1. \E g : Flattens(g, s, N)
  BY FlatteningExists
<1>2. Flattens(f, s, N)
  BY <1>1
<1>3. FlattenSeq(s) = f[N]
  BY DEF FlattenSeq, Flattens
<1> QED
  BY <1>2, <1>3

\* A plan for a log that reads: all additions in their order.
LEMMA PlannedStands ==
    ASSUME StandInv, Reads(log, 0), NEW a \in Attribution,
           \A i \in DOMAIN Selected : ~Foreign(Selected[i], a.decision),
           NEW s, s = [i \in DOMAIN Selected |-> Additions(Selected[i], a)]
    PROVE  /\ FlattenSeq(s) \in Seq(CorrectionText)
           /\ Intact => Good(Texts(log) \o FlattenSeq(s), Len(log) + Len(FlattenSeq(s)))
<1> DEFINE T == Texts(log)
           Fine(R) == R \in Seq(CorrectionText) /\ (Intact => Good(T \o R, Len(log) + Len(R)))
           Of(R, n) == Intact => \A j \in 1..Len(R) : \E m \in 1..n : R[j].of = Selected[m]
<1>1. log \in Seq(Piece) /\ Distinct(log) /\ Len(log) \in Nat
  BY DEF StandInv, LogType
<1>2. PICK N \in Nat :
         /\ DOMAIN Selected = 1..N
         /\ \A n \in 1..N : Selected[n] \in Misfiled
         /\ \A m, n \in 1..N : Selected[m] = Selected[n] => m = n
  BY <1>1, SelectedIs
<1>3. \A i \in 1..N : /\ Selected[i] \in Observation /\ s[i] = Additions(Selected[i], a)
                      /\ ~Foreign(Selected[i], a.decision)
  BY <1>2, ObservationAssumption
<1>4. \A i \in 1..N : s[i] \in Seq(CorrectionText)
  BY <1>1, <1>3, AdditionsType
<1>5. s \in Seq(Seq(CorrectionText)) /\ Len(s) = N
  <2>1. s \in [1..N -> Seq(CorrectionText)]
    BY <1>2, <1>4
  <2> QED
    BY <2>1
<1>6. T \in Seq(Text) /\ Len(T) = Len(log) /\ T \o <<>> = T
  BY <1>1, TextsOf
<1>7. Fine(<<>>)
  <2>1. Good(T, Len(log))
    <3>1. Sound(log, Len(log))
      BY <1>1, ReadsAll
    <3> QED
      BY <1>1, <3>1 DEF StandInv, BeginningsStand
  <2>2. Len(<<>>) = 0 /\ Len(log) + 0 = Len(log)
    BY <1>1
  <2>3. Good(T \o <<>>, Len(log) + Len(<<>>))
    BY <1>6, <2>1, <2>2
  <2> QED
    BY <2>3
<1> HIDE DEF T
<1>8. ASSUME NEW n \in 0..(N - 1), NEW R, Fine(R), Of(R, n)
      PROVE  Fine(R \o s[n + 1]) /\ Of(R \o s[n + 1], n + 1)
  <2> DEFINE r == Selected[n + 1]
             Q == R \o s[n + 1]
  <2>1. n + 1 \in 1..N /\ \A m \in 1..n : m \in 1..N /\ m # n + 1 /\ m \in 1..(n + 1)
    BY <1>2
  <2>2. s[n + 1] = Additions(r, a) /\ r \in Observation /\ ~Foreign(r, a.decision)
    BY <1>3, <2>1
  <2>3. R \in Seq(CorrectionText) /\ s[n + 1] \in Seq(CorrectionText)
    BY <1>4, <1>8, <2>1
  <2>4. Q \in Seq(CorrectionText)
    BY <2>3
  <2>5. ASSUME Intact
        PROVE  Good(T \o Q, Len(log) + Len(Q)) /\ \A j \in 1..Len(Q) : \E m \in 1..(n + 1) : Q[j].of = Selected[m]
    <3>1. \A j \in 1..Len(R) : \E m \in 1..n : R[j].of = Selected[m]
      BY <1>8, <2>5
    <3>2. \A j \in 1..Len(R) : R[j].of # r
      BY <1>2, <2>1, <3>1
    <3>3. Good(T \o R, Len(log) + Len(R))
      BY <1>8, <2>5
    <3>0. Q = R \o Additions(r, a)
      BY <2>2
    <3> HIDE DEF r, Q
    <3>4. /\ Good(T \o Q, Len(log) + Len(Q))
          /\ \A j \in 1..Len(Q) : Q[j].of = r \/ \E i \in 1..Len(R) : Q[j] = R[i]
      BY <1>1, <2>2, <2>3, <2>5, <3>0, <3>2, <3>3, AdditionsStand DEF T
    <3>5. n + 1 \in 1..(n + 1)
      OBVIOUS
    <3>6. ASSUME NEW j \in 1..Len(Q) PROVE \E m \in 1..(n + 1) : Q[j].of = Selected[m]
      <4>1. CASE Q[j].of = r
        BY <3>5, <4>1 DEF r
      <4>2. ASSUME NEW i \in 1..Len(R), Q[j] = R[i] PROVE \E m \in 1..(n + 1) : Q[j].of = Selected[m]
        BY <2>1, <3>1, <4>2
      <4> QED
        BY <3>4, <4>1, <4>2
    <3> QED
      BY <3>4, <3>6
  <2> QED
    BY <2>4, <2>5
<1>9. CASE N = 0
  <2>1. FlattenSeq(s) = <<>>
    <3>1. Len(s) = 0
      BY <1>5, <1>9
    <3>2. FlattenSeq(s) = s
      BY <3>1 DEF FlattenSeq
    <3>3. s = <<>>
      BY <1>5, <3>1
    <3> QED
      BY <3>2, <3>3
  <2> QED
    BY <1>7, <2>1 DEF T
<1>10. CASE N # 0
  <2>1. PICK f : Flattens(f, s, N) /\ FlattenSeq(s) = f[N]
    BY <1>2, <1>5, <1>10, FlattenIs
  <2>2. \A i \in 1..N : f[i] = IF i = 1 THEN s[i] ELSE f[i - 1] \o s[i]
    BY <2>1 DEF Flattens
  <2> HIDE DEF Fine, Of
  <2> DEFINE A == {i \in 1..N : ~(Fine(f[i]) /\ Of(f[i], i))}
  <2>3. A = {}
    <3> SUFFICES ASSUME A # {} PROVE FALSE
      OBVIOUS
    <3>1. PICK i \in A : \A m \in A : i <= m
      <4>1. \A x \in A : x \in Nat
        BY <1>2
      <4> HIDE DEF A
      <4> QED
        BY <4>1, LeastNumber
    <3>2. i \in 1..N /\ ~(Fine(f[i]) /\ Of(f[i], i)) /\ \A j \in 1..N : j < i => Fine(f[j]) /\ Of(f[j], j)
      <4>1. \A m \in 1..N : m < i => m \notin A
        BY <1>2, <3>1
      <4> QED
        BY <3>1, <4>1
    <3> HIDE DEF A
    <3>3. CASE i = 1
      <4>1. Of(<<>>, 0) /\ 0 \in 0..(N - 1) /\ 0 + 1 = 1
        BY <1>2, <1>10 DEF Of, Fine
      <4>2. Fine(<<>> \o s[1]) /\ Of(<<>> \o s[1], 1)
        BY <1>7, <1>8, <4>1
      <4>3. <<>> \o s[1] = s[1] /\ f[1] = s[1]
        BY <1>4, <2>2, <3>2, <3>3
      <4> QED
        BY <3>2, <3>3, <4>2, <4>3
    <3>4. CASE i # 1
      <4>1. /\ i - 1 \in 1..N /\ i - 1 < i /\ i - 1 \in 0..(N - 1) /\ (i - 1) + 1 = i
        BY <1>2, <3>2, <3>4
      <4>2. Fine(f[i - 1] \o s[i]) /\ Of(f[i - 1] \o s[i], i)
        BY <1>8, <3>2, <4>1
      <4>3. f[i] = f[i - 1] \o s[i]
        BY <2>2, <3>2, <3>4
      <4> QED
        BY <3>2, <4>2, <4>3
    <3> QED
      BY <3>3, <3>4
  <2>4. N \in 1..N
    BY <1>2, <1>10
  <2>5. Fine(f[N])
    BY <2>3, <2>4
  <2> QED
    BY <2>1, <2>5 DEF Fine, T
<1> QED
  BY <1>9, <1>10

LEMMA PlansStand ==
    ASSUME StandInv, Plan
    PROVE  StandInv'
<1>1. log' = log /\ runs' = runs /\ command.step = "plan" /\ log \in Seq(Piece) /\ runs \in Nat
  BY DEF Plan, StandInv, LogType
<1>2. command.by \in Attribution
  BY <1>1 DEF StandInv, LogType, CommandShape, Idle
<1>3. LogType' /\ PlanStands' /\ BodyIsPrefix'
  <2>1. CASE command' = Idle
    BY <1>1, <2>1 DEF LogType, CommandShape, PlanStands, BodyIsPrefix, Idle
  <2>2. CASE command' # Idle
    <3> DEFINE s == [i \in DOMAIN Selected |-> Additions(Selected[i], command.by)]
               F == FlattenSeq(s)
    <3>1. /\ Reads(log, 0) /\ \A i \in DOMAIN Selected : ~Foreign(Selected[i], command.by.decision)
          /\ command' = [step |-> "apply", size |-> Len(log), through |-> LastCorrection, rest |-> F]
      BY <2>2 DEF Plan
    <3> HIDE DEF F
    <3>2. /\ command'.step = "apply" /\ command'.rest = F
          /\ command' = [step |-> "apply", size |-> command'.size, through |-> command'.through,
                         rest |-> command'.rest]
      BY <3>1
    <3>3. F \in Seq(CorrectionText) /\ (Intact => Good(Texts(log) \o F, Len(log) + Len(F)))
      BY <1>2, <3>1, PlannedStands DEF F
    <3>4. Intact' <=> Intact
      BY <1>1 DEF Intact
    <3>5. PlanStands'
      BY <1>1, <3>2, <3>3, <3>4 DEF PlanStands
    <3> QED
      BY <1>1, <3>2, <3>5 DEF LogType, CommandShape, BodyIsPrefix
  <2> QED
    BY <2>1, <2>2
<1>4. Distinct(log') /\ BeginningsStand(log')
  BY <1>1 DEF StandInv
<1> QED
  BY <1>3, <1>4 DEF StandInv

LEMMA BackingUp ==
    ASSUME CommandShape, command.step = "back up"
    PROVE  command = [step |-> "back up", body |-> command.body]
<1>1. command # Idle
  <2>1. Idle.step = "idle"
    BY DEF Idle
  <2>2. command = Idle => command.step = "idle"
    BY <2>1
  <2> QED
    BY <2>2
<1>2. command.step \notin {"plan", "apply", "append", "rewrite"}
  OBVIOUS
<1> QED
  BY <1>1, <1>2, Zenon DEF CommandShape

\* Every other step leaves the log alone, and the command's promise with it.
LEMMA CommandsStand ==
    ASSUME StandInv, log' = log,
           \/ command' = command /\ runs' = runs
           \/ command' = Idle /\ runs' = runs
           \/ \E d \in Decision : BeginReattribute(d)
           \/ Confirm \/ ReadForRepair \/ WriteBackup
    PROVE  StandInv'
<1>1. Distinct(log') /\ BeginningsStand(log') /\ log' \in Seq(Piece) /\ runs \in Nat
  BY DEF StandInv, LogType
<1>2. Intact' <=> Intact
  BY DEF Intact
<1>3. CASE command' = command /\ runs' = runs
  BY <1>1, <1>2, <1>3 DEF StandInv, LogType, CommandShape, PlanStands, BodyIsPrefix
<1>4. CASE command' = Idle /\ runs' = runs
  BY <1>1, <1>4 DEF StandInv, LogType, CommandShape, PlanStands, BodyIsPrefix, Idle
<1>5. ASSUME NEW d \in Decision, BeginReattribute(d) PROVE StandInv'
  <2>1. runs' \in Nat /\ command' = [step |-> "plan", by |-> [decision |-> d, run |-> runs']]
    BY <1>1, <1>5 DEF BeginReattribute
  <2>2. [decision |-> d, run |-> runs'] \in Attribution
    BY <2>1 DEF Attribution
  <2> QED
    BY <1>1, <2>1, <2>2 DEF StandInv, LogType, CommandShape, PlanStands, BodyIsPrefix
<1>6. CASE Confirm /\ command' # Idle
  <2>1. /\ command.step = "apply" /\ command' = [step |-> "append", rest |-> command.rest]
        /\ runs' = runs
    BY <1>6 DEF Confirm
  <2>2. /\ command.rest \in Seq(CorrectionText)
        /\ Intact => Good(Texts(log) \o command.rest, Len(log) + Len(command.rest))
    BY <2>1 DEF StandInv, PlanStands
  <2>3. PlanStands'
    BY <1>2, <2>1, <2>2 DEF PlanStands
  <2> QED
    BY <1>1, <2>1, <2>3 DEF StandInv, LogType, CommandShape, BodyIsPrefix
<1>7. CASE ReadForRepair
  <2>1. command' = [step |-> "back up", body |-> Ended] /\ runs' = runs
    BY <1>7 DEF ReadForRepair
  <2>2. /\ Ended \in Seq(Piece) /\ Len(Ended) <= Len(log)
        /\ \A i \in 1..Len(Ended) : Ended[i] = log[i]
    BY <1>1, EndedIsPrefix
  <2> HIDE DEF Ended
  <2> QED
    BY <1>1, <2>1, <2>2 DEF StandInv, LogType, CommandShape, PlanStands, BodyIsPrefix
<1>8. CASE WriteBackup
  <2>1. /\ command.step = "back up" /\ command' = [command EXCEPT !.step = "rewrite"] /\ runs' = runs
    BY <1>8 DEF WriteBackup
  <2>2. command = [step |-> "back up", body |-> command.body]
    <3>1. command.step = "back up" /\ CommandShape
      BY <2>1 DEF StandInv, LogType
    <3> QED
      BY <3>1, BackingUp
  <2>3. command' = [step |-> "rewrite", body |-> command.body]
    BY <2>1, <2>2
  <2>4. /\ command.body \in Seq(Piece) /\ Len(command.body) <= Len(log)
        /\ \A i \in 1..Len(command.body) : command.body[i] = log[i]
    BY <2>1 DEF StandInv, BodyIsPrefix
  <2> QED
    BY <1>1, <2>1, <2>3, <2>4 DEF StandInv, LogType, CommandShape, PlanStands, BodyIsPrefix
<1> QED
  BY <1>3, <1>4, <1>5, <1>6, <1>7, <1>8 DEF Confirm

-----------------------------------------------------------------------------
(* CorrectionsStand *)

LEMMA StandInit == LogInit => StandInv
<1> SUFFICES ASSUME LogInit PROVE StandInv
  OBVIOUS
<1> DEFINE N == Cardinality(Misfiled)
<1>1. N \in Nat
  BY ObservationAssumption, FS_CardinalityType
<1>2. PICK s \in SetToSeqs(Misfiled) : log = [i \in DOMAIN s |-> [text |-> Observed(s[i]), ended |-> TRUE]]
  BY DEF LogInit
<1>3. s \in [1..N -> Misfiled] /\ \A i, j \in 1..N : i # j => s[i] # s[j]
  BY DEF SetToSeqs
<1>4. log = [i \in 1..N |-> [text |-> Observed(s[i]), ended |-> TRUE]]
  BY <1>2, <1>3
<1> HIDE DEF N
<1>5. \A i \in 1..N : /\ log[i] = [text |-> Observed(s[i]), ended |-> TRUE]
                      /\ s[i] \in Observation
  BY <1>3, <1>4, ObservationAssumption
<1>6. \A i \in 1..N : log[i] \in Piece
  <2>1. \A r \in Observation : [text |-> Observed(r), ended |-> TRUE] \in Piece
    BY DEF Piece, Text
  <2> QED
    BY <1>5, <2>1
<1>7. log \in Seq(Piece) /\ Len(log) = N
  <2>1. log \in [1..N -> Piece]
    BY <1>4, <1>6
  <2> QED
    BY <1>1, <2>1
<1>8. \A i \in 1..N : log[i].text = Observed(s[i]) /\ log[i].text.kind = "observation" /\ log[i].text.of = s[i]
  <2>1. ASSUME NEW i \in 1..N PROVE log[i].text = Observed(s[i])
    <3>1. log[i] = [text |-> Observed(s[i]), ended |-> TRUE]
      BY <1>5
    <3> QED
      BY <3>1
  <2> QED
    BY <2>1, TextForms
<1>9. Distinct(log)
  BY <1>3, <1>4, <1>8 DEF Distinct
<1>10. \A i \in 1..N : Texts(log)[i].kind = "observation"
  BY <1>7, <1>8, TextsOf
<1>11. BeginningsStand(log)
  <2> SUFFICES ASSUME NEW n \in 0..N PROVE Good(Texts(log), n)
    BY <1>7 DEF BeginningsStand
  <2>1. \A i \in 1..n : Texts(log)[i].kind = "observation"
    BY <1>1, <1>10
  <2> QED
    BY <2>1 DEF Good, HalvesInOrder, HalvesOnce
<1> QED
  BY <1>7, <1>9, <1>11 DEF LogInit, StandInv, LogType, CommandShape, PlanStands, BodyIsPrefix, Idle

LEMMA StandNext == StandInv /\ [LogNext]_logVars => StandInv'
<1> SUFFICES ASSUME StandInv, [LogNext]_logVars PROVE StandInv'
  OBVIOUS
<1>1. CASE \E r \in Observation : Capture(r)
  BY <1>1, CapturesStand
<1>2. CASE AppendHalf \/ HalfIsCut
  BY <1>2, HalvesStand
<1>3. CASE Rewrite \/ RewriteIsCut
  BY <1>3, RewritesStand
<1>4. CASE Plan
  BY <1>4, PlansStand
<1>5. CASE Sweeping \/ MoveBackupAside \/ UNCHANGED logVars
  <2>1. log' = log /\ command' = command /\ runs' = runs
    BY <1>5 DEF Sweeping, BeginSweep, Prove, FoldTail, WriteIndex, SweepEnds, MoveBackupAside, logVars
  <2> QED
    BY <2>1, CommandsStand
<1>6. CASE ReattributeEnds \/ RepairIsKilled
  <2>1. log' = log /\ command' = Idle /\ runs' = runs
    BY <1>6 DEF ReattributeEnds, RepairIsKilled
  <2> QED
    BY <2>1, CommandsStand
<1>7. CASE (\E d \in Decision : BeginReattribute(d)) \/ Confirm \/ ReadForRepair \/ WriteBackup
  <2>1. log' = log
    BY <1>7 DEF BeginReattribute, Confirm, ReadForRepair, WriteBackup
  <2> QED
    BY <1>7, <2>1, CommandsStand
<1> QED
  BY <1>1, <1>2, <1>3, <1>4, <1>5, <1>6, <1>7 DEF LogNext, Reattribution, Repair

LEMMA StandHolds == StandInv => CorrectionsStand
<1> SUFFICES ASSUME StandInv, Reads(log, 0),
                    NEW i \in DOMAIN log, NEW j \in DOMAIN log
             PROVE  /\ log[i].text.kind = "retracted" =>
                          \E k \in 1..(i - 1) : log[k].text = Refiled(log[i].text.of, log[i].text.by)
                    /\ (i # j /\ {log[i].text.kind, log[j].text.kind} \subseteq {"refiled", "retracted"}) =>
                          ~(log[i].text.kind = log[j].text.kind /\ log[i].text.of = log[j].text.of)
  BY DEF CorrectionsStand
<1>1. /\ log \in Seq(Piece) /\ Len(log) \in Nat /\ DOMAIN log = 1..Len(log)
      /\ \A k \in 1..Len(log) : Texts(log)[k] = log[k].text
  BY LogElements, TextsOf DEF StandInv, LogType
<1>2. Good(Texts(log), Len(log))
  <2>1. Sound(log, Len(log))
    BY <1>1, ReadsAll
  <2> QED
    BY <1>1, <2>1 DEF StandInv, BeginningsStand
<1>3. \A k \in 1..(i - 1) : k \in 1..Len(log)
  BY <1>1
<1>4. log[i].text.kind = "retracted" =>
         \E k \in 1..(i - 1) : log[k].text = Refiled(log[i].text.of, log[i].text.by)
  BY <1>1, <1>2, <1>3 DEF Good, HalvesInOrder
<1>5. (i # j /\ {log[i].text.kind, log[j].text.kind} \subseteq {"refiled", "retracted"}) =>
         ~(log[i].text.kind = log[j].text.kind /\ log[i].text.of = log[j].text.of)
  BY <1>1, <1>2 DEF Good, HalvesOnce
<1> QED
  BY <1>4, <1>5

\* A log that reads has one correction of a record at most, its re-filed half first and its
\* halves agreeing: whatever is killed, cut off, repaired and resumed by whomever.
THEOREM CorrectionsAlwaysStand == LogSpec => []CorrectionsStand
<1>1. LogInit => StandInv
  BY StandInit
<1>2. StandInv /\ [LogNext]_logVars => StandInv'
  BY StandNext
<1>3. StandInv => CorrectionsStand
  BY StandHolds
<1> QED
  BY <1>1, <1>2, <1>3, PTL DEF LogSpec

-----------------------------------------------------------------------------
(* Views *)

\* A view of a beginning is that of any log that begins so.
LEMMA ViewSame ==
    ASSUME NEW L, NEW M, NEW n \in Nat, \A i \in 1..n : M[i] = L[i], NEW view
    PROVE  Folds(view, L, n) <=> Folds(view, M, n)
<1>1. Sound(L, n) <=> Sound(M, n)
  BY DEF Sound
<1>2. \A kind, r : CorrectedIn(L, n, kind, r) = CorrectedIn(M, n, kind, r)
  BY DEF CorrectedIn
<1>3. \A kind, r : \A i \in CorrectedIn(L, n, kind, r) : M[i] = L[i]
  BY DEF CorrectedIn
<1>4. ASSUME NEW r PROVE CompletedIn(L, n, r) = CompletedIn(M, n, r)
  <2>1. ASSUME NEW kind
        PROVE  {L[i].text.by : i \in CorrectedIn(L, n, kind, r)}
                 = {M[i].text.by : i \in CorrectedIn(M, n, kind, r)}
    BY <1>2, <1>3
  <2> QED
    BY <2>1 DEF CompletedIn
<1>5. ViewOf(L, n) = ViewOf(M, n)
  <2> DEFINE I == {i \in 1..n : L[i].text.kind = "observation"}
             J == {i \in 1..n : M[i].text.kind = "observation"}
  <2>1. I = J /\ \A i \in I : M[i] = L[i]
    OBVIOUS
  <2>2. \A i \in I : /\ L[i].text.of = M[i].text.of
                     /\ CompletedIn(L, n, L[i].text.of) = CompletedIn(M, n, M[i].text.of)
    BY <1>4, <2>1
  <2> HIDE DEF I, J
  <2>3. [i \in I |-> [of |-> L[i].text.of, by |-> CompletedIn(L, n, L[i].text.of)]]
          = [i \in J |-> [of |-> M[i].text.of, by |-> CompletedIn(M, n, M[i].text.of)]]
    BY <2>1, <2>2
  <2> QED
    BY <2>3 DEF ViewOf, I, J
<1> QED
  BY <1>1, <1>5 DEF Folds

\* In a log that reads, the corrections are all those with a newline.
LEMMA CorrectionsOfAll ==
    ASSUME log \in Seq(Piece), Sound(log, Len(log)), NEW r
    PROVE  /\ Begun(r) = CorrectedIn(log, Len(log), "refiled", r)
           /\ Closed(r) = CorrectedIn(log, Len(log), "retracted", r)
           /\ Completed(r) = CompletedIn(log, Len(log), r)
<1>1. DOMAIN log = 1..Len(log)
  BY LogElements
<1>2. \A i \in 1..Len(log) : Clean(log, 0, i)
  BY ReadsAll DEF Reads
<1>3. /\ Begun(r) = CorrectedIn(log, Len(log), "refiled", r)
      /\ Closed(r) = CorrectedIn(log, Len(log), "retracted", r)
  BY <1>1, <1>2 DEF Begun, Closed, Corrections, CorrectedIn
<1>4. Completed(r) = CompletedIn(log, Len(log), r)
  BY <1>3 DEF Completed, By, CompletedIn
<1> QED
  BY <1>3, <1>4

LEMMA ViewOfAll ==
    ASSUME log \in Seq(Piece), Sound(log, Len(log))
    PROVE  View(<<>>, 0) = ViewOf(log, Len(log))
<1>1. \A r : Completed(r) = CompletedIn(log, Len(log), r)
  BY CorrectionsOfAll
<1>2. 0 + 1 = 1 /\ DOMAIN <<>> = {}
  OBVIOUS
<1> DEFINE I == {i \in 1..Len(log) : log[i].text.kind = "observation"}
<1>3. View(<<>>, 0) = [i \in I |-> [of |-> log[i].text.of, by |-> Completed(log[i].text.of)]]
  BY <1>2 DEF View
<1> HIDE DEF I
<1>4. View(<<>>, 0) = [i \in I |-> [of |-> log[i].text.of, by |-> CompletedIn(log, Len(log), log[i].text.of)]]
  BY <1>1, <1>3
<1> QED
  BY <1>4 DEF ViewOf, I

\* The view of a beginning that no correction reaches back into, and that of the rest.
LEMMA ViewGoesOn ==
    ASSUME log \in Seq(Piece), Sound(log, Len(log)),
           NEW start \in 0..Len(log), NoneLater(start), NEW view, Folds(view, log, start)
    PROVE  View(view, start) = View(<<>>, 0)
<1> DEFINE N == Len(log)
           Seen(a, b) == {i \in a..b : log[i].text.kind = "observation"}
           As(i) == [of |-> log[i].text.of, by |-> Completed(log[i].text.of)]
<1>1. N \in Nat /\ start \in Nat /\ start <= N
  BY LogElements
<1>2. \A i \in 1..start : i \in 1..N
  BY <1>1, Within
<1>3. view = ViewOf(log, start)
  <2>1. Sound(log, start)
    BY <1>1, <1>2 DEF Sound
  <2> QED
    BY <2>1 DEF Folds
<1>4. ASSUME NEW r \in Observation PROVE CompletedIn(log, start, r) = Completed(r)
  <2>1. \A i \in Begun(r) \cup Closed(r) : i \in 1..start
    <3>1. \A i \in Begun(r) \cup Closed(r) : i \in 1..N
      BY LogElements DEF Begun, Closed, Corrections
    <3>2. \A i \in Begun(r) \cup Closed(r) : i <= start
      BY <3>1 DEF NoneLater
    <3> QED
      BY <1>1, <3>1, <3>2
  <2>2. /\ CorrectedIn(log, start, "refiled", r) = Begun(r)
        /\ CorrectedIn(log, start, "retracted", r) = Closed(r)
    <3>1. /\ Begun(r) = CorrectedIn(log, N, "refiled", r)
          /\ Closed(r) = CorrectedIn(log, N, "retracted", r)
      BY CorrectionsOfAll
    <3>2. \A kind : CorrectedIn(log, start, kind, r) = {i \in CorrectedIn(log, N, kind, r) : i \in 1..start}
      BY <1>2 DEF CorrectedIn
    <3> QED
      BY <2>1, <3>1, <3>2
  <2> QED
    BY <2>2 DEF CompletedIn, Completed, By
<1>5. \A i \in 1..N : log[i].text.kind = "observation" => log[i].text.of \in Observation
  BY LogElements, TextKinds
<1>6. DOMAIN view = Seen(1, start) /\ \A i \in Seen(1, start) : view[i] = As(i)
  <2>1. \A i \in Seen(1, start) : CompletedIn(log, start, log[i].text.of) = Completed(log[i].text.of)
    BY <1>2, <1>4, <1>5
  <2> QED
    BY <1>3, <2>1 DEF ViewOf
<1>7. View(view, start) = [i \in DOMAIN view \cup Seen(start + 1, N) |->
                              IF i \in Seen(start + 1, N) THEN As(i) ELSE view[i]]
  BY DEF View
<1>8. View(<<>>, 0) = [i \in Seen(1, N) |-> As(i)]
  <2>1. 0 + 1 = 1 /\ DOMAIN <<>> = {}
    OBVIOUS
  <2> QED
    BY <2>1 DEF View
<1> HIDE DEF As
<1>9. Seen(1, start) \cup Seen(start + 1, N) = Seen(1, N)
  <2>1. ASSUME NEW i PROVE i \in 1..N <=> i \in 1..start \/ i \in (start + 1)..N
    BY <1>1
  <2> QED
    BY <2>1
<1> HIDE DEF Seen, N
<1>10. View(view, start) = [i \in Seen(1, N) |-> IF i \in Seen(start + 1, N) THEN As(i) ELSE view[i]]
  BY <1>6, <1>7, <1>9
<1>11. ASSUME NEW i \in Seen(1, N)
       PROVE  (IF i \in Seen(start + 1, N) THEN As(i) ELSE view[i]) = As(i)
  BY <1>6, <1>9
<1> QED
  BY <1>8, <1>10, <1>11

\* LastCorrection is the last.
LEMMA LastIsLast ==
    ASSUME log \in Seq(Piece), NEW n \in Nat, LastCorrection <= n
    PROVE  NoneLater(n)
<1> DEFINE at == UNION {Begun(r) \cup Closed(r) : r \in Observation}
           Highest(k) == \A i \in at : i <= k
<1>1. \A i \in at : i \in 1..Len(log)
  BY LogElements DEF Begun, Closed, Corrections
<1>2. Len(log) \in Nat
  BY LogElements
<1>3. LastCorrection = CHOOSE k \in at \cup {0} : Highest(k)
  BY DEF LastCorrection
<1>4. \A r \in Observation : \A i \in Begun(r) \cup Closed(r) : i \in at
  OBVIOUS
<1> HIDE DEF at
<1>5. \A i \in at : i \in Nat
  BY <1>1
<1>6. \E k \in at \cup {0} : Highest(k)
  <2> DEFINE U == {m \in Nat : Highest(m)}
  <2>1. Len(log) \in U
    BY <1>1, <1>2
  <2>2. \A x \in U : x \in Nat
    OBVIOUS
  <2>3. PICK u \in U : \A m \in U : u <= m
    <3> HIDE DEF U
    <3> QED
      BY <2>1, <2>2, LeastNumber
  <2>4. CASE u \in at \cup {0}
    BY <2>3, <2>4
  <2>5. CASE u \notin at \cup {0}
    <3>1. u - 1 \in Nat /\ ~(u <= u - 1)
      BY <2>3, <2>5
    <3>2. \A i \in at : i <= u - 1
      BY <1>5, <2>3, <2>5
    <3> QED
      BY <2>3, <3>1, <3>2
  <2> QED
    BY <2>4, <2>5
<1> HIDE DEF Highest
<1>7. LastCorrection \in at \cup {0} /\ Highest(LastCorrection)
  BY <1>3, <1>6
<1>8. LastCorrection \in Nat
  BY <1>5, <1>7
<1>9. ASSUME NEW i \in at PROVE i <= n
  <2>1. i <= LastCorrection /\ i \in Nat
    BY <1>5, <1>7 DEF Highest
  <2> QED
    BY <1>8, <2>1
<1> QED
  BY <1>4, <1>9 DEF NoneLater

-----------------------------------------------------------------------------
(* The steps of a sweep, and what goes on beside it *)

LEMMA FoldAgrees ==
    ASSUME StandInv, FoldInv, sweep.step = "fold", Sound(log, Len(log))
    PROVE  View(sweep.view, sweep.start) = View(<<>>, 0)
<1>1. log \in Seq(Piece)
  BY DEF StandInv, LogType
<1>2. CASE sweep.start = 0 /\ sweep.view = <<>>
  BY <1>2
<1>3. CASE sweep.start \in 0..Len(log) /\ NoneLater(sweep.start) /\ Folds(sweep.view, log, sweep.start)
  BY <1>1, <1>3, ViewGoesOn
<1> QED
  BY <1>2, <1>3 DEF FoldInv, FoldStands

LEMMA SweepSteps ==
    ASSUME SweepShape
    PROVE  /\ sweep.step = "fold" => sweep # Idle
           /\ sweep.step = "write" => sweep # Idle
           /\ sweep = Idle => sweep.step = "idle"
<1>1. Idle.step = "idle"
  BY DEF Idle
<1>2. sweep = Idle => sweep.step = "idle"
  BY <1>1
<1> QED
  BY <1>2

\* Nothing that leaves the log, the index and the sweep alone disturbs a fold.
LEMMA FoldsStay ==
    ASSUME log' = log, index' = index, sweep' = sweep, FoldInv, Locked'
    PROVE  FoldInv'
<1>1. IndexShape' /\ SweepShape'
  BY DEF FoldInv, IndexShape, SweepShape
<1>2. \A k : NoneLater(k)' <=> NoneLater(k)
  BY DEF NoneLater, Begun, Closed, Corrections
<1>3. FoldStands' /\ WriteStands'
  BY <1>2 DEF FoldInv, FoldStands, WriteStands
<1> QED
  BY <1>1, <1>3 DEF FoldInv

\* The log changes only where no sweep folds it.
LEMMA FoldsElsewhere ==
    ASSUME index' = index, sweep' = sweep, FoldInv, Locked', sweep.step \notin {"fold", "write"}
    PROVE  FoldInv'
<1>1. IndexShape' /\ SweepShape'
  BY DEF FoldInv, IndexShape, SweepShape
<1>2. FoldStands' /\ WriteStands'
  BY DEF FoldStands, WriteStands
<1> QED
  BY <1>1, <1>2 DEF FoldInv

LEMMA CaptureFolds ==
    ASSUME StandInv, FoldInv, NEW r \in Observation, Capture(r)
    PROVE  FoldInv'
<1>1. /\ index' = index /\ sweep' = sweep /\ command' = command /\ workload' = workload
      /\ log \in Seq(Piece) /\ Len(log) \in Nat
  BY DEF Capture, StandInv, LogType
<1>2. PICK p \in Piece : log' = Append(log, p) /\ p.text \in {Observed(r), Torn}
  <2>1. ASSUME NEW t \in {Observed(r), Torn}
        PROVE  /\ [text |-> t, ended |-> TRUE] \in Piece
               /\ [text |-> t, ended |-> FALSE] \in Piece
    BY DEF Piece, Text
  <2> QED
    BY <2>1 DEF Capture, Put, Cut
<1>3. /\ log' \in Seq(Piece) /\ Len(log') = Len(log) + 1
      /\ \A i \in 1..Len(log) : log'[i] = log[i]
      /\ log'[Len(log) + 1] = p
  BY <1>1, <1>2, LogGrows
<1>4. DOMAIN log = 1..Len(log) /\ DOMAIN log' = 1..(Len(log) + 1)
  BY <1>1, <1>3, LogElements
<1>5. p.text.kind \notin {"refiled", "retracted"}
  BY <1>2, TextForms
<1>6. ASSUME NEW i \in 1..Len(log), Clean(log', 0, i) PROVE Clean(log, 0, i)
  <2>1. i > 1 => i - 1 \in 1..Len(log)
    BY <1>1
  <2>2. i < Len(log) => i < Len(log')
    BY <1>1, <1>3
  <2> QED
    BY <1>3, <1>6, <2>1, <2>2 DEF Clean
<1>7. ASSUME NEW q PROVE Begun(q)' \subseteq Begun(q) /\ Closed(q)' \subseteq Closed(q)
  <2>1. \A i \in 1..(Len(log) + 1) : i \in 1..Len(log) \/ i = Len(log) + 1
    BY <1>1
  <2> QED
    BY <1>3, <1>4, <1>5, <1>6, <2>1 DEF Begun, Closed, Corrections
<1>8. \A k : NoneLater(k) =>
                \A i \in 1..Len(log') : \A q \in Observation : i \in Begun(q)' \cup Closed(q)' => i <= k
  <2> SUFFICES ASSUME NEW k, NoneLater(k)
               PROVE  \A q \in Observation : \A i \in Begun(q)' \cup Closed(q)' : i <= k
    OBVIOUS
  <2>1. \A q \in Observation : \A i \in Begun(q) \cup Closed(q) : i \in 1..Len(log)
    BY <1>4 DEF Begun, Closed, Corrections
  <2>2. \A q \in Observation : \A i \in Begun(q) \cup Closed(q) : i <= k
    BY <2>1 DEF NoneLater
  <2> QED
    BY <1>7, <2>2
<1>9. ASSUME NEW k \in 0..Len(log), NEW view
      PROVE  k \in 0..Len(log') /\ (Folds(view, log, k) <=> Folds(view, log', k))
  <2>1. k \in Nat /\ k <= Len(log)
    BY <1>1
  <2>2. \A i \in 1..k : i \in 1..Len(log)
    BY <1>1, <2>1, Within
  <2>3. \A i \in 1..k : log'[i] = log[i]
    BY <1>3, <2>2
  <2>4. Folds(view, log, k) <=> Folds(view, log', k)
    BY <2>1, <2>3, ViewSame
  <2> QED
    BY <1>1, <1>3, <2>1, <2>4
<1>10. IndexShape' /\ SweepShape' /\ Locked'
  BY <1>1 DEF FoldInv, IndexShape, SweepShape, Locked
<1>11. FoldStands'
  <2> SUFFICES ASSUME sweep.step = "fold", ~(sweep.start = 0 /\ sweep.view = <<>>)
               PROVE  sweep.start \in 0..Len(log') /\ NoneLater(sweep.start)' /\ Folds(sweep.view, log', sweep.start)
    BY <1>1 DEF FoldStands, NoneLater
  <2>1. sweep.start \in 0..Len(log) /\ NoneLater(sweep.start) /\ Folds(sweep.view, log, sweep.start)
    BY DEF FoldInv, FoldStands
  <2>2. NoneLater(sweep.start)'
    BY <1>1, <1>8, <2>1 DEF NoneLater
  <2> QED
    BY <1>9, <2>1, <2>2
<1>12. WriteStands'
  <2> SUFFICES ASSUME sweep.step = "write"
               PROVE  sweep.through \in 0..Len(log') /\ Folds(sweep.view, log', sweep.through)
    BY <1>1 DEF WriteStands
  <2> QED
    BY <1>9 DEF FoldInv, WriteStands
<1> QED
  BY <1>10, <1>11, <1>12 DEF FoldInv

LEMMA ProveFolds ==
    ASSUME StandInv, FoldInv, Prove
    PROVE  FoldInv'
<1>1. /\ log' = log /\ index' = index /\ workload' = workload /\ command' = command
      /\ sweep.step = "prove" /\ log \in Seq(Piece) /\ Len(log) \in Nat
  BY DEF Prove, StandInv, LogType
<1>2. Locked' /\ IndexShape'
  <2>1. sweep # Idle
    BY <1>1, SweepSteps DEF FoldInv
  <2> QED
    BY <1>1, <2>1 DEF FoldInv, Locked, IndexShape
<1>3. \A k : NoneLater(k)' <=> NoneLater(k)
  BY <1>1 DEF NoneLater, Begun, Closed, Corrections
<1>4. CASE ~StillProven
  <2>1. sweep' = [step |-> "fold", start |-> 0, view |-> <<>>]
    BY <1>4 DEF Prove
  <2> QED
    BY <1>2, <2>1 DEF FoldInv, SweepShape, FoldStands, WriteStands
<1>5. CASE StillProven
  <2> DEFINE k == index.through
             P == index.prefix
  <2>1. sweep' = [step |-> "fold", start |-> k, view |-> index.view]
    BY <1>5 DEF Prove
  <2>2. /\ index # NoIndex /\ k <= Len(log) /\ SubSeq(log, 1, k) = P /\ LastCorrection <= k
        /\ k \in Nat /\ P \in Seq(Piece) /\ (Len(P) = k => Folds(index.view, P, k))
    BY <1>5 DEF StillProven, PrefixProven, FoldInv, IndexShape
  <2> HIDE DEF k, P
  <2>3. Len(P) = k /\ \A i \in 1..k : P[i] = log[i]
    <3>1. /\ Len(SubSeq(log, 1, k)) = k
          /\ \A i \in 1..k : SubSeq(log, 1, k)[i] = log[i]
      BY <1>1, <2>2
    <3> QED
      BY <2>2, <3>1
  <2>4. Folds(index.view, log, k)
    BY <2>2, <2>3, ViewSame
  <2>5. NoneLater(k)
    BY <1>1, <2>2, LastIsLast
  <2>6. k \in 0..Len(log)
    BY <1>1, <2>2
  <2>7. FoldStands'
    BY <1>1, <1>3, <2>1, <2>4, <2>5, <2>6 DEF FoldStands
  <2> QED
    BY <1>2, <2>1, <2>7 DEF FoldInv, SweepShape, WriteStands
<1> QED
  BY <1>4, <1>5

LEMMA FoldTailFolds ==
    ASSUME StandInv, FoldInv, FoldTail
    PROVE  FoldInv'
<1>1. /\ log' = log /\ index' = index /\ command' = command
      /\ sweep.step = "fold" /\ log \in Seq(Piece) /\ Len(log) \in Nat
  BY DEF FoldTail, StandInv, LogType
<1>2. IndexShape' /\ sweep # Idle
  BY <1>1, SweepSteps DEF FoldInv, IndexShape
<1>3. CASE Reads(log, sweep.start)
  <2> DEFINE v == View(sweep.view, sweep.start)
  <2>1. sweep' = [step |-> "write", through |-> Len(log), view |-> v] /\ workload' = workload
    BY <1>3 DEF FoldTail
  <2>2. Sound(log, Len(log)) => v = ViewOf(log, Len(log))
    BY <1>1, FoldAgrees, ViewOfAll
  <2> HIDE DEF v
  <2>3. WriteStands'
    BY <1>1, <2>1, <2>2 DEF WriteStands, Folds
  <2>4. Locked'
    BY <1>1, <1>2, <2>1 DEF FoldInv, Locked
  <2> QED
    BY <1>2, <2>1, <2>3, <2>4 DEF FoldInv, SweepShape, FoldStands
<1>4. CASE ~Reads(log, sweep.start)
  <2>1. sweep' = Idle /\ workload' = "free"
    BY <1>4 DEF FoldTail
  <2>2. Locked'
    BY <1>1, <1>2, <2>1 DEF FoldInv, Locked
  <2> QED
    BY <1>2, <2>1, <2>2 DEF FoldInv, SweepShape, FoldStands, WriteStands, Idle
<1> QED
  BY <1>3, <1>4

LEMMA WriteFolds ==
    ASSUME StandInv, FoldInv, WriteIndex
    PROVE  FoldInv'
<1> DEFINE k == sweep.through
           P == SubSeq(log, 1, k)
<1>1. /\ log' = log /\ workload' = workload /\ command' = command /\ sweep.step = "write"
      /\ sweep' = [step |-> "capture"] /\ log \in Seq(Piece) /\ Len(log) \in Nat
  BY DEF WriteIndex, StandInv, LogType
<1>2. k \in 0..Len(log) /\ Folds(sweep.view, log, k)
  BY <1>1 DEF FoldInv, WriteStands
<1> HIDE DEF k
<1>3. k \in Nat /\ k <= Len(log)
  BY <1>1, <1>2
<1>4. index' = [through |-> k, view |-> sweep.view, prefix |-> P]
  BY <1>3 DEF WriteIndex, k
<1>5. P \in Seq(Piece) /\ \A i \in 1..k : P[i] = log[i]
  BY <1>1, <1>3
<1> HIDE DEF P
<1>6. Folds(sweep.view, P, k)
  BY <1>2, <1>3, <1>5, ViewSame
<1>7. IndexShape'
  BY <1>3, <1>4, <1>5, <1>6 DEF IndexShape
<1>8. Locked'
  BY <1>1, SweepSteps DEF FoldInv, Locked
<1> QED
  BY <1>1, <1>7, <1>8 DEF FoldInv, SweepShape, FoldStands, WriteStands, Idle

LEMMA LockHeld ==
    ASSUME StandInv, FoldInv,
           \/ BeginSweep \/ SweepEnds \/ Reattribution \/ Repair \/ MoveBackupAside \/ UNCHANGED logVars
    PROVE  Locked'
<1>1. Locked /\ SweepShape
  BY DEF FoldInv
<1>2. Idle.step = "idle"
  BY DEF Idle
<1>3. CASE BeginSweep
  BY <1>1, <1>2, <1>3 DEF Locked, BeginSweep
<1>4. CASE SweepEnds
  BY <1>1, <1>4 DEF Locked, SweepEnds
<1>5. ASSUME NEW d \in Decision, BeginReattribute(d) PROVE Locked'
  BY <1>1, <1>5 DEF Locked, BeginReattribute
<1>6. CASE Plan \/ Confirm \/ AppendHalf \/ HalfIsCut \/ ReattributeEnds
  <2>1. command.step \in {"plan", "apply", "append"}
    BY <1>6 DEF Plan, Confirm, AppendHalf, HalfIsCut, ReattributeEnds
  <2>2. workload = "reattribute" /\ sweep = Idle
    BY <1>1, <2>1 DEF Locked
  <2>3. sweep' = Idle
    BY <1>6, <2>2 DEF Plan, Confirm, AppendHalf, HalfIsCut, ReattributeEnds
  <2>4. workload' = "reattribute" \/ command' = Idle
    BY <1>6, <2>2 DEF Plan, Confirm, AppendHalf, HalfIsCut, ReattributeEnds
  <2> QED
    BY <1>2, <2>3, <2>4 DEF Locked
<1>7. CASE Repair
  <2>1. workload' = workload /\ sweep' = sweep
    BY <1>7 DEF Repair, ReadForRepair, WriteBackup, Rewrite, RewriteIsCut, RepairIsKilled
  <2>2. command'.step \notin {"plan", "apply", "append"}
    <3>1. CASE ReadForRepair
      BY <3>1 DEF ReadForRepair
    <3>2. CASE WriteBackup
      <4>1. command.step = "back up" /\ CommandShape
        BY <3>2 DEF WriteBackup, StandInv, LogType
      <4>2. command = [step |-> "back up", body |-> command.body]
        BY <4>1, BackingUp
      <4>3. command' = [step |-> "rewrite", body |-> command.body]
        BY <3>2, <4>2 DEF WriteBackup
      <4> QED
        BY <4>3
    <3>3. CASE Rewrite \/ RewriteIsCut \/ RepairIsKilled
      <4>1. command' = Idle
        BY <3>3 DEF Rewrite, RewriteIsCut, RepairIsKilled
      <4> QED
        BY <1>2, <4>1
    <3> QED
      BY <1>7, <3>1, <3>2, <3>3 DEF Repair
  <2> QED
    BY <1>1, <2>1, <2>2 DEF Locked
<1>8. CASE MoveBackupAside \/ UNCHANGED logVars
  BY <1>1, <1>8 DEF Locked, MoveBackupAside, logVars
<1> QED
  BY <1>3, <1>4, <1>5, <1>6, <1>7, <1>8 DEF Reattribution

LEMMA FoldInit == LogInit => FoldInv
<1>1. Idle.step = "idle"
  BY DEF Idle
<1> QED
  BY <1>1 DEF LogInit, FoldInv, IndexShape, SweepShape, Locked, FoldStands, WriteStands

LEMMA FoldNext ==
    ASSUME RepairsApart, StandInv, FoldInv, [LogNext]_logVars
    PROVE  FoldInv'
<1>1. CASE \E r \in Observation : Capture(r)
  BY <1>1, CaptureFolds
<1>2. CASE Prove
  BY <1>2, ProveFolds
<1>3. CASE FoldTail
  BY <1>3, FoldTailFolds
<1>4. CASE WriteIndex
  BY <1>4, WriteFolds
<1>5. CASE BeginSweep \/ SweepEnds
  <2>1. Locked'
    BY <1>5, LockHeld
  <2>2. index' = index /\ log' = log /\ sweep' \in {Idle, [step |-> "prove"]}
    BY <1>5 DEF BeginSweep, SweepEnds
  <2>3. IndexShape' /\ SweepShape'
    BY <2>2 DEF FoldInv, IndexShape, SweepShape
  <2>4. sweep'.step \notin {"fold", "write"}
    BY <2>2 DEF Idle
  <2> QED
    BY <2>1, <2>3, <2>4 DEF FoldInv, FoldStands, WriteStands
<1>6. CASE AppendHalf \/ HalfIsCut
  <2>1. Locked'
    BY <1>6, LockHeld DEF Reattribution
  <2>2. command.step = "append" /\ index' = index /\ sweep' = sweep
    BY <1>6 DEF AppendHalf, HalfIsCut
  <2>3. sweep = Idle
    BY <2>2 DEF FoldInv, Locked
  <2>4. sweep.step \notin {"fold", "write"}
    BY <2>3, SweepSteps DEF FoldInv
  <2> QED
    BY <2>1, <2>2, <2>4, FoldsElsewhere
<1>7. CASE Rewrite \/ RewriteIsCut
  <2>1. Locked'
    BY <1>7, LockHeld DEF Repair
  <2>2. index' = index /\ sweep' = sweep /\ sweep.step \notin {"fold", "write"}
    BY <1>7 DEF Rewrite, RewriteIsCut, Apart
  <2> QED
    BY <2>1, <2>2, FoldsElsewhere
<1>8. CASE \/ \E d \in Decision : BeginReattribute(d)
           \/ Plan \/ Confirm \/ ReattributeEnds
           \/ ReadForRepair \/ WriteBackup \/ RepairIsKilled \/ MoveBackupAside \/ UNCHANGED logVars
  <2>1. Locked'
    BY <1>8, LockHeld DEF Reattribution, Repair
  <2>2. log' = log /\ index' = index /\ sweep' = sweep
    BY <1>8 DEF BeginReattribute, Plan, Confirm, ReattributeEnds, ReadForRepair, WriteBackup,
                RepairIsKilled, MoveBackupAside, logVars
  <2> QED
    BY <2>1, <2>2, FoldsStay
<1> QED
  BY <1>1, <1>2, <1>3, <1>4, <1>5, <1>6, <1>7, <1>8 DEF LogNext, Sweeping, Reattribution, Repair

\* A sweep that trusts its index gets what the whole log would give it, if operators keep repair
\* from a sweep between its proof and its index.
THEOREM IndexIsAlwaysTheFold ==
    ASSUME RepairsApart
    PROVE  LogSpec => IndexIsTheFold
<1> DEFINE Agrees ==
      sweep.step = "fold" /\ sweep'.step = "write" /\ Reads(log, 0) => sweep'.view = View(<<>>, 0)
<1>1. LogInit => StandInv /\ FoldInv
  BY StandInit, FoldInit
<1>2. StandInv /\ FoldInv /\ [LogNext]_logVars => (StandInv /\ FoldInv)'
  BY StandNext, FoldNext
<1>3. StandInv /\ FoldInv /\ [LogNext]_logVars => [Agrees]_logVars
  <2> SUFFICES ASSUME StandInv, FoldInv, LogNext, sweep.step = "fold", sweep'.step = "write", Reads(log, 0)
               PROVE  sweep'.view = View(<<>>, 0)
    OBVIOUS
  <2>1. Sound(log, Len(log))
    BY ReadsAll DEF StandInv, LogType
  <2>2. View(sweep.view, sweep.start) = View(<<>>, 0)
    BY <2>1, FoldAgrees
  <2>3. sweep' # sweep
    OBVIOUS
  <2>4. BeginSweep \/ Prove \/ FoldTail \/ WriteIndex \/ SweepEnds
    BY <2>3 DEF LogNext, Sweeping, Reattribution, Repair, Capture, BeginReattribute, Plan, Confirm,
                AppendHalf, HalfIsCut, ReattributeEnds, ReadForRepair, WriteBackup, Rewrite,
                RewriteIsCut, RepairIsKilled, MoveBackupAside
  <2>5. FoldTail /\ sweep' # Idle
    BY <2>4 DEF BeginSweep, Prove, WriteIndex, SweepEnds, Idle
  <2>6. sweep'.view = View(sweep.view, sweep.start)
    BY <2>5 DEF FoldTail
  <2> QED
    BY <2>2, <2>6
<1> QED
  BY <1>1, <1>2, <1>3, PTL DEF LogSpec, IndexIsTheFold
=============================================================================
