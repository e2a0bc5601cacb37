--------------------------- MODULE GateEpochProofs ---------------------------
(***************************************************************************)
(* Proofs about GateEpoch, for any number of parser versions, states and   *)
(* runs, any clock, and whatever was on the remote before: the records of  *)
(* when a gate began stand, and no state that a run with the gate of a     *)
(* version made is served as one from before that gate.                    *)
(***************************************************************************)
EXTENDS GateEpoch, FiniteSetTheorems, TLAPS

USE EpochAssumption

State == [nr : Nat, date : Nat, by : Nat]
Branch == Seq(State) \ {<<>>}
Record == [version : Nat, at : Nat, boundary : State, source : {"sync-run", "backfill"}]
History == Seq(SUBSET Record)
Proofs == SUBSET (State \X Nat)
NightStep == {"record", "publish", "work", "proofs", "branch"}
Night == [step : NightStep, version : Nat \ {0}, at : Nat, branch : Branch,
          proofs : Proofs, epochs : History]

TypeOK ==
    /\ clock \in Nat /\ made \in Nat /\ parser \in Nat \ {0}
    /\ \A v \in DOMAIN began : v \in Nat \ {0} /\ v <= parser /\ began[v].at \in Nat
                               /\ began[v].head \in State
    /\ remote \in [main : Branch, proofs : Proofs, epochs : History]
    /\ night = NoRun \/ night \in Night
    /\ operator \in [step : {"none", "publish"}, epochs : History]

-----------------------------------------------------------------------------
(* The inductive invariant *)

\* The states there are, pushed or not.
States == ToSet(remote.main) \cup IF night = NoRun THEN {} ELSE ToSet(night.branch)

\* No state that a run of version v or a later one made is from before t.
Starts(v, t) == t <= Second(clock) /\ \A c \in States : c.by >= v => t <= c.date

\* A history of the epoch ref, wherever it is: records are only ever added to it, one for a
\* version, and each is of a time before which its version made nothing.
Chronicle(h) ==
    /\ \A i, j \in 1..Len(h) : i <= j => h[i] \subseteq h[j]
    /\ \A r, s \in Records(h) : r.version = s.version => r = s
    /\ \A r \in Records(h) : Starts(r.version, r.at)

Chronicles ==
    /\ Chronicle(remote.epochs) /\ Chronicle(operator.epochs)
    /\ night # NoRun => Chronicle(night.epochs)

\* What is pushed was attested, by a version that is known to have begun.
Gated ==
    /\ \A c \in ToSet(remote.main) :
          c.by <= parser /\ (c.by # 0 => AttestedUnder(remote.proofs, c.by) # {})
    /\ \A p \in remote.proofs : p[2] \in DOMAIN began
    /\ \A v \in DOMAIN began : Starts(v, began[v].at)

\* A run is of the latest version that has begun, and makes states after it has started.
Underway ==
    night # NoRun =>
        /\ night.version <= parser /\ Second(night.at) <= Second(clock)
        /\ \A v \in DOMAIN began : v <= night.version
        /\ \A c \in ToSet(remote.main) : c.by <= night.version
        /\ ToSet(remote.main) \subseteq ToSet(night.branch)
        /\ \A c \in ToSet(night.branch) \ ToSet(remote.main) :
              c.by = night.version /\ Second(night.at) <= c.date
        /\ remote.proofs \subseteq night.proofs

\* Where it stands: its branch is what it cloned until it has recorded; past the gate it holds
\* a proof of its version, which it pushes before the branch.
Standing ==
    /\ night.step \in {"record", "publish"} => night.branch = remote.main
    /\ night # NoRun => \A p \in night.proofs : p[2] \in DOMAIN began
    /\ night.step \in {"proofs", "branch"} => AttestedUnder(night.proofs, night.version) # {}
    /\ night.step = "branch" => remote.proofs = night.proofs

IndInv == TypeOK /\ Chronicles /\ Gated /\ Underway /\ Standing

-----------------------------------------------------------------------------
(* Lemmas *)

LEMMA SecondFacts ==
    /\ \A t \in Nat : Second(t) \in Nat /\ Second(t) <= t
    /\ \A s, t \in Nat : s <= t => Second(s) <= Second(t)
  BY DEF Second

LEMMA NightTypes ==
    ASSUME TypeOK
    PROVE  night.step # "none" => night # NoRun /\ night \in Night
  BY DEF TypeOK, NoRun

\* The states of a branch.
LEMMA BranchStates ==
    ASSUME NEW b \in Branch
    PROVE  /\ ToSet(b) \subseteq State /\ Last(b) \in ToSet(b)
           /\ \A c \in State : Append(b, c) \in Branch /\ ToSet(Append(b, c)) = ToSet(b) \cup {c}
                               /\ Last(Append(b, c)) = c
  BY DEF Branch, ToSet, Last

LEMMA RecordsTypes ==
    ASSUME NEW h \in History
    PROVE  Records(h) \subseteq Record
  BY DEF History, Records, Last

LEMMA NewRecord ==
    ASSUME NEW h \in History, NEW r \in Record
    PROVE  /\ WriteEpoch(h, r) \in History
           /\ WriteEpoch(h, r) = Append(h, Records(h) \cup {r})
           /\ Records(WriteEpoch(h, r)) = Records(h) \cup {r}
<1>1. WriteEpoch(h, r) = Append(h, Records(h) \cup {r})
  BY DEF WriteEpoch, Noted
<1>2. Records(h) \cup {r} \in SUBSET Record
  BY RecordsTypes
<1> QED
  BY <1>1, <1>2 DEF History, Records, Last

\* A record of a version that has none yet, whose time is before what the version made.
LEMMA RecordIsWritten ==
    ASSUME NEW h \in History, NEW r \in Record, Chronicle(h), Epoch(h, r.version) = {},
           Starts(r.version, r.at)
    PROVE  Chronicle(WriteEpoch(h, r))
<1> DEFINE w == WriteEpoch(h, r)
<1>1. w = Append(h, Records(h) \cup {r}) /\ Records(w) = Records(h) \cup {r}
  BY NewRecord
<1>2. ASSUME NEW i \in 1..Len(w), NEW j \in 1..Len(w), i <= j
      PROVE  w[i] \subseteq w[j]
  <2>1. Len(h) \in Nat /\ Len(w) = Len(h) + 1 /\ w[Len(h) + 1] = Records(h) \cup {r}
        /\ \A k \in 1..Len(h) : w[k] = h[k]
    BY <1>1 DEF History
  <2>2. CASE j <= Len(h)
    BY <1>2, <2>1, <2>2 DEF Chronicle
  <2>3. CASE j = Len(h) + 1 /\ i <= Len(h)
    <3>1. h # <<>> /\ i \in 1..Len(h) /\ Len(h) \in 1..Len(h) /\ i <= Len(h)
      BY <2>1, <2>3 DEF History
    <3>2. h[i] \subseteq Records(h)
      BY <3>1 DEF Chronicle, Records, Last
    <3> QED
      BY <2>1, <2>3, <3>1, <3>2
  <2>4. CASE i = Len(h) + 1
    BY <1>2, <2>1, <2>4
  <2> QED
    BY <1>2, <2>1, <2>2, <2>3, <2>4
<1>3. \A a, b \in Records(w) : a.version = b.version => a = b
  BY <1>1 DEF Chronicle, Epoch
<1>4. \A a \in Records(w) : Starts(a.version, a.at)
  BY <1>1 DEF Chronicle
<1> QED
  BY <1>2, <1>3, <1>4 DEF Chronicle

LEMMA FetchedIsChronicle ==
    ASSUME TypeOK, Chronicles, NEW h \in History, Chronicle(h)
    PROVE  Fetched(h) \in History /\ Chronicle(Fetched(h))
  BY DEF TypeOK, Chronicles, Fetched

\* Time goes on and new states are made at its end: what was before them is before them still.
LEMMA TimeGoesOn ==
    ASSUME TypeOK, clock' \in Nat, clock <= clock',
           \A c \in States' : c \in States \/ (c \in State /\ Second(clock) <= c.date)
    PROVE  /\ \A v \in Nat, t \in Nat : Starts(v, t) => Starts(v, t)'
           /\ \A h \in History : Chronicle(h) => Chronicle(h)'
<1>1. clock \in Nat /\ Second(clock) \in Nat /\ Second(clock') \in Nat /\ Second(clock) <= Second(clock')
  BY SecondFacts DEF TypeOK
<1>2. ASSUME NEW v \in Nat, NEW t \in Nat, Starts(v, t)
      PROVE  Starts(v, t)'
  <2>1. t <= Second(clock')
    BY <1>1, <1>2 DEF Starts
  <2>2. ASSUME NEW c \in States', c.by >= v
        PROVE  t <= c.date
    <3>1. CASE c \in States
      BY <1>2, <2>2, <3>1 DEF Starts
    <3>2. CASE c \in State /\ Second(clock) <= c.date
      BY <1>1, <1>2, <3>2 DEF Starts, State
    <3> QED
      BY <3>1, <3>2
  <2> QED
    BY <2>1, <2>2 DEF Starts, Second
<1>3. ASSUME NEW h \in History, Chronicle(h)
      PROVE  Chronicle(h)'
  <2>1. \A r \in Records(h) : Starts(r.version, r.at)'
    BY <1>2, <1>3, RecordsTypes DEF Chronicle, Record
  <2> QED
    BY <1>3, <2>1 DEF Chronicle, Records, Last
<1> QED
  BY <1>2, <1>3

-----------------------------------------------------------------------------
(* The steps *)

LEMMA InitHolds == EpochInit => IndInv
<1> SUFFICES ASSUME EpochInit PROVE IndInv
  OBVIOUS
<1>1. PICK x \in Histories :
        /\ clock = x.clock /\ made = Len(x.main) /\ began = x.began
        /\ remote = [main |-> x.main, proofs |-> x.proofs, epochs |-> <<>>]
  BY DEF EpochInit
<1>2. parser = 1 /\ night = NoRun /\ operator = [step |-> "none", epochs |-> <<>>]
  BY DEF EpochInit
<1>3. /\ x.clock \in Nat
      /\ x.main \in Seq([nr : Nat, date : Nat, by : {0, 1}]) /\ x.main # <<>>
      /\ \A p \in x.proofs : p \in ToSet(x.main) \X {1} /\ 1 \in DOMAIN x.began
      /\ \A c \in ToSet(x.main) : c.by = 1 => AttestedUnder(x.proofs, 1) # {}
      /\ \A v \in DOMAIN x.began :
            /\ v = 1
            /\ x.began[v].head \in ToSet(x.main)
            /\ x.began[v].at \in Nat /\ x.began[v].at <= Second(x.clock)
            /\ \A c \in ToSet(x.main) : c.by = 1 => x.began[v].at <= c.date
  BY HistoriesAssumption
<1>4. x.main \in Branch /\ \A c \in ToSet(x.main) : c \in State /\ c.by \in {0, 1}
  <2> DEFINE First == [nr : Nat, date : Nat, by : {0, 1}]
  <2>1. First \subseteq State /\ \A c \in First : c.by \in {0, 1}
    BY DEF State
  <2>2. x.main \in Seq(First) /\ x.main # <<>>
    BY <1>3
  <2> HIDE DEF First
  <2>3. \A c \in ToSet(x.main) : c \in First
    BY <2>2 DEF ToSet
  <2> QED
    BY <2>1, <2>2, <2>3 DEF Branch
<1>5. x.proofs \in Proofs
  BY <1>3, <1>4 DEF Proofs
<1>6. TypeOK
  <2>1. <<>> \in History
    BY DEF History
  <2> QED
    BY <1>1, <1>2, <1>3, <1>4, <1>5, <2>1 DEF TypeOK
<1>7. Chronicles
  BY <1>1, <1>2 DEF Chronicles, Chronicle, Records
<1>8. Gated
  <2>1. ASSUME NEW c \in ToSet(remote.main)
        PROVE  c.by <= parser /\ (c.by # 0 => AttestedUnder(remote.proofs, c.by) # {})
    <3>1. c \in ToSet(x.main) /\ c.by \in {0, 1}
      BY <1>1, <1>4
    <3>2. c.by <= parser
      BY <1>2, <3>1
    <3>3. c.by = 1 => AttestedUnder(remote.proofs, c.by) # {}
      BY <1>1, <1>3, <3>1
    <3> QED
      BY <3>1, <3>2, <3>3
  <2>2. \A p \in remote.proofs : p[2] \in DOMAIN began
    BY <1>1, <1>3
  <2>3. States = ToSet(x.main)
    BY <1>1, <1>2 DEF States
  <2>4. ASSUME NEW v \in DOMAIN began
        PROVE  Starts(v, began[v].at)
    BY <1>1, <1>3, <1>4, <2>3 DEF Starts
  <2> QED
    BY <2>1, <2>2, <2>4 DEF Gated
<1>9. Underway /\ Standing
  BY <1>2 DEF Underway, Standing, NoRun
<1> QED
  BY <1>6, <1>7, <1>8, <1>9 DEF IndInv

\* What a step that makes no state and keeps the time leaves true of every history.
LEMMA NothingMade ==
    ASSUME TypeOK, clock' = clock, States' \subseteq States
    PROVE  /\ \A v \in Nat, t \in Nat : Starts(v, t) => Starts(v, t)'
           /\ \A h \in History : Chronicle(h) => Chronicle(h)'
<1>1. clock' \in Nat /\ clock <= clock'
  BY DEF TypeOK
<1>2. \A c \in States' : c \in States \/ (c \in State /\ Second(clock) <= c.date)
  OBVIOUS
<1> QED
  BY <1>1, <1>2, TimeGoesOn

LEMMA GatedStays ==
    ASSUME TypeOK, Gated, parser' \in Nat, parser <= parser', UNCHANGED began,
           remote'.main = remote.main, remote'.proofs = remote.proofs,
           \A v \in Nat, t \in Nat : Starts(v, t) => Starts(v, t)'
    PROVE  Gated'
<1>1. \A c \in ToSet(remote.main) : c.by \in Nat
  BY BranchStates DEF TypeOK, State
<1>2. \A c \in ToSet(remote'.main) :
        c.by <= parser' /\ (c.by # 0 => AttestedUnder(remote'.proofs, c.by) # {})
  BY <1>1 DEF Gated, TypeOK
<1>3. ASSUME NEW v \in DOMAIN began'
      PROVE  Starts(v, began[v].at)'
  <2>1. PICK t \in Nat : t = began[v].at /\ Starts(v, t)
    BY DEF Gated, TypeOK
  <2>2. v \in Nat /\ Starts(v, t)'
    BY <2>1 DEF TypeOK
  <2> QED
    BY <2>1, <2>2 DEF Starts
<1>4. \A p \in remote'.proofs : p[2] \in DOMAIN began'
  BY DEF Gated
<1> QED
  BY <1>2, <1>3, <1>4 DEF Gated

LEMMA ChroniclesStay ==
    ASSUME \A h \in History : Chronicle(h) => Chronicle(h)',
           remote'.epochs \in History, Chronicle(remote'.epochs),
           operator'.epochs \in History, Chronicle(operator'.epochs),
           night' = NoRun \/ (night'.epochs \in History /\ Chronicle(night'.epochs))
    PROVE  Chronicles'
<1>1. ASSUME night' # NoRun PROVE Chronicle(night.epochs)'
  <2>1. PICK k \in History : k = night'.epochs /\ Chronicle(k)
    BY <1>1
  <2>2. Chronicle(k)'
    BY <2>1
  <2> QED
    BY <2>1, <2>2 DEF Chronicle, Records, Last
<1>2. PICK h \in History : h = remote'.epochs /\ Chronicle(h)
  OBVIOUS
<1>3. PICK g \in History : g = operator'.epochs /\ Chronicle(g)
  OBVIOUS
<1>4. Chronicle(h)' /\ Chronicle(g)'
  BY <1>2, <1>3
<1>5. Chronicle(remote.epochs)' /\ Chronicle(operator.epochs)'
  BY <1>2, <1>3, <1>4 DEF Chronicle, Records, Last
<1> QED
  BY <1>1, <1>5 DEF Chronicles, NoRun

LEMMA UnderwayStays ==
    ASSUME TypeOK, TypeOK', Underway, clock <= clock', parser <= parser', UNCHANGED began,
           remote'.main = remote.main, remote'.proofs = remote.proofs,
           \/ night' = NoRun
           \/ /\ night # NoRun /\ night'.version = night.version /\ night'.at = night.at
              /\ night'.branch = night.branch /\ night'.proofs = night.proofs
    PROVE  Underway'
<1> SUFFICES ASSUME night' # NoRun
             PROVE  Underway'
  BY DEF Underway, NoRun
<1>1. night \in Night /\ night # NoRun
  BY DEF TypeOK
<1>2. night.version <= parser'
  BY <1>1 DEF Underway, TypeOK, Night
<1>3. Second(night.at) <= Second(clock')
  BY <1>1, SecondFacts DEF Underway, TypeOK, Night
<1> QED
  BY <1>1, <1>2, <1>3 DEF Underway, Second

\* The steps that move no branch and no proof, and attest nothing.
LEMMA RefsMove ==
    ASSUME IndInv, TypeOK', clock <= clock', parser <= parser', UNCHANGED began,
           remote'.main = remote.main, remote'.proofs = remote.proofs,
           Chronicle(remote'.epochs), Chronicle(operator'.epochs),
           \/ night' = NoRun
           \/ /\ night # NoRun /\ night'.version = night.version /\ night'.at = night.at
              /\ night'.branch = night.branch /\ night'.proofs = night.proofs
              /\ Chronicle(night'.epochs)
    PROVE  Chronicles' /\ Gated' /\ Underway'
<1>1. TypeOK /\ Gated /\ Underway
  BY DEF IndInv
<1>2. States' \subseteq States
  BY DEF States, NoRun
<1>3. clock' \in Nat /\ parser' \in Nat
  BY DEF TypeOK
<1>4. /\ \A v \in Nat, t \in Nat : Starts(v, t) => Starts(v, t)'
      /\ \A h \in History : Chronicle(h) => Chronicle(h)'
  BY <1>1, <1>2, <1>3, TimeGoesOn
<1>5. /\ remote'.epochs \in History /\ operator'.epochs \in History
      /\ night' = NoRun \/ night'.epochs \in History
  BY DEF TypeOK, Night
<1>6. Chronicles'
  BY <1>4, <1>5, ChroniclesStay
<1>7. Gated'
  BY <1>1, <1>3, <1>4, GatedStays
<1>8. Underway'
  BY <1>1, UnderwayStays
<1> QED
  BY <1>6, <1>7, <1>8

LEMMA StartRunKeeps == IndInv /\ StartRun => IndInv'
<1> SUFFICES ASSUME IndInv, StartRun PROVE IndInv'
  OBVIOUS
<1>1. TypeOK /\ Chronicles /\ Gated /\ night = NoRun
  BY DEF IndInv, StartRun
<1>2. /\ night' = [step |-> "record", version |-> parser, at |-> clock, branch |-> remote.main,
                   proofs |-> remote.proofs, epochs |-> remote.epochs]
      /\ UNCHANGED <<clock, parser, made, began, remote, operator>>
  BY DEF StartRun
<1>3. TypeOK'
  BY <1>1, <1>2 DEF TypeOK, Night, NightStep
<1>4. night' # NoRun
  BY <1>2 DEF NoRun
<1>5. States' = States
  BY <1>1, <1>2 DEF States
<1>6. /\ \A v \in Nat, t \in Nat : Starts(v, t) => Starts(v, t)'
      /\ \A h \in History : Chronicle(h) => Chronicle(h)'
  BY <1>1, <1>2, <1>5, NothingMade
<1>7. Chronicles'
  <2>1. remote'.epochs \in History /\ operator'.epochs \in History /\ night'.epochs = remote.epochs
    BY <1>1, <1>2 DEF TypeOK
  <2>2. Chronicle(remote'.epochs) /\ Chronicle(operator'.epochs) /\ Chronicle(night'.epochs)
    BY <1>1, <1>2, <2>1 DEF Chronicles
  <2> QED
    BY <1>2, <1>6, <2>1, <2>2, ChroniclesStay
<1>8. Gated'
  BY <1>1, <1>2, <1>6, GatedStays DEF TypeOK
<1>9. Underway'
  <2>1. parser <= parser /\ Second(clock) <= Second(clock)
    BY <1>1, SecondFacts DEF TypeOK
  <2>2. \A v \in DOMAIN began : v <= parser
    BY <1>1 DEF TypeOK
  <2>3. \A c \in ToSet(remote.main) : c.by <= parser
    BY <1>1 DEF Gated
  <2> QED
    BY <1>2, <2>1, <2>2, <2>3 DEF Underway, Second
<1>10. Standing'
  BY <1>1, <1>2 DEF Standing, Gated
<1> QED
  BY <1>3, <1>7, <1>8, <1>9, <1>10 DEF IndInv

LEMMA RecordEpochKeeps == IndInv /\ RecordEpoch => IndInv'
<1> SUFFICES ASSUME IndInv, RecordEpoch PROVE IndInv'
  OBVIOUS
<1> DEFINE h == Fetched(night.epochs)
<1>1. TypeOK /\ Chronicles /\ Gated /\ Underway /\ Standing
  BY DEF IndInv
<1>2. /\ night.step = "record"
      /\ UNCHANGED <<clock, parser, made, began, remote, operator>>
  BY DEF RecordEpoch
<1>3. night # NoRun /\ night \in Night
  BY <1>1, <1>2, NightTypes
<1>4. h \in History /\ Chronicle(h)
  BY <1>1, <1>3, FetchedIsChronicle DEF Chronicles, Night
<1>5. \/ /\ Epoch(h, night.version) = {} /\ AttestedUnder(remote.proofs, night.version) = {}
         /\ night' = [night EXCEPT !.step = "publish", !.epochs = WriteEpoch(h, RunRecord)]
      \/ night' = [night EXCEPT !.step = "work", !.epochs = h]
  BY DEF RecordEpoch
<1> HIDE DEF h
<1>6. PICK k \in History :
        /\ Chronicle(k)
        /\ \E s \in {"publish", "work"} : night' = [night EXCEPT !.step = s, !.epochs = k]
  <2>1. CASE /\ Epoch(h, night.version) = {} /\ AttestedUnder(remote.proofs, night.version) = {}
             /\ night' = [night EXCEPT !.step = "publish", !.epochs = WriteEpoch(h, RunRecord)]
    <3>1. night.branch = remote.main /\ night.branch \in Branch
      BY <1>1, <1>2, <1>3 DEF Standing, Night
    <3>2. Last(night.branch) \in State
      BY <3>1, BranchStates
    <3>3. RunRecord \in Record /\ RunRecord.version = night.version /\ RunRecord.at = Second(clock)
      BY <1>1, <1>3, <3>2, SecondFacts DEF RunRecord, Record, TypeOK, Night
    <3>4. States = ToSet(remote.main)
      BY <1>3, <3>1 DEF States
    <3>5. ASSUME NEW c \in States, c.by >= night.version
          PROVE  FALSE
      <4>1. c.by <= night.version /\ c.by \in Nat
        BY <1>1, <1>3, <3>1, <3>4, BranchStates DEF Underway, State
      <4>2. c.by = night.version /\ c.by # 0
        BY <1>3, <3>5, <4>1 DEF Night
      <4> QED
        BY <1>1, <2>1, <3>4, <4>2 DEF Gated
    <3>6. Starts(RunRecord.version, RunRecord.at)
      <4>1. Second(clock) <= Second(clock)
        BY <1>1, SecondFacts DEF TypeOK
      <4> QED
        BY <3>3, <3>5, <4>1 DEF Starts
    <3>7. Chronicle(WriteEpoch(h, RunRecord)) /\ WriteEpoch(h, RunRecord) \in History
      BY <1>4, <2>1, <3>3, <3>6, RecordIsWritten, NewRecord
    <3> QED
      BY <2>1, <3>7
  <2>2. CASE night' = [night EXCEPT !.step = "work", !.epochs = h]
    BY <1>4, <2>2
  <2> QED
    BY <1>5, <2>1, <2>2
<1>7. PICK s \in {"publish", "work"} : night' = [night EXCEPT !.step = s, !.epochs = k]
  BY <1>6
<1>8. /\ night' \in Night /\ night'.version = night.version /\ night'.at = night.at
      /\ night'.branch = night.branch /\ night'.proofs = night.proofs /\ night'.epochs = k
      /\ night'.step = s
  BY <1>3, <1>7 DEF Night, NightStep
<1>9. TypeOK'
  BY <1>1, <1>2, <1>8 DEF TypeOK
<1>10. Chronicles' /\ Gated' /\ Underway'
  <2>1. clock <= clock' /\ parser <= parser'
    BY <1>1, <1>2 DEF TypeOK
  <2> QED
    BY <1>1, <1>2, <1>3, <1>6, <1>8, <1>9, <2>1, RefsMove DEF Chronicles
<1>11. Standing'
  BY <1>1, <1>2, <1>3, <1>8 DEF Standing
<1> QED
  BY <1>9, <1>10, <1>11 DEF IndInv

LEMMA PublishEpochKeeps == IndInv /\ PublishEpoch => IndInv'
<1> SUFFICES ASSUME IndInv, PublishEpoch PROVE IndInv'
  OBVIOUS
<1>1. TypeOK /\ Chronicles /\ Standing
  BY DEF IndInv
<1>2. /\ night.step = "publish" /\ night' = [night EXCEPT !.step = "work"]
      /\ UNCHANGED <<clock, parser, made, began, operator>>
      /\ remote' = [remote EXCEPT !.epochs = night.epochs] \/ UNCHANGED remote
  BY DEF PublishEpoch
<1>3. night # NoRun /\ night \in Night
  BY <1>1, <1>2, NightTypes
<1>4. /\ night' \in Night /\ night'.version = night.version /\ night'.at = night.at
      /\ night'.branch = night.branch /\ night'.proofs = night.proofs
      /\ night'.epochs = night.epochs /\ night'.step = "work"
  BY <1>2, <1>3 DEF Night, NightStep
<1>5. /\ remote' \in [main : Branch, proofs : Proofs, epochs : History]
      /\ remote'.main = remote.main /\ remote'.proofs = remote.proofs
      /\ remote'.epochs \in {remote.epochs, night.epochs}
  BY <1>1, <1>2, <1>3 DEF TypeOK, Night
<1>6. TypeOK'
  BY <1>1, <1>2, <1>4, <1>5 DEF TypeOK
<1>7. Chronicle(remote'.epochs) /\ Chronicle(night'.epochs) /\ Chronicle(operator'.epochs)
  BY <1>1, <1>2, <1>3, <1>4, <1>5 DEF Chronicles
<1>8. Chronicles' /\ Gated' /\ Underway'
  <2>1. clock <= clock' /\ parser <= parser'
    BY <1>1, <1>2 DEF TypeOK
  <2> QED
    BY <1>2, <1>3, <1>4, <1>5, <1>6, <1>7, <2>1, RefsMove
<1>9. Standing'
  BY <1>1, <1>2, <1>3, <1>4 DEF Standing
<1> QED
  BY <1>6, <1>8, <1>9 DEF IndInv

LEMMA MakeStateKeeps == IndInv /\ MakeState => IndInv'
<1> SUFFICES ASSUME IndInv, MakeState PROVE IndInv'
  OBVIOUS
<1> DEFINE c == [nr |-> made + 1, date |-> Second(clock), by |-> night.version]
<1>1. TypeOK /\ Chronicles /\ Gated /\ Underway /\ Standing
  BY DEF IndInv
<1>2. /\ night.step = "work" /\ made' = made + 1
      /\ night' = [night EXCEPT !.branch = Append(night.branch, c)]
      /\ UNCHANGED <<clock, parser, began, remote, operator>>
  BY DEF MakeState
<1>3. night # NoRun /\ night \in Night
  BY <1>1, <1>2, NightTypes
<1>4. c \in State /\ c.date = Second(clock) /\ c.by = night.version
  BY <1>1, <1>3, SecondFacts DEF State, TypeOK, Night
<1> HIDE DEF c
<1>5. /\ Append(night.branch, c) \in Branch
      /\ ToSet(Append(night.branch, c)) = ToSet(night.branch) \cup {c}
  BY <1>3, <1>4, BranchStates DEF Night
<1>6. /\ night' \in Night /\ night'.version = night.version /\ night'.at = night.at
      /\ night'.branch = Append(night.branch, c) /\ night'.proofs = night.proofs
      /\ night'.epochs = night.epochs /\ night'.step = "work"
  BY <1>2, <1>3, <1>5 DEF Night
<1>7. TypeOK' /\ night' # NoRun
  BY <1>1, <1>2, <1>6 DEF TypeOK, NoRun, Night, NightStep
<1>8. States' = States \cup {c}
  BY <1>2, <1>3, <1>5, <1>6, <1>7 DEF States
<1>9. clock' \in Nat /\ clock <= clock' /\ parser' \in Nat /\ parser <= parser'
  BY <1>1, <1>2 DEF TypeOK
<1>10. Second(clock) <= c.date
  BY <1>1, <1>4, SecondFacts DEF TypeOK
<1>11. /\ \A v \in Nat, t \in Nat : Starts(v, t) => Starts(v, t)'
       /\ \A h \in History : Chronicle(h) => Chronicle(h)'
  BY <1>1, <1>4, <1>8, <1>9, <1>10, TimeGoesOn
<1>12. Chronicles'
  <2>1. /\ remote'.epochs \in History /\ operator'.epochs \in History
        /\ night'.epochs \in History
    BY <1>7 DEF TypeOK, Night
  <2>2. Chronicle(remote'.epochs) /\ Chronicle(operator'.epochs) /\ Chronicle(night'.epochs)
    BY <1>1, <1>2, <1>3, <1>6 DEF Chronicles
  <2> QED
    BY <1>11, <2>1, <2>2, ChroniclesStay
<1>13. Gated'
  BY <1>1, <1>2, <1>9, <1>11, GatedStays
<1>14. Underway'
  <2>1. Second(night.at) <= c.date
    BY <1>1, <1>3, <1>4 DEF Underway
  <2>2. \A b \in ToSet(night'.branch) \ ToSet(remote.main) :
           b.by = night.version /\ Second(night.at) <= b.date
    BY <1>1, <1>3, <1>4, <1>5, <1>6, <2>1 DEF Underway
  <2> QED
    BY <1>1, <1>2, <1>3, <1>5, <1>6, <2>2 DEF Underway, Second
<1>15. Standing'
  BY <1>1, <1>2, <1>3, <1>6 DEF Standing
<1> QED
  BY <1>7, <1>12, <1>13, <1>14, <1>15 DEF IndInv

\* The first run to come to the gate of its version started before whatever that version made.
LEMMA FirstRun ==
    ASSUME IndInv, night.step = "work", night.version \notin DOMAIN began
    PROVE  Second(night.at) \in Nat /\ Starts(night.version, Second(night.at))
<1>1. TypeOK /\ Gated /\ Underway
  BY DEF IndInv
<1>2. night # NoRun /\ night \in Night
  BY <1>1, NightTypes
<1>3. Second(night.at) \in Nat /\ Second(night.at) <= Second(clock)
  BY <1>1, <1>2, SecondFacts DEF Underway, Night
<1>4. States = ToSet(night.branch)
  BY <1>1, <1>2 DEF States, Underway
<1>5. ASSUME NEW c \in States, c.by >= night.version
      PROVE  Second(night.at) <= c.date
  <2>1. ASSUME c \in ToSet(remote.main)
        PROVE  FALSE
    <3>1. c.by \in Nat /\ c.by <= night.version
      BY <1>1, <1>2, <2>1, BranchStates DEF Underway, TypeOK, State
    <3>2. c.by = night.version /\ c.by # 0
      BY <1>2, <1>5, <3>1 DEF Night
    <3>3. PICK p \in remote.proofs : p[2] = c.by
      BY <1>1, <2>1, <3>2 DEF Gated, AttestedUnder
    <3> QED
      BY <1>1, <3>2, <3>3 DEF Gated
  <2> QED
    BY <1>1, <1>2, <1>4, <2>1 DEF Underway
<1> QED
  BY <1>3, <1>5 DEF Starts

LEMMA RunGateKeeps == IndInv /\ RunGate => IndInv'
<1> SUFFICES ASSUME IndInv, RunGate PROVE IndInv'
  OBVIOUS
<1> DEFINE head == Last(night.branch)
           v == night.version
           first == [at |-> Second(night.at), head |-> Last(remote.main)]
<1>1. TypeOK /\ Chronicles /\ Gated /\ Underway /\ Standing
  BY DEF IndInv
<1>2. night.step = "work" /\ UNCHANGED <<clock, parser, made, remote, operator>>
  BY DEF RunGate
<1>3. night # NoRun /\ night \in Night
  BY <1>1, <1>2, NightTypes
<1>4. head \in State /\ Last(remote.main) \in State /\ v \in Nat \ {0}
  BY <1>1, <1>3, BranchStates DEF TypeOK, Night
<1>5. /\ \/ night' = [night EXCEPT !.step = "proofs"] /\ <<head, v>> \in night.proofs
         \/ night' = [night EXCEPT !.step = "proofs", !.proofs = night.proofs \cup {<<head, v>>}]
         \/ night' = NoRun
      /\ \/ UNCHANGED began /\ v \in DOMAIN began
         \/ /\ v \notin DOMAIN began
            /\ began' = [w \in DOMAIN began \cup {v} |-> IF w = v THEN first ELSE began[w]]
  BY <1>1, <1>3 DEF RunGate, Standing
<1>6. first.at = Second(night.at) /\ first.head = Last(remote.main)
  OBVIOUS
<1>7. v \notin DOMAIN began => Second(night.at) \in Nat /\ Starts(v, Second(night.at))
  BY <1>2, FirstRun
<1> HIDE DEF head, v, first
<1>8. /\ DOMAIN began' = DOMAIN began \cup {v}
      /\ \A w \in DOMAIN began : began'[w] = began[w]
      /\ v \notin DOMAIN began => began'[v] = first
  BY <1>5
<1>9. \/ night' = NoRun
      \/ /\ night' \in Night /\ night'.version = v /\ night'.at = night.at
         /\ night'.branch = night.branch /\ night'.epochs = night.epochs /\ night'.step = "proofs"
         /\ <<head, v>> \in night'.proofs /\ night.proofs \subseteq night'.proofs
         /\ night'.proofs \subseteq night.proofs \cup {<<head, v>>}
  <2>1. {<<head, v>>} \in Proofs /\ night.proofs \cup {<<head, v>>} \in Proofs
    BY <1>3, <1>4 DEF Proofs, Night
  <2>2. CASE night' = [night EXCEPT !.step = "proofs"] /\ <<head, v>> \in night.proofs
    BY <1>3, <2>2 DEF Night, NightStep, v
  <2>3. CASE night' = [night EXCEPT !.step = "proofs", !.proofs = night.proofs \cup {<<head, v>>}]
    BY <1>3, <2>1, <2>3 DEF Night, NightStep, v
  <2> QED
    BY <1>5, <2>2, <2>3
<1>10. TypeOK'
  <2>1. v <= parser
    BY <1>1, <1>3 DEF Underway, v
  <2>2. ASSUME NEW w \in DOMAIN began'
        PROVE  w \in Nat \ {0} /\ w <= parser /\ began'[w].at \in Nat /\ began'[w].head \in State
    <3>1. CASE w \in DOMAIN began
      BY <1>1, <1>8, <3>1 DEF TypeOK
    <3>2. CASE w \notin DOMAIN began
      BY <1>4, <1>6, <1>7, <1>8, <2>1, <2>2, <3>2
    <3> QED
      BY <3>1, <3>2
  <2> QED
    BY <1>1, <1>2, <1>9, <2>2 DEF TypeOK
<1>11. States' \subseteq States
  BY <1>2, <1>3, <1>9 DEF States, NoRun
<1>12. /\ \A w \in Nat, t \in Nat : Starts(w, t) => Starts(w, t)'
       /\ \A h \in History : Chronicle(h) => Chronicle(h)'
  BY <1>1, <1>2, <1>11, NothingMade
<1>13. Chronicles'
  <2>1. /\ remote'.epochs \in History /\ operator'.epochs \in History
        /\ night' = NoRun \/ night'.epochs \in History
    BY <1>9, <1>10 DEF TypeOK, Night
  <2>2. /\ Chronicle(remote'.epochs) /\ Chronicle(operator'.epochs)
        /\ night' = NoRun \/ Chronicle(night'.epochs)
    BY <1>1, <1>2, <1>3, <1>9 DEF Chronicles
  <2> QED
    BY <1>12, <2>1, <2>2, ChroniclesStay
<1>14. Gated'
  <2>1. ASSUME NEW w \in DOMAIN began'
        PROVE  Starts(w, began[w].at)'
    <3>1. CASE w \in DOMAIN began
      <4>1. PICK t \in Nat : t = began[w].at /\ Starts(w, t)
        BY <1>1, <3>1 DEF Gated, TypeOK
      <4>2. w \in Nat /\ Starts(w, t)' /\ began'[w].at = t
        BY <1>1, <1>8, <1>12, <3>1, <4>1 DEF TypeOK
      <4> QED
        BY <4>2 DEF Starts
    <3>2. CASE w \notin DOMAIN began
      <4>1. w = v /\ v \notin DOMAIN began
        BY <1>8, <3>2
      <4>2. PICK t \in Nat : t = Second(night.at)
        BY <1>7, <4>1
      <4>3. began'[v].at = t
        BY <1>6, <1>8, <4>1, <4>2
      <4>4. PICK u \in Nat : u = v
        BY <1>4
      <4>5. Starts(u, t)'
        BY <1>7, <1>12, <4>1, <4>2, <4>4
      <4> QED
        BY <4>1, <4>3, <4>4, <4>5 DEF Starts
    <3> QED
      BY <3>1, <3>2
  <2>2. \A p \in remote.proofs : p[2] \in DOMAIN began'
    BY <1>1, <1>8 DEF Gated
  <2> QED
    BY <1>1, <1>2, <2>1, <2>2 DEF Gated
<1>15. Underway'
  <2>1. \A w \in DOMAIN began' : w <= v
    BY <1>1, <1>3, <1>4, <1>8 DEF Underway, v
  <2>2. ASSUME night' # NoRun
        PROVE  remote.proofs \subseteq night'.proofs
    BY <1>1, <1>3, <1>9, <2>2 DEF Underway
  <2> QED
    BY <1>1, <1>2, <1>3, <1>9, <2>1, <2>2 DEF Underway, Second, v
<1>16. Standing'
  <2>1. ASSUME night' # NoRun
        PROVE  \A p \in night'.proofs : p[2] \in DOMAIN began'
    BY <1>1, <1>3, <1>8, <1>9, <2>1 DEF Standing
  <2>2. ASSUME night' # NoRun
        PROVE  night'.step = "proofs" /\ AttestedUnder(night'.proofs, night'.version) # {}
    BY <1>9, <2>2 DEF AttestedUnder
  <2> QED
    BY <2>1, <2>2 DEF Standing, NoRun
<1> QED
  BY <1>10, <1>13, <1>14, <1>15, <1>16 DEF IndInv

LEMMA PushProofsKeeps == IndInv /\ PushProofs => IndInv'
<1> SUFFICES ASSUME IndInv, PushProofs PROVE IndInv'
  OBVIOUS
<1>1. TypeOK /\ Chronicles /\ Gated /\ Underway /\ Standing
  BY DEF IndInv
<1>2. /\ night.step = "proofs" /\ night' = [night EXCEPT !.step = "branch"]
      /\ remote' = [remote EXCEPT !.proofs = night.proofs]
      /\ UNCHANGED <<clock, parser, made, began, operator>>
  BY DEF PushProofs
<1>3. night # NoRun /\ night \in Night
  BY <1>1, <1>2, NightTypes
<1>4. /\ night' \in Night /\ night'.version = night.version /\ night'.at = night.at
      /\ night'.branch = night.branch /\ night'.proofs = night.proofs
      /\ night'.epochs = night.epochs /\ night'.step = "branch"
  BY <1>2, <1>3 DEF Night, NightStep
<1>5. /\ remote' \in [main : Branch, proofs : Proofs, epochs : History]
      /\ remote'.main = remote.main /\ remote'.proofs = night.proofs
      /\ remote'.epochs = remote.epochs
  BY <1>1, <1>2, <1>3 DEF TypeOK, Night
<1>6. TypeOK' /\ night' # NoRun
  BY <1>1, <1>2, <1>4, <1>5 DEF TypeOK, NoRun
<1>7. States' = States
  BY <1>3, <1>4, <1>5, <1>6 DEF States
<1>8. /\ \A v \in Nat, t \in Nat : Starts(v, t) => Starts(v, t)'
      /\ \A h \in History : Chronicle(h) => Chronicle(h)'
  BY <1>1, <1>2, <1>7, NothingMade
<1>9. Chronicles'
  <2>1. /\ remote'.epochs \in History /\ operator'.epochs \in History /\ night'.epochs \in History
    BY <1>4, <1>6 DEF TypeOK, Night
  <2>2. Chronicle(remote'.epochs) /\ Chronicle(operator'.epochs) /\ Chronicle(night'.epochs)
    BY <1>1, <1>2, <1>3, <1>4, <1>5 DEF Chronicles
  <2> QED
    BY <1>8, <2>1, <2>2, ChroniclesStay
<1>10. Gated'
  <2>1. \A v \in Nat : AttestedUnder(remote.proofs, v) \subseteq AttestedUnder(night.proofs, v)
    BY <1>1, <1>3 DEF Underway, AttestedUnder
  <2>2. ASSUME NEW c \in ToSet(remote.main)
        PROVE  c.by <= parser /\ (c.by # 0 => AttestedUnder(night.proofs, c.by) # {})
    <3>1. c.by \in Nat
      BY <1>1, BranchStates DEF TypeOK, State
    <3> QED
      BY <1>1, <2>1, <3>1 DEF Gated
  <2>3. \A p \in night.proofs : p[2] \in DOMAIN began
    BY <1>1, <1>3 DEF Standing
  <2>4. ASSUME NEW v \in DOMAIN began
        PROVE  Starts(v, began[v].at)'
    <3>1. PICK t \in Nat : t = began[v].at /\ Starts(v, t)
      BY <1>1 DEF Gated, TypeOK
    <3>2. v \in Nat /\ Starts(v, t)'
      BY <1>1, <1>8, <3>1 DEF TypeOK
    <3> QED
      BY <1>2, <3>1, <3>2 DEF Starts
  <2> QED
    BY <1>2, <1>5, <2>2, <2>3, <2>4 DEF Gated
<1>11. Underway'
  BY <1>1, <1>2, <1>3, <1>4, <1>5 DEF Underway, Second
<1>12. Standing'
  BY <1>1, <1>2, <1>3, <1>4, <1>5 DEF Standing
<1> QED
  BY <1>6, <1>9, <1>10, <1>11, <1>12 DEF IndInv

LEMMA PushBranchKeeps == IndInv /\ PushBranch => IndInv'
<1> SUFFICES ASSUME IndInv, PushBranch PROVE IndInv'
  OBVIOUS
<1>1. TypeOK /\ Chronicles /\ Gated /\ Underway /\ Standing
  BY DEF IndInv
<1>2. /\ night.step = "branch" /\ night' = NoRun
      /\ remote' = [remote EXCEPT !.main = night.branch]
      /\ UNCHANGED <<clock, parser, made, began, operator>>
  BY DEF PushBranch
<1>3. night # NoRun /\ night \in Night
  BY <1>1, <1>2, NightTypes
<1>4. /\ remote' \in [main : Branch, proofs : Proofs, epochs : History]
      /\ remote'.main = night.branch /\ remote'.proofs = remote.proofs
      /\ remote'.epochs = remote.epochs
  BY <1>1, <1>2, <1>3 DEF TypeOK, Night
<1>5. TypeOK'
  BY <1>1, <1>2, <1>4 DEF TypeOK
<1>6. States' \subseteq States
  BY <1>2, <1>3, <1>4 DEF States
<1>7. /\ \A v \in Nat, t \in Nat : Starts(v, t) => Starts(v, t)'
      /\ \A h \in History : Chronicle(h) => Chronicle(h)'
  BY <1>1, <1>2, <1>6, NothingMade
<1>8. Chronicles'
  <2>1. /\ remote'.epochs \in History /\ operator'.epochs \in History
        /\ Chronicle(remote'.epochs) /\ Chronicle(operator'.epochs)
    BY <1>1, <1>2, <1>4, <1>5 DEF TypeOK, Chronicles
  <2> QED
    BY <1>2, <1>7, <2>1, ChroniclesStay
<1>9. Gated'
  <2>1. ASSUME NEW c \in ToSet(night.branch)
        PROVE  c.by <= parser /\ (c.by # 0 => AttestedUnder(remote.proofs, c.by) # {})
    <3>1. CASE c \in ToSet(remote.main)
      BY <1>1, <3>1 DEF Gated
    <3>2. CASE c \notin ToSet(remote.main)
      BY <1>1, <1>2, <1>3, <3>2 DEF Underway, Standing
    <3> QED
      BY <3>1, <3>2
  <2>2. ASSUME NEW v \in DOMAIN began
        PROVE  Starts(v, began[v].at)'
    <3>1. PICK t \in Nat : t = began[v].at /\ Starts(v, t)
      BY <1>1 DEF Gated, TypeOK
    <3>2. v \in Nat /\ Starts(v, t)'
      BY <1>1, <1>7, <3>1 DEF TypeOK
    <3> QED
      BY <1>2, <3>1, <3>2 DEF Starts
  <2> QED
    BY <1>1, <1>2, <1>4, <2>1, <2>2 DEF Gated
<1>10. Underway' /\ Standing'
  BY <1>2 DEF Underway, Standing, NoRun
<1> QED
  BY <1>5, <1>8, <1>9, <1>10 DEF IndInv

\* What the operator records is the start of the first run of a version.
LEMMA BackfillKeeps == IndInv /\ Backfill => IndInv'
<1> SUFFICES ASSUME IndInv, Backfill PROVE IndInv'
  OBVIOUS
<1> DEFINE h == Fetched(operator.epochs)
           r == BackfillRecord(parser)
<1>1. TypeOK /\ Chronicles /\ Gated /\ Standing
  BY DEF IndInv
<1>2. parser \in DOMAIN began /\ UNCHANGED <<clock, parser, made, began, remote, night>>
  BY DEF Backfill
<1>3. /\ \/ Epoch(h, parser) = {} /\ operator' = [step |-> "publish", epochs |-> WriteEpoch(h, r)]
         \/ operator' = [step |-> "publish", epochs |-> h]
  BY DEF Backfill
<1>4. h \in History /\ Chronicle(h)
  BY <1>1, FetchedIsChronicle DEF TypeOK, Chronicles
<1>5. r \in Record /\ r.version = parser /\ r.at = began[parser].at
  BY <1>1, <1>2 DEF BackfillRecord, Record, TypeOK
<1>6. Starts(r.version, r.at)
  BY <1>1, <1>2, <1>5 DEF Gated
<1> HIDE DEF h, r
<1>7. PICK k \in History : Chronicle(k) /\ operator' = [step |-> "publish", epochs |-> k]
  <2>1. CASE Epoch(h, parser) = {} /\ operator' = [step |-> "publish", epochs |-> WriteEpoch(h, r)]
    BY <1>4, <1>5, <1>6, <2>1, RecordIsWritten, NewRecord
  <2>2. CASE operator' = [step |-> "publish", epochs |-> h]
    BY <1>4, <2>2
  <2> QED
    BY <1>3, <2>1, <2>2
<1>8. TypeOK'
  BY <1>1, <1>2, <1>7 DEF TypeOK
<1>9. Chronicles' /\ Gated' /\ Underway'
  <2>1. clock <= clock' /\ parser <= parser'
    BY <1>1, <1>2 DEF TypeOK
  <2>2. night' = NoRun \/ (night # NoRun /\ Chronicle(night'.epochs))
    BY <1>1, <1>2 DEF Chronicles
  <2> QED
    BY <1>1, <1>2, <1>7, <1>8, <2>1, <2>2, RefsMove DEF Chronicles
<1>10. Standing'
  BY <1>1, <1>2 DEF Standing
<1> QED
  BY <1>8, <1>9, <1>10 DEF IndInv

LEMMA PublishBackfillKeeps == IndInv /\ PublishBackfill => IndInv'
<1> SUFFICES ASSUME IndInv, PublishBackfill PROVE IndInv'
  OBVIOUS
<1>1. TypeOK /\ Chronicles /\ Standing
  BY DEF IndInv
<1>2. /\ operator' = [operator EXCEPT !.step = "none"]
      /\ UNCHANGED <<clock, parser, made, began, night>>
      /\ remote' = [remote EXCEPT !.epochs = operator.epochs] \/ UNCHANGED remote
  BY DEF PublishBackfill
<1>3. /\ remote' \in [main : Branch, proofs : Proofs, epochs : History]
      /\ remote'.main = remote.main /\ remote'.proofs = remote.proofs
      /\ remote'.epochs \in {remote.epochs, operator.epochs}
  BY <1>1, <1>2 DEF TypeOK
<1>4. operator' \in [step : {"none", "publish"}, epochs : History] /\ operator'.epochs = operator.epochs
  BY <1>1, <1>2 DEF TypeOK
<1>5. TypeOK'
  BY <1>1, <1>2, <1>3, <1>4 DEF TypeOK
<1>6. Chronicles' /\ Gated' /\ Underway'
  <2>1. clock <= clock' /\ parser <= parser'
    BY <1>1, <1>2 DEF TypeOK
  <2>2. night' = NoRun \/ (night # NoRun /\ Chronicle(night'.epochs))
    BY <1>1, <1>2 DEF Chronicles
  <2>3. Chronicle(remote'.epochs) /\ Chronicle(operator'.epochs)
    BY <1>1, <1>3, <1>4 DEF Chronicles
  <2> QED
    BY <1>2, <1>3, <1>5, <2>1, <2>2, <2>3, RefsMove
<1>7. Standing'
  BY <1>1, <1>2, <1>3 DEF Standing
<1> QED
  BY <1>5, <1>6, <1>7 DEF IndInv

\* What ends a run, and what moves neither refs nor states.
LEMMA RestKeeps ==
    ASSUME IndInv, StopRun \/ NewParser \/ Tick \/ UNCHANGED epochVars
    PROVE  IndInv'
<1>1. TypeOK /\ Chronicles /\ Standing
  BY DEF IndInv
<1>2. /\ UNCHANGED <<made, began, remote, operator>>
      /\ night' = NoRun \/ UNCHANGED night
      /\ clock' \in Nat /\ clock <= clock' /\ parser' \in Nat \ {0} /\ parser <= parser'
  BY <1>1 DEF StopRun, NewParser, Tick, epochVars, TypeOK
<1>3. TypeOK'
  BY <1>1, <1>2 DEF TypeOK
<1>4. Chronicles' /\ Gated' /\ Underway'
  <2>1. night' = NoRun \/ (night # NoRun /\ Chronicle(night'.epochs))
    BY <1>1, <1>2 DEF Chronicles
  <2> QED
    BY <1>1, <1>2, <1>3, <2>1, RefsMove DEF Chronicles
<1>5. Standing'
  BY <1>1, <1>2 DEF Standing, NoRun
<1> QED
  BY <1>3, <1>4, <1>5 DEF IndInv

LEMMA StepKeeps == IndInv /\ [EpochNext]_epochVars => IndInv'
  BY StartRunKeeps, RecordEpochKeeps, PublishEpochKeeps, MakeStateKeeps, RunGateKeeps,
     PushProofsKeeps, PushBranchKeeps, BackfillKeeps, PublishBackfillKeeps, RestKeeps
     DEF EpochNext

LEMMA EpochInvariance == EpochSpec => []IndInv
  BY InitHolds, StepKeeps, PTL DEF EpochSpec

-----------------------------------------------------------------------------
\* temporal_gate.py, served_reconciliation: however runs, their pushes and backfills fail and
\* overlap, no state that a run with the gate of a version has made is served as "unattested"
\* under it, with or without the proofs.
THEOREM NoGatedStateIsExcused == EpochSpec => []UnattestedIsPreGate
<1>1. IndInv => UnattestedIsPreGate
  <2> SUFFICES ASSUME IndInv,
                      NEW c \in ToSet(remote.main), NEW v \in 1..parser,
                      NEW proofs \in {{}, remote.proofs},
                      Served(c, v, proofs, remote.epochs) = "unattested"
               PROVE  c.by < v
    BY DEF UnattestedIsPreGate
  <2>1. TypeOK /\ Chronicle(remote.epochs)
    BY DEF IndInv, Chronicles
  <2>2. PICK r \in Epoch(remote.epochs, v) : c.date < r.at
    BY DEF Served
  <2>3. r \in Record /\ r.version = v
    BY <2>1, <2>2, RecordsTypes DEF Epoch, TypeOK
  <2>4. c \in State /\ c \in States
    BY <2>1, BranchStates DEF TypeOK, States
  <2>5. c.by >= v => r.at <= c.date
    BY <2>1, <2>2, <2>3, <2>4 DEF Chronicle, Epoch, Starts
  <2> QED
    BY <2>1, <2>2, <2>3, <2>4, <2>5 DEF State, Record, TypeOK
<1> QED
  BY <1>1, EpochInvariance, PTL

\* temporal_attestation.py, write_gate_epoch and push_gate_epochs: a record that has reached the
\* remote is never lost or changed there, and no version gets a second one.
THEOREM RecordsAreKept == EpochSpec => RecordsStand
<1>1. ASSUME IndInv, IndInv', [EpochNext]_epochVars
      PROVE  Records(remote.epochs) \subseteq Records(remote'.epochs)
  <2> DEFINE g == remote.epochs
             h == remote'.epochs
  <2>1. TypeOK /\ TypeOK' /\ Chronicles /\ Chronicles'
    BY <1>1 DEF IndInv
  <2>2. g \in History /\ h \in History
    BY <2>1 DEF TypeOK
  <2>3. h = g \/ IsPrefix(g, h)
    BY <1>1, <2>1 DEF TypeOK, EpochNext, epochVars, StartRun, RecordEpoch, PublishEpoch, MakeState,
      RunGate, PushProofs, PushBranch, StopRun, Backfill, PublishBackfill, NewParser, Tick, Pushable
  <2>4. \A i, j \in 1..Len(h) : i <= j => h[i] \subseteq h[j]
    BY <2>1 DEF Chronicles, Chronicle
  <2> HIDE DEF g, h
  <2>5. CASE IsPrefix(g, h) /\ g # <<>>
    <3>1. /\ Len(g) \in 1..Len(h) /\ Len(h) \in 1..Len(h) /\ Len(g) <= Len(h) /\ h # <<>>
          /\ SubSeq(g, 1, Len(g)) = SubSeq(h, 1, Len(g))
      BY <2>2, <2>5 DEF IsPrefix, History
    <3>2. g[Len(g)] = h[Len(g)]
      BY <2>2, <3>1 DEF History
    <3>3. h[Len(g)] \subseteq h[Len(h)]
      BY <2>4, <3>1
    <3> QED
      BY <2>5, <3>1, <3>2, <3>3 DEF Records, Last, g, h
  <2>6. CASE g = <<>>
    BY <2>6 DEF Records, g
  <2>7. CASE h = g
    BY <2>7 DEF g, h
  <2> QED
    BY <2>3, <2>5, <2>6, <2>7
<1> DEFINE OneEach == \A v \in 1..MaxVersion : Cardinality(Epoch(remote.epochs, v)) <= 1
<1>2. IndInv => OneEach
  <2> SUFFICES ASSUME IndInv, NEW v \in 1..MaxVersion
               PROVE  Cardinality(Epoch(remote.epochs, v)) <= 1
    OBVIOUS
  <2>1. \A r, s \in Epoch(remote.epochs, v) : r = s
    BY DEF IndInv, Chronicles, Chronicle, Epoch
  <2>2. CASE Epoch(remote.epochs, v) = {}
    BY <2>2, FS_EmptySet
  <2>3. CASE Epoch(remote.epochs, v) # {}
    <3>1. PICK r : Epoch(remote.epochs, v) = {r}
      BY <2>1, <2>3
    <3>2. Cardinality({r}) = 1
      BY FS_Singleton
    <3> QED
      BY <3>1, <3>2
  <2> QED
    BY <2>2, <2>3
<1>3. IndInv /\ IndInv' /\ OneEach' /\ [EpochNext]_epochVars =>
        [/\ Records(remote.epochs) \subseteq Records(remote'.epochs)
         /\ \A v \in 1..MaxVersion : Cardinality(Epoch(remote'.epochs, v)) <= 1]_epochVars
  BY <1>1 DEF Epoch, Records, Last
<1> HIDE DEF OneEach
<1> QED
  BY <1>2, <1>3, EpochInvariance, PTL DEF EpochSpec, RecordsStand
==============================================================================
