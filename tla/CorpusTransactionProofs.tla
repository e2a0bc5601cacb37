----------------------- MODULE CorpusTransactionProofs -----------------------
(***************************************************************************)
(* What holds of CorpusTransaction for any documents, renderings,          *)
(* processes and number of faults: the types; that a sandbox without a     *)
(* journal is whole; that a journal can be finished and rolled back; that  *)
(* a lapsed plan is never completed; that the sandbox implements           *)
(* AtomicDataset; and that its audit trail is true.  And of CorpusReader:  *)
(* a reader beside any number of commands and faults serves the dataset of *)
(* one moment.                                                             *)
(***************************************************************************)
EXTENDS CorpusReader, TLAPS

-----------------------------------------------------------------------------
(* The inductive invariant *)

\* A command that may write holds the lock.
Busy(p) == job[p].step \notin {"idle", "receipt"}
Held == \A p \in Process : Busy(p) => lock = p

\* A change that the dataset allows, and that changes something.
Valid(c) ==
    /\ c.base[c.doc] # c.target[c.doc]
    /\ \/ /\ c.action = "release"
          /\ c.base[c.doc] = Unlisted \/ Released(c.base, c.doc)
          /\ \E t \in Text : c.target = [c.base EXCEPT ![c.doc] = [text |-> t, withdrawn_at |-> Never]]
       \/ /\ c.action = "withdraw"
          /\ Released(c.base, c.doc)
          /\ \E at \in Moment :
                c.target = [c.base EXCEPT ![c.doc] = [text |-> c.base[c.doc].text,
                                                      withdrawn_at |-> at]]

\* What the files of a change hold before it.
Old(c) == [q \in Path |-> IF q \in Touched(c.doc) THEN Layout(c.base)[q] ELSE NoFile]

Settled == journal = NoJournal => \E m \in Manifest : tree = Layout(m)

\* A journal is of a valid change, of which each file is done or not, and its bytes are there.
Journaled ==
    journal # NoJournal =>
        /\ Valid(journal.decision)
        /\ journal.old = Old(journal.decision)
        /\ journal.new = After(journal.decision)
        /\ \A q \in Path \ Touched(journal.decision.doc) :
              tree[q] = Layout(journal.decision.base)[q]
        /\ \A q \in Touched(journal.decision.doc) : tree[q] \in {journal.old[q], journal.new[q]}
        /\ Bytes(journal.decision.doc, journal.old, journal.new) \subseteq staged

\* A release is carried out by a run that found its plan to hold.
Cleared(p, c) == c.action = "release" => job[p].plan = "holds"

\* What each step of a command has to go on.
Staging(p) ==
    /\ journal = NoJournal
    /\ job[p].decision \in Decision /\ Valid(job[p].decision)
    /\ tree = Layout(job[p].decision.base)
    /\ Cleared(p, job[p].decision)

Closing(p) ==
    /\ journal # NoJournal
    /\ \/ tree = Layout(journal.decision.base)
       \/ tree = Layout(journal.decision.target) /\ Cleared(p, journal.decision)

Going(p) ==
    /\ At(p, "stage") => Staging(p)
    /\ At(p, "replay") => journal # NoJournal /\ Cleared(p, journal.decision)
    /\ At(p, "undo") => journal # NoJournal
    /\ At(p, "clear") => Closing(p)
    /\ At(p, "unstage") \/ At(p, "decide") => journal = NoJournal
    /\ At(p, "decide") => job[p].then = "decide"
    /\ job[p].then = "decide" => job[p].asked \in Doc \X Moment
    /\ At(p, "receipt") \/ job[p].then = "receipt" => job[p].decision \in Decision

Underway == \A p \in Process : Going(p)

IndInv == TypeOK /\ Held /\ Settled /\ Journaled /\ Underway
USE NamesAssumption, JournalAssumption

-----------------------------------------------------------------------------
(* Datasets on disk                                                        *)

LEMMA Names ==
    /\ IndexFile \in Path /\ ManifestFile \in Path /\ \A d \in Doc : Touched(d) \subseteq Path
    /\ Empty \in Manifest
  BY DEF Path, Touched, Empty, Manifest

LEMMA LayoutType ==
    ASSUME NEW m \in Manifest
    PROVE  /\ IndexOf(m) \in Index
           /\ Layout(m) \in [Path -> Content]
<1>1. \A d \in Doc : Released(m, d) => m[d].text \in Text
  BY DEF Manifest, Member, Released
<1>2. IndexOf(m) \in Index
  BY <1>1 DEF IndexOf, Index
<1>3. \A q \in Path : Layout(m)[q] \in Content
  BY <1>1, <1>2 DEF Layout, Content, Path
<1> QED
  BY <1>2, <1>3 DEF Layout

\* The manifest is found in the files it demands.
LEMMA LayoutRead ==
    ASSUME NEW m \in Manifest
    PROVE  /\ ManifestIn(Layout(m)) = m
           /\ Layout(m)[ManifestFile] = NoFile <=> m = Empty
           /\ Layout(m)[ManifestFile] # NoFile => Layout(m)[ManifestFile] = m
  BY Names DEF ManifestIn, Layout

\* Two manifests that differ in one document demand the same other documents.
LEMMA LayoutElsewhere ==
    ASSUME NEW m \in Manifest, NEW n \in Manifest, NEW d \in Doc,
           \A e \in Doc : e # d => m[e] = n[e],
           NEW q \in Path, q \notin Touched(d)
    PROVE  Layout(m)[q] = Layout(n)[q]
<1>1. q \in Doc /\ q # d /\ q # IndexFile /\ q # ManifestFile
  BY DEF Path, Touched
<1>2. Released(m, q) <=> Released(n, q)
  BY <1>1 DEF Released
<1>3. ~Released(Empty, q)
  BY <1>1 DEF Empty, Released
<1> QED
  BY <1>1, <1>2, <1>3 DEF Layout

-----------------------------------------------------------------------------
(* Decisions                                                               *)

LEMMA PlanIsValid ==
    ASSUME NEW d \in Doc, NEW t \in Text, NEW m \in Manifest,
           m[d] = Unlisted \/ Released(m, d),
           m[d] # [text |-> t, withdrawn_at |-> Never]
    PROVE  /\ PlanOf(d, t, m) \in Decision
           /\ Valid(PlanOf(d, t, m))
           /\ PlanOf(d, t, m).base = m
<1>1. [m EXCEPT ![d] = [text |-> t, withdrawn_at |-> Never]] \in Manifest
  BY DEF Manifest, Member
<1> QED
  BY <1>1 DEF PlanOf, Decision, Valid, Manifest

LEMMA IntentIsValid ==
    ASSUME NEW d \in Doc, NEW at \in Moment, NEW m \in Manifest, Released(m, d)
    PROVE  /\ IntentOf(d, at, m) \in Decision
           /\ Valid(IntentOf(d, at, m))
           /\ IntentOf(d, at, m).base = m
           /\ IntentOf(d, at, m).action = "withdraw"
<1>1. m[d] \in Member /\ m[d].withdrawn_at = Never
  BY DEF Released, Manifest
<1>2. [m EXCEPT ![d] = [text |-> m[d].text, withdrawn_at |-> at]] \in Manifest
  BY <1>1 DEF Manifest, Member
<1> DEFINE c == IntentOf(d, at, m)
<1>3. c \in Decision /\ c.base = m /\ c.action = "withdraw" /\ c.doc = d
  BY <1>2 DEF IntentOf, Decision
<1>4. c.target = [m EXCEPT ![d] = [text |-> m[d].text, withdrawn_at |-> at]]
  BY DEF IntentOf
<1>5. c.target[d].withdrawn_at = at /\ at # Never
  BY <1>4 DEF Manifest
<1>6. c.base[c.doc] # c.target[c.doc]
  BY <1>1, <1>3, <1>5
<1> QED
  BY <1>3, <1>4, <1>6 DEF Valid

\* A valid change leaves the other documents alone.
LEMMA ValidElsewhere ==
    ASSUME NEW c \in Decision, Valid(c), NEW q \in Path, q \notin Touched(c.doc)
    PROVE  Layout(c.base)[q] = Layout(c.target)[q]
<1>1. \A e \in Doc : e # c.doc => c.base[e] = c.target[e]
  BY DEF Valid, Decision, Manifest
<1> QED
  BY <1>1, LayoutElsewhere DEF Decision
-----------------------------------------------------------------------------
(* What one update of job does, field by field                             *)

LEMMA NoJobType == NoJob \in Job
  BY DEF NoJob, Job, Step, Then

\* The jobs that commands begin with and go on with.
LEMMA JobTypes ==
    /\ \A s \in Step, n \in 0..4, c \in Decision, v \in {"holds", "lapsed"} :
          /\ Releasing(s, n, c, v) \in Job
          /\ Releasing(s, n, c, v).step = s /\ Releasing(s, n, c, v).then = "done"
          /\ Releasing(s, n, c, v).decision = c /\ Releasing(s, n, c, v).plan = v
    /\ \A s \in Step, n \in 0..4, c \in Decision \cup {NoDecision}, a \in Doc \X Moment :
          /\ Asking(s, n, c, a) \in Job
          /\ Asking(s, n, c, a).step = s /\ Asking(s, n, c, a).then = "decide"
          /\ Asking(s, n, c, a).asked = a
    /\ \A s \in Step, c \in Decision :
          /\ Recording(s, c) \in Job
          /\ Recording(s, c).step = s /\ Recording(s, c).then = "receipt"
          /\ Recording(s, c).decision = c
<1>1. ASSUME NEW s \in Step, NEW n \in 0..4, NEW c \in Decision, NEW v \in {"holds", "lapsed"}
      PROVE  Releasing(s, n, c, v) \in Job
  BY NoJobType DEF Job, Releasing
<1>2. ASSUME NEW s \in Step, NEW n \in 0..4, NEW c \in Decision \cup {NoDecision},
             NEW a \in Doc \X Moment
      PROVE  Asking(s, n, c, a) \in Job
  BY NoJobType DEF Job, Then, Asking
<1>3. ASSUME NEW s \in Step, NEW c \in Decision
      PROVE  Recording(s, c) \in Job
  BY NoJobType DEF Job, Then, Recording
<1>4. ASSUME NEW s \in Step, NEW n \in 0..4, NEW c \in Decision, NEW v \in {"holds", "lapsed"}
      PROVE  /\ Releasing(s, n, c, v).step = s /\ Releasing(s, n, c, v).then = "done"
             /\ Releasing(s, n, c, v).decision = c /\ Releasing(s, n, c, v).plan = v
  BY DEF NoJob, Releasing
<1>5. ASSUME NEW s \in Step, NEW n \in 0..4, NEW c \in Decision \cup {NoDecision},
             NEW a \in Doc \X Moment
      PROVE  /\ Asking(s, n, c, a).step = s /\ Asking(s, n, c, a).then = "decide"
             /\ Asking(s, n, c, a).asked = a
  BY DEF NoJob, Asking
<1>6. ASSUME NEW s \in Step, NEW c \in Decision
      PROVE  /\ Recording(s, c).step = s /\ Recording(s, c).then = "receipt"
             /\ Recording(s, c).decision = c
  BY DEF NoJob, Recording
<1> QED
  BY <1>1, <1>2, <1>3, <1>4, <1>5, <1>6

LEMMA StartEffect ==
    ASSUME TypeOK, NEW p \in Process, NEW j \in Job, Start(p, j)
    PROVE  /\ job' \in [Process -> Job] /\ job'[p] = j
           /\ \A q \in Process : q # p => job'[q] = job[q]
           /\ lock = Free /\ lock' = p
  BY DEF TypeOK, Start

LEMMA GotoEffect ==
    ASSUME TypeOK, NEW p \in Process, NEW s \in Step, Goto(p, s)
    PROVE  /\ job' \in [Process -> Job]
           /\ job'[p].step = s /\ job'[p].at = job[p].at /\ job'[p].then = job[p].then
           /\ job'[p].decision = job[p].decision /\ job'[p].asked = job[p].asked
           /\ job'[p].plan = job[p].plan
           /\ \A q \in Process : q # p => job'[q] = job[q]
  BY DEF TypeOK, Goto, Job

LEMMA LeaveEffect ==
    ASSUME TypeOK, NEW p \in Process, NEW j \in Job, Leave(p, j)
    PROVE  /\ job' \in [Process -> Job] /\ job'[p] = j
           /\ \A q \in Process : q # p => job'[q] = job[q]
           /\ lock' \in Process \cup {Free, Stale}
  BY DEF TypeOK, Leave

-----------------------------------------------------------------------------
(* The lock                                                                *)

\* Nobody else writes while a command that may write runs, or as one begins.
LEMMA Alone ==
    ASSUME Held, NEW p \in Process, Busy(p) \/ lock = Free, NEW q \in Process, q # p
    PROVE  ~Busy(q)
  BY DEF Held

\* A step of p leaves only p's own standing to show.
LEMMA OneGoes ==
    ASSUME Held, Underway, NEW p \in Process, Busy(p) \/ lock = Free,
           \A q \in Process : q # p => job'[q] = job[q],
           Busy(p)' => lock' = p, Going(p)'
    PROVE  Held' /\ Underway'
<1>1. ASSUME NEW q \in Process, q # p
      PROVE  ~Busy(q)' /\ Going(q)'
  <2>1. ~Busy(q)
    BY <1>1, Alone
  <2>2. job'[q] = job[q] /\ Going(q)
    BY <1>1 DEF Underway
  <2> QED
    BY <2>1, <2>2 DEF Busy, Going, At
<1> QED
  BY <1>1 DEF Held, Underway

\* A command that ends, and a receipt that is written, touch nothing that anyone rests on.
LEMMA LeaveKeeps ==
    ASSUME IndInv, NEW p \in Process, NEW j \in Job, Leave(p, j),
           j = NoJob \/ \E c \in Decision : j = Recording("receipt", c),
           UNCHANGED sandbox,
           intents' \subseteq Decision, receipts' \subseteq Decision, faults' \in Nat
    PROVE  IndInv'
<1>1. TypeOK'
  BY LeaveEffect DEF IndInv, TypeOK, sandbox
<1>2. Settled' /\ Journaled'
  BY DEF IndInv, Settled, Journaled, sandbox
<1>3. ~Busy(p)' /\ Going(p)'
  BY LeaveEffect, JobTypes DEF IndInv, Busy, Going, At, NoJob, Step
<1>4. ASSUME NEW q \in Process, q # p
      PROVE  (Busy(q)' => lock' = q) /\ Going(q)'
  <2>1. job'[q] = job[q] /\ (lock' # lock => lock = p)
    BY <1>4, LeaveEffect DEF IndInv, Leave
  <2>2. Going(q) /\ (Busy(q) => lock = q)
    BY DEF IndInv, Underway, Held
  <2>3. Going(q)'
    BY <2>1, <2>2 DEF Going, At, Staging, Closing, Cleared, sandbox
  <2> QED
    BY <1>4, <2>1, <2>2, <2>3 DEF Busy
<1> QED
  BY <1>1, <1>2, <1>3, <1>4 DEF IndInv, Held, Underway
-----------------------------------------------------------------------------
(* One lemma per action                                                    *)

LEMMA SettledRead ==
    ASSUME Settled, journal = NoJournal
    PROVE  ManifestIn(tree) \in Manifest /\ tree = Layout(ManifestIn(tree))
  BY LayoutRead DEF Settled

LEMMA BeginReleaseKeeps ==
    ASSUME IndInv, NEW p \in Process, NEW d \in Doc, NEW t \in Text, BeginRelease(p, d, t)
    PROVE  IndInv'
<1> DEFINE m == ManifestIn(tree)
           c == PlanOf(d, t, m)
           j == Releasing("stage", 0, c, "holds")
<1>1. m \in Manifest /\ tree = Layout(m)
  BY SettledRead DEF IndInv, BeginRelease
<1>2. c \in Decision /\ Valid(c) /\ c.base = m
  BY <1>1, PlanIsValid DEF BeginRelease
<1>3. j \in Job /\ j.step = "stage" /\ j.then = "done" /\ j.decision = c /\ j.plan = "holds"
  BY <1>2, JobTypes DEF Step
<1>4. Start(p, j) /\ journal = NoJournal /\ UNCHANGED <<sandbox, workspace, faults>>
  BY DEF BeginRelease
<1> HIDE DEF c, j, m
<1>5. /\ job' \in [Process -> Job] /\ job'[p] = j
      /\ \A q \in Process : q # p => job'[q] = job[q]
      /\ lock = Free /\ lock' = p
  BY <1>3, <1>4, StartEffect DEF IndInv
<1>6. TypeOK' /\ Settled' /\ Journaled'
  BY <1>4, <1>5 DEF IndInv, TypeOK, Settled, Journaled, sandbox, workspace
<1>7. Going(p)'
  BY <1>1, <1>2, <1>3, <1>4, <1>5 DEF Going, At, Staging, Cleared, sandbox
<1> QED
  BY <1>5, <1>6, <1>7, OneGoes DEF IndInv

LEMMA ResumeKeeps == ASSUME IndInv, NEW p \in Process, Resume(p) PROVE IndInv'
<1>1. /\ journal # NoJournal /\ journal.decision \in Decision
      /\ UNCHANGED <<sandbox, workspace, faults>>
  BY DEF IndInv, TypeOK, Resume, Journal
<1>2. PICK j \in Job :
        /\ Start(p, j)
        /\ j.then = "done"
        /\ \/ j.step = "replay" /\ j.plan = "holds"
           \/ j.step = "undo"
  <2>1. \/ Start(p, Releasing("replay", 1, journal.decision, "holds"))
        \/ Start(p, Releasing("undo", 3, journal.decision, "lapsed"))
    BY DEF Resume
  <2> QED
    BY <1>1, <2>1, JobTypes DEF Step
<1>3. /\ job' \in [Process -> Job] /\ job'[p] = j
      /\ \A q \in Process : q # p => job'[q] = job[q]
      /\ lock = Free /\ lock' = p
  BY <1>2, StartEffect DEF IndInv
<1>4. TypeOK' /\ Settled' /\ Journaled'
  BY <1>1, <1>3 DEF IndInv, TypeOK, Settled, Journaled, sandbox, workspace
<1>5. Going(p)'
  BY <1>1, <1>2, <1>3 DEF Going, At, Cleared, sandbox
<1> QED
  BY <1>3, <1>4, <1>5, OneGoes DEF IndInv

LEMMA BeginWithdrawKeeps ==
    ASSUME IndInv, NEW p \in Process, NEW d \in Doc, NEW at \in Moment, BeginWithdraw(p, d, at)
    PROVE  IndInv'
<1>1. UNCHANGED <<sandbox, workspace, faults>>
  BY DEF BeginWithdraw
<1>2. PICK j \in Job :
        /\ Start(p, j)
        /\ j.then = "decide" /\ j.asked \in Doc \X Moment
        /\ \/ j.step = "decide" /\ journal = NoJournal
           \/ j.step = "undo" /\ journal # NoJournal
           \/ j.step = "replay" /\ journal # NoJournal /\ journal.decision.action = "withdraw"
  <2>1. PICK a \in Doc \X Moment : a = <<d, at>>
    OBVIOUS
  <2>2. journal # NoJournal =>
          /\ journal.decision \in Decision
          /\ journal.decision.action \in {"release", "withdraw"}
    BY DEF IndInv, TypeOK, Journal, Decision
  <2>3. \/ journal = NoJournal /\ Start(p, Asking("decide", 0, NoDecision, a))
        \/ /\ journal # NoJournal
           /\ Start(p, Asking("undo", 3, journal.decision, a))
        \/ /\ journal # NoJournal /\ journal.decision.action = "withdraw"
           /\ Start(p, Asking("replay", 1, journal.decision, a))
    BY <2>1, <2>2 DEF BeginWithdraw
  <2> QED
    BY <2>2, <2>3, JobTypes DEF Step
<1>3. /\ job' \in [Process -> Job] /\ job'[p] = j
      /\ \A q \in Process : q # p => job'[q] = job[q]
      /\ lock = Free /\ lock' = p
  BY <1>2, StartEffect DEF IndInv
<1>4. TypeOK' /\ Settled' /\ Journaled'
  BY <1>1, <1>3 DEF IndInv, TypeOK, Settled, Journaled, sandbox, workspace
<1>5. Going(p)'
  BY <1>1, <1>2, <1>3 DEF Going, At, Cleared, sandbox
<1> QED
  BY <1>3, <1>4, <1>5, OneGoes DEF IndInv
LEMMA EndsKeep ==
    ASSUME IndInv, NEW p \in Process,
           Answer(p) \/ NothingToWithdraw(p) \/ WriteReceipt(p) \/ Fail(p)
    PROVE  IndInv'
<1>1. CASE Answer(p)
  <2>1. PICK c \in intents : Leave(p, Recording("receipt", c))
    BY <1>1 DEF Answer, Answering
  <2>2. c \in Decision
    BY DEF IndInv, TypeOK
  <2>3. Recording("receipt", c) \in Job
    BY <2>2, JobTypes DEF Step
  <2>4. UNCHANGED <<sandbox, workspace, faults>>
    BY <1>1 DEF Answer
  <2> QED
    BY <2>1, <2>2, <2>3, <2>4, LeaveKeeps DEF IndInv, TypeOK, workspace
<1>2. CASE NothingToWithdraw(p)
  BY <1>2, NoJobType, LeaveKeeps DEF NothingToWithdraw, Exit, IndInv, TypeOK, workspace
<1>3. CASE WriteReceipt(p)
  <2>1. job[p].decision \in Decision
    BY <1>3 DEF WriteReceipt, IndInv, Underway, Going
  <2> QED
    BY <1>3, <2>1, NoJobType, LeaveKeeps DEF WriteReceipt, Exit, IndInv, TypeOK
<1>4. CASE Fail(p)
  BY <1>4, NoJobType, LeaveKeeps DEF Fail, Exit, IndInv, TypeOK, workspace
<1> QED
  BY <1>1, <1>2, <1>3, <1>4

LEMMA DecideKeeps == ASSUME IndInv, NEW p \in Process, Decide(p) PROVE IndInv'
<1> DEFINE m == ManifestIn(tree)
           c == IntentOf(job[p].asked[1], job[p].asked[2], m)
<1>1. At(p, "decide") /\ Busy(p) /\ lock = p /\ lock' = lock
  BY DEF Decide, Busy, At, IndInv, Held
<1>2. journal = NoJournal /\ job[p].asked[1] \in Doc /\ job[p].asked[2] \in Moment
  BY <1>1 DEF IndInv, Underway, Going
<1>3. m \in Manifest /\ tree = Layout(m)
  BY <1>2, SettledRead DEF IndInv
<1>4. c \in Decision /\ Valid(c) /\ c.base = m /\ c.action = "withdraw"
  BY <1>2, <1>3, IntentIsValid DEF Decide
<1>5. /\ Recording("stage", c) \in Job /\ Recording("stage", c).step = "stage"
      /\ Recording("stage", c).then = "receipt" /\ Recording("stage", c).decision = c
  BY <1>4, JobTypes DEF Step
<1>6. /\ job' = [job EXCEPT ![p] = Recording("stage", c)] /\ intents' = intents \cup {c}
      /\ UNCHANGED <<sandbox, receipts, faults>>
  BY DEF Decide
<1> HIDE DEF c, m
<1>7. /\ job' \in [Process -> Job] /\ job'[p] = Recording("stage", c)
      /\ \A q \in Process : q # p => job'[q] = job[q]
  BY <1>5, <1>6 DEF IndInv, TypeOK
<1>8. TypeOK' /\ Settled' /\ Journaled'
  BY <1>1, <1>4, <1>6, <1>7 DEF IndInv, TypeOK, Settled, Journaled, sandbox
<1>9. Going(p)'
  BY <1>2, <1>3, <1>4, <1>5, <1>6, <1>7 DEF Going, At, Staging, Cleared, sandbox
<1> QED
  BY <1>1, <1>7, <1>8, <1>9, OneGoes DEF IndInv

\* What a valid change stages is bytes, never an absent file.
LEMMA NeededType ==
    ASSUME IndInv, NEW p \in Process, At(p, "stage")
    PROVE  /\ Before(job[p].decision.doc) = Old(job[p].decision)
           /\ Before(job[p].decision.doc) \in [Path -> Content]
           /\ After(job[p].decision) \in [Path -> Content]
           /\ Needed(p) \subseteq Content \ {NoFile}
<1> DEFINE c == job[p].decision
<1>1. c \in Decision /\ tree = Layout(c.base)
  BY DEF IndInv, Underway, Going, Staging
<1>2. Layout(c.base) \in [Path -> Content] /\ Layout(c.target) \in [Path -> Content]
  BY <1>1, LayoutType DEF Decision
<1>3. NoFile \in Content
  BY DEF Content
<1>4. /\ Before(c.doc) \in [Path -> Content] /\ After(c) \in [Path -> Content]
      /\ Before(c.doc) = Old(c)
  BY <1>1, <1>2, <1>3 DEF Before, After, Old
<1>5. Touched(c.doc) \subseteq Path
  BY <1>1, Names DEF Decision
<1> QED
  BY <1>4, <1>5 DEF Needed, Bytes

LEMMA StageLeafKeeps == ASSUME IndInv, NEW p \in Process, StageLeaf(p) PROVE IndInv'
<1>1. At(p, "stage") /\ Busy(p) /\ journal = NoJournal
  BY DEF StageLeaf, IndInv, Underway, Going, Staging, Busy, At
<1>2. staged' \subseteq Content \ {NoFile}
  BY <1>1, NeededType DEF StageLeaf, IndInv, TypeOK
<1>3. UNCHANGED <<tree, journal, lock, workspace, faults, job>>
  BY DEF StageLeaf
<1>4. TypeOK' /\ Settled' /\ Journaled'
  BY <1>1, <1>2, <1>3 DEF IndInv, TypeOK, Settled, Journaled, workspace
<1>5. Held' /\ Underway'
  BY <1>3 DEF IndInv, Held, Underway, Busy, Going, At, Staging, Closing, Cleared
<1> QED
  BY <1>4, <1>5 DEF IndInv

LEMMA WriteJournalKeeps == ASSUME IndInv, NEW p \in Process, WriteJournal(p) PROVE IndInv'
<1> DEFINE c == job[p].decision
<1>1. At(p, "stage") /\ Busy(p) /\ lock = p /\ lock' = lock
  BY DEF WriteJournal, Busy, At, IndInv, Held
<1>2. c \in Decision /\ Valid(c) /\ tree = Layout(c.base) /\ Cleared(p, c)
  BY <1>1 DEF IndInv, Underway, Going, Staging
<1>3. /\ Before(c.doc) = Old(c)
      /\ Before(c.doc) \in [Path -> Content] /\ After(c) \in [Path -> Content]
  BY <1>1, NeededType
<1>4. /\ journal' = [decision |-> c, old |-> Before(c.doc), new |-> After(c)]
      /\ UNCHANGED <<tree, staged, workspace, faults>>
  BY DEF WriteJournal
<1>5. /\ journal' \in Journal /\ journal' # NoJournal /\ journal'.decision = c
      /\ journal'.old = Old(c) /\ journal'.new = After(c)
  BY <1>2, <1>3, <1>4 DEF Journal
<1>6. Bytes(c.doc, Old(c), After(c)) \subseteq staged
  BY <1>3 DEF WriteJournal, Needed
<1>7. \A q \in Touched(c.doc) : q \in Path /\ tree[q] = Old(c)[q]
  BY <1>2, Names DEF Old, Decision
<1>8. /\ job' \in [Process -> Job]
      /\ job'[p].step = "replay" /\ job'[p].then = job[p].then
      /\ job'[p].decision = job[p].decision /\ job'[p].asked = job[p].asked
      /\ job'[p].plan = job[p].plan
      /\ \A q \in Process : q # p => job'[q] = job[q]
  <2> DEFINE k == [job[p] EXCEPT !.step = "replay", !.at = 1]
  <2>1. /\ k \in Job /\ k.step = "replay" /\ k.then = job[p].then
        /\ k.decision = job[p].decision /\ k.asked = job[p].asked /\ k.plan = job[p].plan
    <3>1. job[p] \in Job /\ "replay" \in Step /\ 1 \in 0..4
      BY DEF IndInv, TypeOK, Step
    <3> QED
      BY <3>1 DEF Job
  <2>2. job' = [job EXCEPT ![p] = k]
    BY DEF WriteJournal
  <2> HIDE DEF k
  <2> QED
    BY <2>1, <2>2 DEF IndInv, TypeOK
<1> HIDE DEF c
<1>9. TypeOK' /\ Settled'
  BY <1>1, <1>4, <1>5, <1>8 DEF IndInv, TypeOK, Settled, workspace
<1>10. Journaled'
  BY <1>2, <1>4, <1>5, <1>6, <1>7 DEF Journaled
<1>11. Going(p)'
  BY <1>1, <1>2, <1>5, <1>8 DEF IndInv, Underway, Going, At, Cleared, c
<1> QED
  BY <1>1, <1>8, <1>9, <1>10, <1>11, OneGoes DEF IndInv
LEMMA OperationType ==
    ASSUME NEW d \in Doc, NEW i \in 1..3
    PROVE  Operation(d, i) \in Touched(d) /\ Operation(d, i) \in Path
  BY Names DEF Operation, Touched

\* One file of the journaled change is made to hold its old or its new bytes.
LEMMA MakeKeeps ==
    ASSUME IndInv, NEW p \in Process, At(p, "replay") \/ At(p, "undo"),
           NEW i \in 1..3, NEW bytes,
           LET q == Operation(journal.decision.doc, i) IN
           bytes \in {journal.old[q], journal.new[q]} /\ Make(q, bytes),
           NEW n \in 0..4, job' = [job EXCEPT ![p].at = n],
           UNCHANGED <<staged, journal, lock, workspace, faults>>
    PROVE  IndInv'
<1> DEFINE q == Operation(journal.decision.doc, i)
<1>1. Busy(p) /\ lock = p
  BY DEF Busy, At, IndInv, Held
<1>2. journal # NoJournal
  BY DEF IndInv, Underway, Going
<1>3. journal \in Journal /\ journal.decision \in Decision
  BY <1>2 DEF IndInv, TypeOK, Journal
<1>4. q \in Touched(journal.decision.doc) /\ q \in Path
  BY <1>3, OperationType DEF Decision
<1>5. bytes \in Content /\ tree' = [tree EXCEPT ![q] = bytes]
  BY <1>3, <1>4 DEF Make, Journal
<1>6. /\ job' \in [Process -> Job]
      /\ job'[p].step = job[p].step /\ job'[p].then = job[p].then
      /\ job'[p].decision = job[p].decision /\ job'[p].asked = job[p].asked
      /\ job'[p].plan = job[p].plan
      /\ \A r \in Process : r # p => job'[r] = job[r]
  BY DEF IndInv, TypeOK, Job
<1> HIDE DEF q
<1>7. TypeOK' /\ Settled'
  BY <1>2, <1>5, <1>6 DEF IndInv, TypeOK, Settled, workspace
<1>8. Journaled'
  BY <1>4, <1>5 DEF IndInv, TypeOK, Journaled, q
<1>9. Going(p)'
  BY <1>2, <1>6 DEF IndInv, Underway, Going, At, Cleared
<1> QED
  BY <1>1, <1>6, <1>7, <1>8, <1>9, OneGoes DEF IndInv

LEMMA PerformKeeps == ASSUME IndInv, NEW p \in Process, Perform(p) PROVE IndInv'
<1>1. job[p].at \in 1..3 /\ job[p].at + 1 \in 0..4
  BY DEF Perform
<1>2. job' = [job EXCEPT ![p].at = job[p].at + 1]
  BY DEF Perform, IndInv, TypeOK
<1> QED
  BY <1>1, <1>2, MakeKeeps DEF Perform

LEMMA UndoKeeps == ASSUME IndInv, NEW p \in Process, Undo(p) PROVE IndInv'
<1>1. job[p].at \in 1..3 /\ job[p].at - 1 \in 0..4
  BY DEF Undo
<1>2. job' = [job EXCEPT ![p].at = job[p].at - 1]
  BY DEF Undo, IndInv, TypeOK
<1> QED
  BY <1>1, <1>2, MakeKeeps DEF Undo

LEMMA VerifiedKeeps == ASSUME IndInv, NEW p \in Process, Verified(p) PROVE IndInv'
<1>1. /\ At(p, "replay") \/ At(p, "undo")
      /\ Busy(p) /\ lock = p /\ lock' = lock /\ UNCHANGED <<sandbox, workspace, faults>>
  BY DEF Verified, Busy, At, IndInv, Held
<1>2. journal # NoJournal /\ journal.decision \in Decision
  BY <1>1 DEF IndInv, Underway, Going, TypeOK, Journal
<1>3. Closing(p)
  <2>1. tree = Layout(ManifestIn(tree))
    BY DEF Verified, Sound
  <2>2. CASE At(p, "replay") /\ ManifestIn(tree) = journal.decision.target
    BY <1>2, <2>1, <2>2 DEF Closing, IndInv, Underway, Going
  <2>3. CASE tree[ManifestFile] = journal.old[ManifestFile]
    <3> DEFINE m == journal.decision.base
    <3>1. m \in Manifest
      BY <1>2 DEF Decision
    <3>2. tree[ManifestFile] = Layout(m)[ManifestFile]
      BY <1>2, <2>3, Names DEF IndInv, Journaled, Old, Touched
    <3>3. ManifestIn(tree) = m
      BY <3>1, <3>2, LayoutRead DEF ManifestIn
    <3> QED
      BY <1>2, <2>1, <3>3 DEF Closing
  <2> QED
    BY <2>2, <2>3 DEF Verified
<1>4. /\ job' \in [Process -> Job]
      /\ job'[p].step = "clear" /\ job'[p].then = job[p].then
      /\ job'[p].decision = job[p].decision /\ job'[p].asked = job[p].asked
      /\ job'[p].plan = job[p].plan
      /\ \A q \in Process : q # p => job'[q] = job[q]
  BY GotoEffect DEF Verified, IndInv, Step
<1>5. TypeOK' /\ Settled' /\ Journaled'
  BY <1>1, <1>4 DEF IndInv, TypeOK, Settled, Journaled, sandbox, workspace
<1>6. Going(p)'
  BY <1>1, <1>3, <1>4 DEF IndInv, Underway, Going, At, Closing, Cleared, sandbox
<1> QED
  BY <1>1, <1>4, <1>5, <1>6, OneGoes DEF IndInv

LEMMA ClearKeeps == ASSUME IndInv, NEW p \in Process, Clear(p) PROVE IndInv'
<1>1. /\ At(p, "clear") /\ Busy(p) /\ lock = p /\ lock' = lock /\ journal' = NoJournal
      /\ UNCHANGED <<tree, staged, workspace, faults>>
  BY DEF Clear, Busy, At, IndInv, Held
<1>2. \E m \in Manifest : tree = Layout(m)
  <2>1. Closing(p) /\ journal.decision \in Decision
    BY <1>1 DEF IndInv, Underway, Going, Closing, TypeOK, Journal
  <2> QED
    BY <2>1 DEF Closing, Decision
<1>3. /\ job' \in [Process -> Job]
      /\ job'[p].step = "unstage" /\ job'[p].then = job[p].then
      /\ job'[p].decision = job[p].decision /\ job'[p].asked = job[p].asked
      /\ \A q \in Process : q # p => job'[q] = job[q]
  BY GotoEffect DEF Clear, IndInv, Step
<1>4. TypeOK' /\ Settled' /\ Journaled'
  BY <1>1, <1>2, <1>3 DEF IndInv, TypeOK, Settled, Journaled, workspace
<1>5. Going(p)'
  BY <1>1, <1>3 DEF IndInv, Underway, Going, At
<1> QED
  BY <1>1, <1>3, <1>4, <1>5, OneGoes DEF IndInv
LEMMA UnstageKeeps == ASSUME IndInv, NEW p \in Process, Unstage(p) PROVE IndInv'
<1>1. /\ At(p, "unstage") /\ Busy(p) /\ lock = p /\ staged' = {}
      /\ UNCHANGED <<tree, journal, workspace, faults>>
  BY DEF Unstage, Busy, At, IndInv, Held
<1>2. journal = NoJournal /\ job[p].then \in Then
  BY <1>1 DEF IndInv, Underway, Going, TypeOK, Job
<1>3. ASSUME job' \in [Process -> Job], \A q \in Process : q # p => job'[q] = job[q],
             lock' \in Process \cup {Free, Stale}, Busy(p)' => lock' = p, Going(p)'
      PROVE  IndInv'
  <2>1. TypeOK' /\ Settled' /\ Journaled'
    BY <1>1, <1>2, <1>3 DEF IndInv, TypeOK, Settled, Journaled, workspace
  <2> QED
    BY <1>1, <1>3, <2>1, OneGoes DEF IndInv
<1>4. CASE job[p].then = "done"
  <2>1. Leave(p, NoJob)
    BY <1>4 DEF Unstage, Exit
  <2>2. ~Busy(p)' /\ Going(p)'
    BY <2>1, NoJobType, LeaveEffect DEF IndInv, Busy, Going, At, NoJob
  <2> QED
    BY <1>3, <2>1, <2>2, NoJobType, LeaveEffect DEF IndInv
<1>5. CASE job[p].then = "decide"
  <2>1. Goto(p, "decide") /\ lock' = lock
    BY <1>5 DEF Unstage
  <2>2. /\ job' \in [Process -> Job]
        /\ job'[p].step = "decide" /\ job'[p].then = "decide" /\ job'[p].asked = job[p].asked
        /\ \A q \in Process : q # p => job'[q] = job[q]
    BY <1>5, <2>1, GotoEffect DEF IndInv, Step
  <2>3. Going(p)'
    BY <1>1, <1>2, <1>5, <2>2 DEF IndInv, Underway, Going, At
  <2> QED
    BY <1>1, <1>3, <2>1, <2>2, <2>3 DEF IndInv, TypeOK
<1>6. CASE job[p].then = "receipt"
  <2>1. job[p].decision \in Decision
    BY <1>6 DEF IndInv, Underway, Going
  <2>2. Leave(p, Recording("receipt", job[p].decision))
    BY <1>6 DEF Unstage
  <2>3. /\ Recording("receipt", job[p].decision) \in Job
        /\ Recording("receipt", job[p].decision).step = "receipt"
        /\ Recording("receipt", job[p].decision).then = "receipt"
        /\ Recording("receipt", job[p].decision).decision = job[p].decision
    BY <2>1, JobTypes DEF Step
  <2>4. /\ job' \in [Process -> Job] /\ job'[p] = Recording("receipt", job[p].decision)
        /\ \A q \in Process : q # p => job'[q] = job[q]
        /\ lock' \in Process \cup {Free, Stale}
    BY <2>2, <2>3, LeaveEffect DEF IndInv
  <2>5. ~Busy(p)' /\ Going(p)'
    BY <2>1, <2>3, <2>4 DEF Busy, Going, At
  <2> QED
    BY <1>3, <2>4, <2>5
<1> QED
  BY <1>2, <1>4, <1>5, <1>6 DEF Then

LEMMA CrashKeeps == ASSUME IndInv, NEW p \in Process, Crash(p) PROVE IndInv'
<1>1. /\ job' = [job EXCEPT ![p] = NoJob] /\ lock' = IF lock = p THEN Stale ELSE lock
      /\ faults' = faults + 1 /\ UNCHANGED <<sandbox, workspace>>
  BY DEF Crash
<1>2. /\ job' \in [Process -> Job] /\ job'[p] = NoJob
      /\ \A q \in Process : q # p => job'[q] = job[q]
  BY <1>1, NoJobType DEF IndInv, TypeOK
<1>3. TypeOK' /\ Settled' /\ Journaled'
  BY <1>1, <1>2 DEF IndInv, TypeOK, Settled, Journaled, sandbox, workspace
<1>4. ~Busy(p)' /\ Going(p)'
  BY <1>2 DEF Busy, Going, At, NoJob
<1>5. ASSUME NEW q \in Process, q # p
      PROVE  (Busy(q)' => lock' = q) /\ Going(q)'
  <2>1. job'[q] = job[q] /\ Going(q) /\ (Busy(q) => lock = q)
    BY <1>2, <1>5 DEF IndInv, Underway, Held
  <2> QED
    BY <1>1, <1>5, <2>1 DEF Busy, Going, At, Staging, Closing, Cleared, sandbox
<1> QED
  BY <1>3, <1>4, <1>5 DEF IndInv, Held, Underway

LEMMA RemoveLockKeeps == ASSUME IndInv, RemoveLock PROVE IndInv'
<1>1. TypeOK' /\ Settled' /\ Journaled'
  BY DEF RemoveLock, IndInv, TypeOK, Settled, Journaled, sandbox, workspace
<1>2. Held' /\ Underway'
  BY DEF RemoveLock, IndInv, Held, Underway, Busy, Going, At, Staging, Closing, Cleared, sandbox
<1> QED
  BY <1>1, <1>2 DEF IndInv

-----------------------------------------------------------------------------
(* The invariant                                                           *)

LEMMA Initially == Init => IndInv
<1> SUFFICES ASSUME Init PROVE IndInv
  OBVIOUS
<1>1. tree = Layout(Empty) /\ journal = NoJournal /\ job = [p \in Process |-> NoJob]
  BY DEF Init
<1>2. TypeOK
  BY <1>1, Names, LayoutType, NoJobType DEF Init, TypeOK
<1>3. Settled /\ Journaled
  BY <1>1, Names DEF Settled, Journaled
<1>4. Held /\ Underway
  BY <1>1 DEF Held, Underway, Busy, Going, At, NoJob
<1> QED
  BY <1>2, <1>3, <1>4 DEF IndInv

LEMMA Inductive == IndInv /\ [Next]_vars => IndInv'
<1> SUFFICES ASSUME IndInv, [Next]_vars PROVE IndInv'
  OBVIOUS
<1>1. CASE UNCHANGED vars
  <2>1. UNCHANGED <<tree, staged, journal, lock, intents, receipts, faults, job>>
    BY <1>1 DEF vars, sandbox, workspace
  <2>2. TypeOK' /\ Settled' /\ Journaled'
    BY <2>1 DEF IndInv, TypeOK, Settled, Journaled
  <2>3. Held' /\ Underway'
    BY <2>1 DEF IndInv, Held, Underway, Busy, Going, At, Staging, Closing, Cleared
  <2> QED
    BY <2>2, <2>3 DEF IndInv
<1>2. ASSUME NEW p \in Process, Command(p) PROVE IndInv'
  BY <1>2, BeginReleaseKeeps, ResumeKeeps, BeginWithdrawKeeps DEF Command
<1>3. ASSUME NEW p \in Process, Advance(p) PROVE IndInv'
  BY <1>3, EndsKeep, DecideKeeps, StageLeafKeeps, WriteJournalKeeps, PerformKeeps, UndoKeeps,
     VerifiedKeeps, ClearKeeps, UnstageKeeps DEF Advance
<1>4. ASSUME NEW p \in Process, Crash(p) \/ Fail(p) PROVE IndInv'
  BY <1>4, CrashKeeps, EndsKeep
<1> QED
  BY <1>1, <1>2, <1>3, <1>4, RemoveLockKeeps DEF Next

LEMMA Invariance == Spec => []IndInv
<1> QED
  BY Initially, Inductive, PTL DEF Spec

\* Every variable keeps its type.
THEOREM TypeCorrect == Spec => []TypeOK
<1>1. IndInv => TypeOK
  BY DEF IndInv
<1> QED
  BY <1>1, Invariance, PTL

\* Wherever the commands stop, a sandbox without a journal is exactly what its manifest lists.
THEOREM SettledIsWhole == Spec => []SettledIsSound
<1>1. IndInv => SettledIsSound
  BY SettledRead DEF IndInv, SettledIsSound, Sound
<1> QED
  BY <1>1, Invariance, PTL
\* Wherever the commands stop, a journal can be finished, and can be rolled back.
THEOREM JournalIsRecoverable == Spec => []Recoverable
<1>1. ASSUME IndInv, journal # NoJournal
      PROVE  Recoverable
  <2> DEFINE c == journal.decision
             through(f) == [q \in Path |-> IF q \in Touched(c.doc) THEN f[q] ELSE tree[q]]
  <2>1. c \in Decision /\ Valid(c)
    BY <1>1 DEF IndInv, TypeOK, Journal, Journaled
  <2>2. Layout(c.base) \in [Path -> Content] /\ Layout(c.target) \in [Path -> Content]
    BY <2>1, LayoutType DEF Decision
  <2>3. \A q \in Path : q \in Touched(c.doc) =>
          journal.old[q] = Layout(c.base)[q] /\ journal.new[q] = Layout(c.target)[q]
    BY <1>1 DEF IndInv, Journaled, Old, After
  <2>4. \A q \in Path : q \notin Touched(c.doc) =>
          tree[q] = Layout(c.base)[q] /\ tree[q] = Layout(c.target)[q]
    BY <1>1, <2>1, ValidElsewhere DEF IndInv, Journaled
  <2>5. through(journal.old) = Layout(c.base) /\ through(journal.new) = Layout(c.target)
    BY <2>2, <2>3, <2>4
  <2> QED
    BY <1>1, <2>5 DEF Recoverable, IndInv, Journaled
<1>2. IndInv => Recoverable
  BY <1>1 DEF Recoverable
<1> QED
  BY <1>2, Invariance, PTL

\* Where a command that is about to remove the journal has brought the tree.
LEMMA ClosingRead ==
    ASSUME IndInv, NEW p \in Process, At(p, "clear")
    PROVE  /\ journal # NoJournal /\ journal.decision \in Decision /\ Valid(journal.decision)
           /\ journal.decision.base # journal.decision.target
           /\ \/ ManifestIn(tree) = journal.decision.base
              \/ /\ ManifestIn(tree) = journal.decision.target
                 /\ Cleared(p, journal.decision)
<1>1. Closing(p) /\ journal # NoJournal
  BY DEF IndInv, Underway, Going, Closing
<1>2. journal.decision \in Decision /\ Valid(journal.decision)
  BY <1>1 DEF IndInv, TypeOK, Journal, Journaled
<1> QED
  BY <1>1, <1>2, LayoutRead DEF Closing, Decision, Valid

\* No recovery completes a release whose plan it did not find to hold.
THEOREM LapsedIsRolledBack == Spec => LapsedIsNotCompleted
<1>1. IndInv => CompletedOnlyIfItHolds
  BY ClosingRead DEF Cleared, CompletedOnlyIfItHolds
<1>2. IndInv => [CompletedOnlyIfItHolds]_vars
  BY <1>1
<1> QED
  BY <1>2, Invariance, PTL DEF LapsedIsNotCompleted

-----------------------------------------------------------------------------
(* The sandbox implements the atomic dataset                               *)

LEMMA CommittedFirst == Init => Dataset!Init
<1> SUFFICES ASSUME Init PROVE Committed = Empty
  BY DEF Dataset!Init, Empty
<1>1. journal = NoJournal /\ ManifestIn(tree) = Empty
  BY Names, LayoutRead DEF Init
<1> QED
  BY <1>1 DEF Committed

\* Only the removal of a journal commits anything.
LEMMA Quiet ==
    ASSUME IndInv, [Next]_vars, \A p \in Process : ~Clear(p)
    PROVE  Committed' = Committed
<1>1. CASE UNCHANGED <<tree, journal>>
  BY <1>1 DEF Committed, ManifestIn
<1>2. ASSUME NEW p \in Process, Perform(p) \/ Undo(p) PROVE Committed' = Committed
  <2>1. journal # NoJournal /\ journal' = journal
    BY <1>2 DEF Perform, Undo, IndInv, Underway, Going
  <2> QED
    BY <2>1 DEF Committed
<1>3. ASSUME NEW p \in Process, WriteJournal(p) PROVE Committed' = Committed
  <2>1. Staging(p)
    BY <1>3 DEF WriteJournal, IndInv, Underway, Going
  <2>2. Committed = job[p].decision.base
    BY <2>1, LayoutRead DEF Staging, Committed, Decision
  <2>3. journal' \in Journal /\ journal'.decision = job[p].decision
    BY <1>3, <2>1, NeededType DEF WriteJournal, Staging, Journal
  <2> QED
    BY <2>2, <2>3 DEF Committed
<1>4. \/ UNCHANGED <<tree, journal>>
      \/ \E p \in Process : Perform(p) \/ Undo(p) \/ WriteJournal(p)
  BY DEF Next, vars, sandbox, Command, Advance, BeginRelease, Resume, BeginWithdraw, Answer, Decide,
     NothingToWithdraw, WriteReceipt, StageLeaf, Verified, Unstage, Crash, Fail, RemoveLock
<1> QED
  BY <1>1, <1>2, <1>3, <1>4

LEMMA Commits ==
    ASSUME IndInv, NEW p \in Process, Clear(p)
    PROVE  Dataset!Next \/ Committed' = Committed
<1> DEFINE c == journal.decision
<1>1. /\ journal # NoJournal /\ c \in Decision /\ Valid(c)
      /\ ManifestIn(tree) = c.base \/ ManifestIn(tree) = c.target
  BY ClosingRead DEF Clear
<1>2. Committed = c.base /\ Committed' = ManifestIn(tree)
  BY <1>1 DEF Clear, Committed, ManifestIn
<1>3. CASE ManifestIn(tree) = c.base
  BY <1>2, <1>3
<1>4. CASE ManifestIn(tree) = c.target /\ c.action = "release"
  <2>1. PICK t \in Text :
          c.target = [c.base EXCEPT ![c.doc] = [text |-> t, withdrawn_at |-> Never]]
    BY <1>1, <1>4 DEF Valid
  <2>2. c.base[c.doc] = Unlisted \/ Released(c.base, c.doc)
    BY <1>1, <1>4 DEF Valid
  <2>3. c.doc \in Doc /\ Dataset!Release(c.doc, t)
    BY <1>1, <1>2, <1>4, <2>1, <2>2 DEF Dataset!Release, Dataset!Standing, Released, Decision
  <2> QED
    BY <2>3 DEF Dataset!Next
<1>5. CASE ManifestIn(tree) = c.target /\ c.action = "withdraw"
  <2>1. PICK at \in Moment :
          c.target = [c.base EXCEPT ![c.doc] = [text |-> c.base[c.doc].text, withdrawn_at |-> at]]
    BY <1>1, <1>5 DEF Valid
  <2>2. Released(c.base, c.doc)
    BY <1>1, <1>5 DEF Valid
  <2>3. c.doc \in Doc /\ Dataset!Withdraw(c.doc, at)
    BY <1>1, <1>2, <1>5, <2>1, <2>2 DEF Dataset!Withdraw, Dataset!Standing, Released, Decision
  <2> QED
    BY <2>3 DEF Dataset!Next
<1> QED
  BY <1>1, <1>3, <1>4, <1>5 DEF Decision

\* The sandbox changes one document at a time and at once, and no withdrawal is undone.
THEOREM ImplementsAtomicDataset == Spec => OneChangeAtATime
<1>1. IndInv /\ [Next]_vars => [Dataset!Next]_Committed
  BY Quiet, Commits
<1> QED
  BY <1>1, CommittedFirst, Invariance, PTL DEF Spec, OneChangeAtATime, Dataset!Spec

-----------------------------------------------------------------------------
(* The audit trail                                                         *)

Withdrawn(m, d) == m[d] # Unlisted /\ ~Released(m, d)

\* A decided withdrawal that the dataset shows.
Stands(c) == c \in intents /\ c.target[c.doc] = Committed[c.doc]

Trail ==
    /\ \A c \in intents : Withdrawn(c.target, c.doc)
    /\ \A d \in Doc : Withdrawn(Committed, d) => \E c \in intents : c.doc = d /\ c.target[d] = Committed[d]
    /\ \A c \in receipts : Stands(c)
    /\ journal # NoJournal /\ journal.decision.action = "withdraw" => journal.decision \in intents

\* A withdrawal under way was decided, and one that is to have its receipt stands.
Promised(p) ==
    /\ At(p, "stage") /\ job[p].decision.action = "withdraw" => job[p].decision \in intents
    /\ At(p, "receipt") => Stands(job[p].decision)
    /\ job[p].then = "receipt" =>
         /\ ~At(p, "undo")
         /\ At(p, "stage") => job[p].decision \in intents
         /\ At(p, "replay") \/ At(p, "clear") =>
              journal.decision = job[p].decision /\ job[p].decision \in intents
         /\ At(p, "clear") => ManifestIn(tree) = journal.decision.target
         /\ At(p, "unstage") => Stands(job[p].decision)

Audit == Trail /\ \A p \in Process : Promised(p)

\* A document that is down stays as it was taken down.
LEMMA DownStays ==
    ASSUME IndInv, [Next]_vars, NEW d \in Doc, Withdrawn(Committed, d)
    PROVE  Committed'[d] = Committed[d]
<1>1. ASSUME NEW p \in Process, Clear(p)
      PROVE  Committed'[d] = Committed[d]
  <2> DEFINE c == journal.decision
  <2>1. /\ journal # NoJournal /\ c \in Decision /\ Valid(c)
        /\ ManifestIn(tree) = c.base \/ ManifestIn(tree) = c.target
    BY <1>1, ClosingRead DEF Clear
  <2>2. Committed = c.base /\ Committed' = ManifestIn(tree)
    BY <1>1, <2>1 DEF Clear, Committed, ManifestIn
  <2>3. d # c.doc
    BY <2>1, <2>2 DEF Valid, Withdrawn
  <2>4. c.target[d] = c.base[d]
    BY <2>1, <2>3 DEF Valid, Decision, Manifest
  <2> QED
    BY <2>1, <2>2, <2>4
<1> QED
  BY <1>1, Quiet

LEMMA IntentsGrow == ASSUME [Next]_vars PROVE intents \subseteq intents'
  BY DEF Next, vars, sandbox, workspace, Command, Advance, BeginRelease, Resume, BeginWithdraw, Answer, Decide,
     NothingToWithdraw, WriteReceipt, StageLeaf, WriteJournal, Perform, Undo, Verified, Clear, Unstage,
     Crash, Fail, RemoveLock

LEMMA StandsStill ==
    ASSUME IndInv, Trail, [Next]_vars, NEW c, Stands(c)
    PROVE  Stands(c)'
<1>1. c \in Decision /\ c.doc \in Doc
  BY DEF IndInv, TypeOK, Stands, Decision
<1>2. Withdrawn(Committed, c.doc)
  BY DEF Trail, Stands, Withdrawn, Released
<1> QED
  BY <1>1, <1>2, DownStays, IntentsGrow DEF Stands

\* What is down was decided, whatever step is taken.
LEMMA DownIsDecided ==
    ASSUME IndInv, Trail, [Next]_vars
    PROVE  \A d \in Doc : Withdrawn(Committed', d) =>
             \E c \in intents' : c.doc = d /\ c.target[d] = Committed'[d]
<1> SUFFICES ASSUME NEW d \in Doc, Withdrawn(Committed', d)
             PROVE  \E c \in intents' : c.doc = d /\ c.target[d] = Committed'[d]
  OBVIOUS
<1>1. ASSUME Committed'[d] = Committed[d]
      PROVE  \E c \in intents' : c.doc = d /\ c.target[d] = Committed'[d]
  BY <1>1, IntentsGrow DEF Trail, Withdrawn, Released
<1>2. ASSUME NEW p \in Process, Clear(p), Committed'[d] # Committed[d]
      PROVE  \E c \in intents' : c.doc = d /\ c.target[d] = Committed'[d]
  <2> DEFINE k == journal.decision
  <2>1. /\ journal # NoJournal /\ k \in Decision /\ Valid(k)
        /\ ManifestIn(tree) = k.base \/ ManifestIn(tree) = k.target
    BY <1>2, ClosingRead DEF Clear
  <2>2. Committed = k.base /\ Committed' = ManifestIn(tree)
    BY <1>2, <2>1 DEF Clear, Committed, ManifestIn
  <2>3. Committed' = k.target /\ k.target[d] # k.base[d]
    BY <1>2, <2>1, <2>2
  <2>4. d = k.doc
    BY <2>1, <2>3 DEF Valid, Decision, Manifest
  <2>5. k.action = "withdraw"
    <3>1. ASSUME NEW t \in Text, k.target = [k.base EXCEPT ![k.doc] = [text |-> t, withdrawn_at |-> Never]]
          PROVE  ~Withdrawn(k.target, d)
      <4>1. k.target[d] = [text |-> t, withdrawn_at |-> Never]
        BY <2>1, <2>4, <3>1 DEF Decision, Manifest
      <4> QED
        BY <4>1 DEF Withdrawn, Released
    <3> QED
      BY <2>1, <2>3, <3>1 DEF Valid
  <2>6. k \in intents
    BY <2>1, <2>5 DEF Trail
  <2> QED
    BY <2>3, <2>4, <2>6, IntentsGrow
<1> QED
  BY <1>1, <1>2, Quiet

\* A step of p leaves only its own promise to show, and what it adds to the records.
LEMMA OnePromises ==
    ASSUME IndInv, Audit, [Next]_vars, NEW p \in Process,
           \A q \in Process : q # p => job'[q] = job[q],
           Busy(p) \/ UNCHANGED <<tree, journal>>,
           \A c \in intents' : c \in intents \/ Withdrawn(c.target, c.doc),
           \A c \in receipts' : c \in receipts \/ Stands(c),
           \/ journal' = journal \/ journal' = NoJournal
           \/ journal'.decision.action = "withdraw" => journal'.decision \in intents,
           Promised(p)'
    PROVE  Audit'
<1>1. ASSUME NEW q \in Process, q # p
      PROVE  Promised(q)'
  <2>1. job'[q] = job[q] /\ Promised(q)
    BY <1>1 DEF Audit
  <2>2. At(q, "receipt") => Stands(job[q].decision)'
    BY <2>1, StandsStill DEF Promised, Audit
  <2>3. CASE Busy(p)
    <3>1. ~Busy(q)
      BY <1>1, <2>3, Alone DEF IndInv
    <3> QED
      BY <2>1, <2>2, <3>1 DEF Promised, At, Busy
  <2>4. CASE UNCHANGED <<tree, journal>>
    <3>1. intents \subseteq intents'
      BY IntentsGrow
    <3>2. At(q, "unstage") /\ job[q].then = "receipt" => Stands(job[q].decision)'
      BY <2>1, StandsStill DEF Promised, Audit
    <3>3. ManifestIn(tree)' = ManifestIn(tree)
      BY <2>4 DEF ManifestIn
    <3> QED
      BY <2>1, <2>2, <2>4, <3>1, <3>2, <3>3 DEF Promised, At
  <2> QED
    BY <2>3, <2>4
<1>2. \A c \in receipts' : Stands(c)'
  BY StandsStill DEF Audit, Trail
<1>3. journal' # NoJournal /\ journal'.decision.action = "withdraw" => journal'.decision \in intents'
  BY IntentsGrow DEF Audit, Trail
<1>4. Trail'
  <2>1. \A d \in Doc : Withdrawn(Committed', d) =>
          \E c \in intents' : c.doc = d /\ c.target[d] = Committed'[d]
    BY DownIsDecided DEF Audit
  <2>2. \A c \in intents' : Withdrawn(c.target, c.doc)
    BY DEF Audit, Trail
  <2> QED
    BY <1>2, <1>3, <2>1, <2>2 DEF Trail, Withdrawn
<1> QED
  BY <1>1, <1>4 DEF Audit

\* A command that ends promises nothing; one that has its receipt to write, that it stands.
LEMMA LeavePromises ==
    ASSUME IndInv, NEW p \in Process, NEW j \in Job, Leave(p, j),
           j = NoJob \/ \E c \in Decision : j = Recording("receipt", c) /\ Stands(c)'
    PROVE  Promised(p)' /\ \A q \in Process : q # p => job'[q] = job[q]
<1>1. job'[p] = j /\ \A q \in Process : q # p => job'[q] = job[q]
  BY LeaveEffect DEF IndInv
<1>2. CASE j = NoJob
  BY <1>1, <1>2 DEF Promised, At, NoJob
<1>3. ASSUME NEW c \in Decision, j = Recording("receipt", c), Stands(c)'
      PROVE  Promised(p)'
  <2>1. job'[p].step = "receipt" /\ job'[p].decision = c
    BY <1>1, <1>3, JobTypes DEF Step
  <2> QED
    BY <1>3, <2>1 DEF Promised, At
<1> QED
  BY <1>1, <1>2, <1>3

LEMMA BeginPromises ==
    ASSUME IndInv, Audit, [Next]_vars, NEW p \in Process, Command(p)
    PROVE  Audit'
<1>1. UNCHANGED <<sandbox, workspace>>
  BY DEF Command, BeginRelease, Resume, BeginWithdraw
<1>2. PICK j : Start(p, j) /\
        \/ \E d \in Doc, t \in Text : j = Releasing("stage", 0, PlanOf(d, t, ManifestIn(tree)), "holds")
        \/ journal # NoJournal /\ \E s \in {"replay", "undo"}, n \in {1, 3}, v \in {"holds", "lapsed"} :
             j = Releasing(s, n, journal.decision, v)
        \/ \E s \in {"decide", "replay", "undo"}, n \in {0, 1, 3} : \E a :
             j = Asking(s, n, IF s = "decide" THEN NoDecision ELSE journal.decision, a)
  <2>1. ASSUME NEW d \in Doc, NEW t \in Text, BeginRelease(p, d, t)
        PROVE  \E j : Start(p, j) /\ j = Releasing("stage", 0, PlanOf(d, t, ManifestIn(tree)), "holds")
    BY <2>1 DEF BeginRelease
  <2>2. ASSUME Resume(p)
        PROVE  \E j : Start(p, j) /\ journal # NoJournal /\
                 \E s \in {"replay", "undo"}, n \in {1, 3}, v \in {"holds", "lapsed"} :
                   j = Releasing(s, n, journal.decision, v)
    <3>1. PICK holds \in BOOLEAN :
            Start(p, IF holds THEN Releasing("replay", 1, journal.decision, "holds")
                     ELSE Releasing("undo", 3, journal.decision, "lapsed"))
      BY <2>2 DEF Resume
    <3>2. CASE holds
      BY <2>2, <3>1, <3>2 DEF Resume
    <3>3. CASE ~holds
      BY <2>2, <3>1, <3>3 DEF Resume
    <3> QED
      BY <3>2, <3>3
  <2>3. ASSUME NEW d \in Doc, NEW at \in Moment, BeginWithdraw(p, d, at)
        PROVE  \E j : Start(p, j) /\ \E s \in {"decide", "replay", "undo"}, n \in {0, 1, 3} : \E a :
                 j = Asking(s, n, IF s = "decide" THEN NoDecision ELSE journal.decision, a)
    BY <2>3 DEF BeginWithdraw
  <2> QED
    BY <2>1, <2>2, <2>3 DEF Command
<1>3. job' = [job EXCEPT ![p] = j]
  BY <1>2 DEF Start
<1>4. job'[p] = j /\ \A q \in Process : q # p => job'[q] = job[q]
  BY <1>3 DEF IndInv, TypeOK
<1>5. /\ j.then # "receipt" /\ j.step # "receipt"
      /\ j.step = "stage" => j.decision.action # "withdraw"
  <2>1. ASSUME NEW d \in Doc, NEW t \in Text,
               j = Releasing("stage", 0, PlanOf(d, t, ManifestIn(tree)), "holds")
        PROVE  j.then = "done" /\ j.step = "stage" /\ j.decision.action = "release"
    BY <2>1 DEF Releasing, NoJob, PlanOf
  <2>2. ASSUME NEW s \in {"replay", "undo"}, NEW n \in {1, 3}, NEW v \in {"holds", "lapsed"},
               j = Releasing(s, n, journal.decision, v)
        PROVE  j.then = "done" /\ j.step \in {"replay", "undo"}
    BY <2>2 DEF Releasing, NoJob
  <2>3. ASSUME NEW s \in {"decide", "replay", "undo"}, NEW n \in {0, 1, 3}, NEW a,
               j = Asking(s, n, IF s = "decide" THEN NoDecision ELSE journal.decision, a)
        PROVE  j.then = "decide" /\ j.step \in {"decide", "replay", "undo"}
    BY <2>3 DEF Asking, NoJob
  <2> QED
    BY <1>2, <2>1, <2>2, <2>3
<1>6. Promised(p)'
  BY <1>4, <1>5 DEF Promised, At
<1> QED
  BY <1>1, <1>4, <1>6, OnePromises DEF sandbox, workspace

LEMMA AnswerPromises ==
    ASSUME IndInv, Audit, [Next]_vars, NEW p \in Process, Answer(p)
    PROVE  Audit'
<1>1. At(p, "decide") /\ UNCHANGED <<sandbox, workspace>>
  BY DEF Answer
<1>2. PICK c \in Answering(job[p].asked[1]) : Leave(p, Recording("receipt", c))
  BY DEF Answer
<1>3. c \in intents /\ c \in Decision /\ c.target = ManifestIn(tree)
  BY DEF Answering, IndInv, TypeOK
<1>4. Committed = ManifestIn(tree)
  BY <1>1 DEF Committed, IndInv, Underway, Going
<1>5. Stands(c)'
  BY <1>3, <1>4, StandsStill DEF Stands, Audit
<1>6. Recording("receipt", c) \in Job
  BY <1>3, JobTypes DEF Step
<1> QED
  BY <1>1, <1>2, <1>3, <1>5, <1>6, LeavePromises, OnePromises DEF sandbox, workspace

LEMMA DecidePromises ==
    ASSUME IndInv, Audit, [Next]_vars, NEW p \in Process, Decide(p)
    PROVE  Audit'
<1> DEFINE m == ManifestIn(tree)
           c == IntentOf(job[p].asked[1], job[p].asked[2], m)
<1>1. At(p, "decide") /\ journal = NoJournal /\ job[p].asked[1] \in Doc /\ job[p].asked[2] \in Moment
  BY DEF Decide, IndInv, Underway, Going
<1>2. m \in Manifest
  BY <1>1, SettledRead DEF IndInv
<1>3. c \in Decision /\ Valid(c) /\ c.action = "withdraw"
  BY <1>1, <1>2, IntentIsValid DEF Decide
<1>4. /\ job' = [job EXCEPT ![p] = Recording("stage", c)] /\ intents' = intents \cup {c}
      /\ UNCHANGED <<sandbox, receipts>>
  BY DEF Decide
<1> HIDE DEF c, m
<1>5. Withdrawn(c.target, c.doc)
  <2>1. PICK at \in Moment : c.target = [c.base EXCEPT ![c.doc] = [text |-> c.base[c.doc].text,
                                                                  withdrawn_at |-> at]]
    BY <1>3 DEF Valid
  <2>2. c.target[c.doc].withdrawn_at = at /\ c.target[c.doc] \in Member
    <3>1. c.base \in Manifest /\ c.doc \in Doc /\ Released(c.base, c.doc)
      BY <1>3 DEF Decision, Valid
    <3>2. c.base[c.doc].text \in Text
      BY <3>1 DEF Released, Manifest, Member
    <3> QED
      BY <2>1, <3>1, <3>2 DEF Manifest, Member
  <2> QED
    BY <2>2 DEF Withdrawn, Released
<1>6. /\ job'[p] = Recording("stage", c) /\ \A q \in Process : q # p => job'[q] = job[q]
  BY <1>4 DEF IndInv, TypeOK
<1>7. Recording("stage", c).step = "stage" /\ Recording("stage", c).decision = c
  BY <1>3, JobTypes DEF Step
<1>8. Promised(p)'
  BY <1>4, <1>6, <1>7 DEF Promised, At
<1> QED
  BY <1>4, <1>5, <1>6, <1>8, OnePromises DEF sandbox

LEMMA ReceiptPromises ==
    ASSUME IndInv, Audit, [Next]_vars, NEW p \in Process, WriteReceipt(p)
    PROVE  Audit'
<1>1. At(p, "receipt") /\ receipts' = receipts \cup {job[p].decision} /\ UNCHANGED <<sandbox, intents>>
      /\ Leave(p, NoJob)
  BY DEF WriteReceipt, Exit
<1>2. Stands(job[p].decision)
  BY <1>1 DEF Audit, Promised
<1> QED
  BY <1>1, <1>2, NoJobType, LeavePromises, OnePromises DEF sandbox

LEMMA EndPromises ==
    ASSUME IndInv, Audit, [Next]_vars, NEW p \in Process,
           NothingToWithdraw(p) \/ Fail(p) \/ Crash(p)
    PROVE  Audit'
<1>1. UNCHANGED <<sandbox, workspace>> /\ job' = [job EXCEPT ![p] = NoJob]
  BY DEF NothingToWithdraw, Fail, Crash, Exit, Leave
<1>2. job'[p] = NoJob /\ \A q \in Process : q # p => job'[q] = job[q]
  BY <1>1 DEF IndInv, TypeOK
<1>3. Promised(p)'
  BY <1>2 DEF Promised, At, NoJob
<1> QED
  BY <1>1, <1>2, <1>3, OnePromises DEF sandbox, workspace

LEMMA StagePromises ==
    ASSUME IndInv, Audit, [Next]_vars, NEW p \in Process, StageLeaf(p) \/ WriteJournal(p)
    PROVE  Audit'
<1>1. At(p, "stage") /\ Busy(p) /\ UNCHANGED <<tree, workspace>> /\ Promised(p)
  BY DEF StageLeaf, WriteJournal, At, Busy, Audit
<1>2. CASE StageLeaf(p)
  <2>1. UNCHANGED <<journal, job>>
    BY <1>2 DEF StageLeaf
  <2>2. Promised(p)'
    BY <1>1, <2>1 DEF Promised, At, workspace
  <2> QED
    BY <1>1, <2>1, <2>2, OnePromises DEF workspace
<1>3. CASE WriteJournal(p)
  <2>1. /\ job' = [job EXCEPT ![p] = [job[p] EXCEPT !.step = "replay", !.at = 1]]
        /\ journal'.decision = job[p].decision
    BY <1>3 DEF WriteJournal
  <2>2. job[p] \in Job
    BY DEF IndInv, TypeOK
  <2>3. /\ job'[p].step = "replay" /\ job'[p].then = job[p].then /\ job'[p].decision = job[p].decision
        /\ \A q \in Process : q # p => job'[q] = job[q]
    BY <2>1, <2>2 DEF IndInv, TypeOK, Job
  <2>4. Promised(p)'
    BY <1>1, <2>1, <2>3 DEF Promised, At, workspace
  <2> QED
    BY <1>1, <2>1, <2>3, <2>4, OnePromises DEF workspace, Promised
<1> QED
  BY <1>2, <1>3

LEMMA ReplayPromises ==
    ASSUME IndInv, Audit, [Next]_vars, NEW p \in Process, Perform(p) \/ Undo(p) \/ Verified(p)
    PROVE  Audit'
<1>1. /\ At(p, "replay") \/ At(p, "undo")
      /\ Busy(p) /\ UNCHANGED <<journal, workspace>> /\ Promised(p)
  BY DEF Perform, Undo, Verified, sandbox, At, Busy, Audit
<1>2. CASE Perform(p) \/ Undo(p)
  <2>1. job[p] \in Job /\ \E n : job' = [job EXCEPT ![p] = [job[p] EXCEPT !.at = n]]
    BY <1>2 DEF Perform, Undo, IndInv, TypeOK
  <2>2. /\ job'[p].step = job[p].step /\ job'[p].then = job[p].then /\ job'[p].decision = job[p].decision
        /\ \A q \in Process : q # p => job'[q] = job[q]
    BY <2>1 DEF IndInv, TypeOK, Job
  <2>3. Promised(p)'
    BY <1>1, <2>2 DEF Promised, At, workspace
  <2> QED
    BY <1>1, <2>2, <2>3, OnePromises DEF workspace
<1>3. CASE Verified(p)
  <2>1. /\ job'[p].step = "clear" /\ job'[p].then = job[p].then /\ job'[p].decision = job[p].decision
        /\ \A q \in Process : q # p => job'[q] = job[q]
    BY <1>3, GotoEffect DEF Verified, IndInv, Step
  <2>2. At(p, "replay") => ManifestIn(tree) = journal.decision.target
    BY <1>3 DEF Verified, At
  <2>3. UNCHANGED tree /\ ManifestIn(tree)' = ManifestIn(tree)
    BY <1>3 DEF Verified, sandbox, ManifestIn
  <2>4. Promised(p)'
    BY <1>1, <2>1, <2>2, <2>3 DEF Promised, At, workspace
  <2> QED
    BY <1>1, <2>1, <2>3, <2>4, OnePromises DEF workspace
<1> QED
  BY <1>2, <1>3

LEMMA ClearPromises ==
    ASSUME IndInv, Audit, [Next]_vars, NEW p \in Process, Clear(p)
    PROVE  Audit'
<1>1. At(p, "clear") /\ Busy(p) /\ UNCHANGED <<tree, workspace>> /\ Promised(p) /\ journal' = NoJournal
  BY DEF Clear, At, Busy, Audit
<1>2. /\ job'[p].step = "unstage" /\ job'[p].then = job[p].then /\ job'[p].decision = job[p].decision
      /\ \A q \in Process : q # p => job'[q] = job[q]
  BY GotoEffect DEF Clear, IndInv, Step
<1>3. Committed' = ManifestIn(tree)
  BY <1>1 DEF Committed, ManifestIn
<1>4. job[p].then = "receipt" => Stands(job[p].decision)'
  BY <1>1, <1>2, <1>3 DEF Promised, Stands, workspace
<1>5. Promised(p)'
  BY <1>1, <1>2, <1>4 DEF Promised, At
<1> QED
  BY <1>1, <1>2, <1>5, OnePromises DEF workspace

LEMMA UnstagePromises ==
    ASSUME IndInv, Audit, [Next]_vars, NEW p \in Process, Unstage(p)
    PROVE  Audit'
<1>1. At(p, "unstage") /\ UNCHANGED <<tree, journal, workspace>> /\ Promised(p) /\ job[p].then \in Then
  BY DEF Unstage, Audit, IndInv, TypeOK, Job
<1>2. Promised(p)' /\ \A q \in Process : q # p => job'[q] = job[q]
  <2>1. CASE job[p].then = "done"
    BY <2>1, NoJobType, LeavePromises DEF Unstage, Exit
  <2>2. CASE job[p].then = "decide"
    <3>1. /\ job'[p].step = "decide" /\ job'[p].then = "decide"
          /\ \A q \in Process : q # p => job'[q] = job[q]
      BY <2>2, GotoEffect DEF Unstage, IndInv, Step
    <3> QED
      BY <3>1 DEF Promised, At
  <2>3. CASE job[p].then = "receipt"
    <3>1. PICK c \in Decision : c = job[p].decision
      BY <2>3 DEF IndInv, Underway, Going
    <3>2. Stands(c)'
      BY <1>1, <2>3, <3>1, StandsStill DEF Promised, Audit
    <3>3. Recording("receipt", c) \in Job /\ Leave(p, Recording("receipt", c))
      BY <2>3, <3>1, JobTypes DEF Step, Unstage
    <3> QED
      BY <3>1, <3>2, <3>3, LeavePromises
  <2> QED
    BY <1>1, <2>1, <2>2, <2>3 DEF Then
<1> QED
  BY <1>1, <1>2, OnePromises DEF workspace

LEMMA StepAudits == IndInv /\ Audit /\ [Next]_vars => Audit'
<1> SUFFICES ASSUME IndInv, Audit, [Next]_vars PROVE Audit'
  OBVIOUS
<1>1. CASE UNCHANGED vars \/ RemoveLock
  <2>1. UNCHANGED <<tree, journal, intents, receipts, job>>
    BY <1>1 DEF vars, sandbox, workspace, RemoveLock
  <2>2. Committed' = Committed /\ ManifestIn(tree)' = ManifestIn(tree)
    BY <2>1 DEF Committed, ManifestIn
  <2> QED
    BY <2>1, <2>2 DEF Audit, Trail, Promised, Stands, At, Withdrawn, Released
<1>2. ASSUME NEW p \in Process, Advance(p) PROVE Audit'
  BY <1>2, AnswerPromises, DecidePromises, ReceiptPromises, EndPromises, StagePromises, ReplayPromises,
     ClearPromises, UnstagePromises DEF Advance
<1> QED
  BY <1>1, <1>2, BeginPromises, EndPromises DEF Next

\* The audit trail is true: a withdrawal that stands was decided before the sandbox changed,
\* and a receipt is only ever of a withdrawal that stands, whatever was interrupted.
THEOREM TrailIsTrue == Spec => []Audited
<1>1. Init => Audit
  <2> SUFFICES ASSUME Init PROVE Audit
    OBVIOUS
  <2>1. intents = {} /\ receipts = {} /\ journal = NoJournal /\ \A p \in Process : job[p] = NoJob
    BY DEF Init
  <2>2. Committed = Empty
    BY CommittedFirst DEF Dataset!Init, Empty
  <2>3. \A d \in Doc : ~Withdrawn(Committed, d)
    BY <2>2 DEF Empty, Withdrawn
  <2> QED
    BY <2>1, <2>3 DEF Audit, Trail, Promised, At, NoJob
<1>2. Audit => Audited
  BY DEF Audit, Trail, Audited, Stands, Withdrawn
<1> QED
  BY <1>1, <1>2, StepAudits, Invariance, PTL DEF Spec

-----------------------------------------------------------------------------
(* A reader.  The commands beside it are as without it, so that their     *)
(* inductive invariant holds here too.                                     *)

\* A reading knows every dataset there was since it began.
Watching == Reading => Shows \subseteq reader.shown

\* The manifest it has read is one of them.
ManifestShown ==
    /\ ReaderIs("read") /\ ManifestFile \in DOMAIN reader.read
    => reader.read[ManifestFile] \in reader.shown \cup {NoFile}

Shape ==
    reader = [pc |-> reader.pc, listed |-> reader.listed,
              read |-> reader.read, shown |-> reader.shown]

ReaderInv == IndInv /\ Shape /\ Watching /\ ManifestShown /\ ServedAtOnce

\* A manifest on disk is that of a dataset that may be shown, and where there is no file the
\* empty one may be.
LEMMA OnDisk ==
    ASSUME IndInv
    PROVE  /\ tree[ManifestFile] # NoFile => tree[ManifestFile] \in Shows
           /\ tree[ManifestFile] = NoFile => Empty \in Shows
<1>1. CASE journal = NoJournal
  BY <1>1 DEF Shows, Committed, ManifestIn
<1>2. CASE journal # NoJournal
  <2> DEFINE c == journal.decision
  <2>1. c.base \in Manifest /\ c.target \in Manifest /\ Shows = {c.base, c.target}
    BY <1>2 DEF IndInv, TypeOK, Journal, Decision, Shows, Committed
  <2>2. tree[ManifestFile] \in {Layout(c.base)[ManifestFile], Layout(c.target)[ManifestFile]}
    BY <1>2 DEF IndInv, Journaled, Old, After, Touched, Path
  <2>3. \A m \in Manifest :
          \/ Layout(m)[ManifestFile] = NoFile /\ m = Empty
          \/ Layout(m)[ManifestFile] # NoFile /\ Layout(m)[ManifestFile] = m
    BY LayoutRead
  <2> QED
    BY <2>1, <2>2, <2>3
<1> QED
  BY <1>1, <1>2

-----------------------------------------------------------------------------
(* The commands beside a reading *)

LEMMA ChangeKeeps == ASSUME ReaderInv, Change PROVE ReaderInv'
<1>1. IndInv'
  BY Inductive DEF ReaderInv, Change
<1>2. CASE Reading
  <2>1. reader' = [reader EXCEPT !.shown = @ \cup Shows']
    BY <1>2 DEF Change
  <2>2. /\ reader'.pc = reader.pc /\ reader'.read = reader.read
        /\ reader'.shown = reader.shown \cup Shows'
        /\ Shape'
    BY <2>1 DEF ReaderInv, Shape
  <2>3. Watching' /\ ManifestShown' /\ ServedAtOnce'
    BY <1>2, <2>2 DEF ReaderInv, Watching, ManifestShown, ServedAtOnce, Reading, ReaderIs
  <2> QED
    BY <1>1, <2>2, <2>3 DEF ReaderInv
<1>3. CASE ~Reading
  <2>1. reader' = reader
    BY <1>3 DEF Change
  <2> QED
    BY <1>1, <1>3, <2>1
    DEF ReaderInv, Shape, Watching, ManifestShown, ServedAtOnce, Reading, ReaderIs
<1> QED
  BY <1>2, <1>3

-----------------------------------------------------------------------------
(* The reading *)

\* Where the commands rest, what they keep stays as it is.
LEMMA AtRest ==
    ASSUME IndInv, UNCHANGED vars
    PROVE  IndInv' /\ Shows' = Shows /\ tree' = tree
<1>1. IndInv'
  BY Inductive
<1> QED
  BY <1>1 DEF vars, sandbox, Shows, Committed

LEMMA RefuseKeeps == ASSUME ReaderInv, UNCHANGED vars, Refuse PROVE ReaderInv'
<1>1. Shape' /\ reader'.pc = "refused"
  BY DEF Refuse, NotReading, Shape
<1> QED
  BY <1>1, AtRest DEF ReaderInv, Watching, ManifestShown, ServedAtOnce, Reading, ReaderIs

LEMMA AskAgainKeeps == ASSUME ReaderInv, AskAgain PROVE ReaderInv'
<1>1. Shape' /\ reader'.pc = "idle" /\ UNCHANGED vars
  BY DEF AskAgain, NotReading, Shape
<1> QED
  BY <1>1, AtRest DEF ReaderInv, Watching, ManifestShown, ServedAtOnce, Reading, ReaderIs

LEMMA LookForLockKeeps == ASSUME ReaderInv, LookForLock PROVE ReaderInv'
<1>1. /\ UNCHANGED vars
      /\ Shape' /\ reader'.pc = "journal" /\ reader'.shown = Shows
  BY DEF LookForLock, ReaderInv, Shape
<1> QED
  BY <1>1, AtRest DEF ReaderInv, Watching, ManifestShown, ServedAtOnce, Reading, ReaderIs

LEMMA LookForJournalKeeps == ASSUME ReaderInv, LookForJournal PROVE ReaderInv'
<1>1. CASE Refuse
  BY <1>1, RefuseKeeps DEF LookForJournal
<1>2. CASE reader' = [reader EXCEPT !.pc = "list"]
  <2>1. Shape' /\ reader'.pc = "list" /\ reader'.shown = reader.shown
    BY <1>2 DEF ReaderInv, Shape
  <2>2. Reading /\ UNCHANGED vars
    BY DEF LookForJournal, Reading, ReaderIs
  <2> QED
    BY <2>1, <2>2, AtRest DEF ReaderInv, Watching, ManifestShown, ServedAtOnce, Reading, ReaderIs
<1> QED
  BY <1>1, <1>2 DEF LookForJournal

LEMMA ListRootKeeps == ASSUME ReaderInv, ListRoot PROVE ReaderInv'
<1> DEFINE found == {q \in Path : tree[q] # NoFile}
           missing == {IndexFile, ManifestFile} \ found
<1>0. Reading /\ UNCHANGED vars
  BY DEF ListRoot, Reading, ReaderIs
<1>1. CASE found = {}
  <2>1. reader' = [reader EXCEPT !.pc = "served", !.read = Layout(Empty)]
    BY <1>1 DEF ListRoot
  <2>2. /\ Shape' /\ reader'.pc = "served" /\ reader'.shown = reader.shown
        /\ reader'.read = Layout(Empty)
    BY <2>1 DEF ReaderInv, Shape
  <2>3. tree[ManifestFile] = NoFile
    BY <1>1 DEF Path
  <2>4. Empty \in reader.shown
    BY <1>0, <2>3, OnDisk DEF ReaderInv, Watching
  <2> QED
    BY <1>0, <2>2, <2>4, AtRest
    DEF ReaderInv, Watching, ManifestShown, ServedAtOnce, Reading, ReaderIs
<1>2. CASE found # {}
  <2>1. reader' = [reader EXCEPT !.pc = "read", !.listed = found \ Doc,
                                 !.read = [q \in missing |-> NoFile]]
    BY <1>2 DEF ListRoot
  <2>2. /\ Shape' /\ reader'.pc = "read" /\ reader'.shown = reader.shown
        /\ reader'.read = [q \in missing |-> NoFile]
    BY <2>1 DEF ReaderInv, Shape
  <2> QED
    BY <1>0, <2>2, AtRest
    DEF ReaderInv, Watching, ManifestShown, ServedAtOnce, Reading, ReaderIs
<1> QED
  BY <1>1, <1>2

LEMMA ListDocumentKeeps == ASSUME ReaderInv, NEW d \in Doc, ListDocument(d) PROVE ReaderInv'
<1>0. Reading /\ ReaderIs("read") /\ UNCHANGED vars
  BY DEF ListDocument, Reading, ReaderIs
<1>1. /\ Shape' /\ reader'.pc = "read" /\ reader'.shown = reader.shown
      /\ reader'.read = reader.read \/ reader'.read = WithBytes(d, NoFile)
  BY DEF ListDocument, ReaderInv, Shape, ReaderIs
<1>2. d # ManifestFile
  BY NamesAssumption
<1>3. ManifestShown'
  BY <1>0, <1>1, <1>2 DEF ReaderInv, ManifestShown, WithBytes
<1> QED
  BY <1>0, <1>1, <1>3, AtRest DEF ReaderInv, Watching, ServedAtOnce, Reading, ReaderIs

LEMMA ReadFileKeeps == ASSUME ReaderInv, NEW q \in Path, ReadFile(q) PROVE ReaderInv'
<1>0. Reading /\ ReaderIs("read") /\ UNCHANGED vars
  BY DEF ReadFile, Reading, ReaderIs
<1>1. CASE tree[q] = NoFile
  BY <1>0, <1>1, RefuseKeeps DEF ReadFile
<1>2. CASE tree[q] # NoFile
  <2>1. reader' = [reader EXCEPT !.read = WithBytes(q, tree[q])]
    BY <1>2 DEF ReadFile
  <2>2. /\ Shape' /\ reader'.pc = "read" /\ reader'.shown = reader.shown
        /\ reader'.read = WithBytes(q, tree[q])
    BY <1>0, <2>1 DEF ReaderInv, Shape, ReaderIs
  <2>3. q = ManifestFile => tree[q] \in reader.shown
    BY <1>0, <1>2, OnDisk DEF ReaderInv, Watching
  <2>4. ManifestShown'
    BY <1>0, <2>2, <2>3 DEF ReaderInv, ManifestShown, WithBytes
  <2> QED
    BY <1>0, <2>2, <2>4, AtRest DEF ReaderInv, Watching, ServedAtOnce, Reading, ReaderIs
<1> QED
  BY <1>1, <1>2

LEMMA ServeKeeps == ASSUME ReaderInv, Serve PROVE ReaderInv'
<1> DEFINE m == reader.read[ManifestFile]
<1>0. ReaderIs("read") /\ UNCHANGED vars /\ ManifestFile \in DOMAIN reader.read
  BY DEF Serve, Path
<1>1. CASE Refuse
  BY <1>0, <1>1, RefuseKeeps
<1>2. CASE m # NoFile /\ reader.read = Layout(m) /\ reader' = [reader EXCEPT !.pc = "served"]
  <2>1. /\ Shape' /\ reader'.pc = "served" /\ reader'.shown = reader.shown
        /\ reader'.read = reader.read
    BY <1>2 DEF ReaderInv, Shape
  <2>2. m \in reader.shown
    BY <1>0, <1>2 DEF ReaderInv, ManifestShown
  <2> HIDE DEF m
  <2>3. ServedAtOnce'
    BY <1>2, <2>1, <2>2 DEF ServedAtOnce
  <2> QED
    BY <1>0, <2>1, <2>3, AtRest DEF ReaderInv, Watching, ManifestShown, Reading, ReaderIs
<1> QED
  BY <1>1, <1>2 DEF Serve

-----------------------------------------------------------------------------
LEMMA ReaderInitially == ReaderInit => ReaderInv
BY Initially
DEF ReaderInit, ReaderInv, NotReading, Shape, Watching, ManifestShown, ServedAtOnce, Reading, ReaderIs

LEMMA ReaderInductive == ReaderInv /\ [ReaderNext]_readerVars => ReaderInv'
<1> SUFFICES ASSUME ReaderInv, [ReaderNext]_readerVars PROVE ReaderInv'
  OBVIOUS
<1>1. CASE Change
  BY <1>1, ChangeKeeps
<1>2. CASE Read
  BY <1>2, AskAgainKeeps, LookForLockKeeps, LookForJournalKeeps, ListRootKeeps, ServeKeeps,
     ListDocumentKeeps, ReadFileKeeps DEF Read
<1>3. CASE UNCHANGED readerVars
  <2>1. UNCHANGED vars /\ reader' = reader
    BY <1>3 DEF readerVars
  <2> QED
    BY <2>1, AtRest DEF ReaderInv, Shape, Watching, ManifestShown, ServedAtOnce, Reading, ReaderIs
<1> QED
  BY <1>1, <1>2, <1>3 DEF ReaderNext

\* A reader serves the dataset of one moment of its reading, whatever commands run, fail and
\* are killed beside it, and however many.
THEOREM ReadersSeeOneDataset == ReaderSpec => []ServedAtOnce
<1>1. ReaderInv => ServedAtOnce
  BY DEF ReaderInv
<1> QED
  BY <1>1, ReaderInitially, ReaderInductive, PTL DEF ReaderSpec
=============================================================================
