-------------------------- MODULE CorpusTransaction --------------------------
(***************************************************************************)
(* src/lovspor/forarbeider: a change to the dataset is all or nothing.     *)
(* simulate and sandbox-withdraw take a lock file, stage the bytes before  *)
(* and after inside .git, write a journal, replay it over the tree, read   *)
(* the tree back and remove the journal.  A command that stops in between  *)
(* leaves the rest to the next one, which finishes it or rolls it back.    *)
(* A file's bytes stand for their digest.  The sandbox is only changed by  *)
(* these commands, so that every check of it that could refuse does so     *)
(* where Fail or Crash stops the command.                                  *)
(***************************************************************************)
EXTENDS Integers

CONSTANTS
    Doc,          \* document ids
    Text,         \* renderings, release time included
    Rendering,    \* the releases there are plans for: pairs of a document and a text
    Moment,       \* times an owner decides a withdrawal at
    Process,      \* command invocations
    IndexFile, ManifestFile,
    NoFile,       \* an absent file
    Unlisted,     \* no member of this document
    Never,        \* not withdrawn
    NoJournal, NoDecision,
    Free, Stale,  \* no lock file; one whose process has died
    MaxFaults     \* bound on the commands that are killed or fail

Member == [text : Text, withdrawn_at : Moment \cup {Never}]
Manifest == [Doc -> Member \cup {Unlisted}]
Index == [Doc -> Text \cup {NoFile}]
Path == Doc \cup {IndexFile, ManifestFile}
Content == Text \cup Manifest \cup Index \cup {NoFile}

ASSUME NamesAssumption ==
    /\ IndexFile \notin Doc \cup {ManifestFile} /\ ManifestFile \notin Doc
    /\ NoFile \notin Text \cup Manifest \cup Index
    /\ Unlisted \notin Member /\ Never \notin Moment
    /\ Rendering \subseteq Doc \X Text /\ MaxFaults \in Nat
    /\ Free \notin Process \cup {Stale} /\ Stale \notin Process

VARIABLES
    tree,      \* the files of forarbeider/
    staged,    \* the bytes in the staging directory
    journal,   \* the change under way, or NoJournal
    lock,      \* the process that made the lock file, Free or Stale
    intents,   \* withdrawals decided, in the workspace
    receipts,  \* withdrawals recorded as done, in the workspace
    faults,    \* how many commands were killed or failed
    job        \* where each process is

sandbox == <<tree, staged, journal>>
workspace == <<intents, receipts>>
vars == <<sandbox, lock, workspace, faults, job>>

-----------------------------------------------------------------------------
(* A dataset on disk *)

Empty == [d \in Doc |-> Unlisted]
Released(m, d) == m[d] # Unlisted /\ m[d].withdrawn_at = Never

\* render_index: the released members only.
IndexOf(m) == [d \in Doc |-> IF Released(m, d) THEN m[d].text ELSE NoFile]

\* The files a manifest demands; the empty dataset is no directory at all.
Layout(m) ==
    [q \in Path |->
        IF m = Empty THEN NoFile
        ELSE IF q = ManifestFile THEN m
        ELSE IF q = IndexFile THEN IndexOf(m)
        ELSE IF Released(m, q) THEN m[q].text ELSE NoFile]

\* read_dataset: the manifest found, and whether the tree is exactly what it lists.
ManifestIn(t) == IF t[ManifestFile] = NoFile THEN Empty ELSE t[ManifestFile]
Sound(t) == t = Layout(ManifestIn(t))

-----------------------------------------------------------------------------
(* A change: the decision behind it, and what it does to the files *)

Decision == [action : {"release", "withdraw"}, doc : Doc, base : Manifest, target : Manifest]

\* A plan, by what it was made against and what it leads to; an intent likewise.
PlanOf(d, t, m) ==
    [action |-> "release", doc |-> d, base |-> m,
     target |-> [m EXCEPT ![d] = [text |-> t, withdrawn_at |-> Never]]]
IntentOf(d, at, m) ==
    [action |-> "withdraw", doc |-> d, base |-> m,
     target |-> [m EXCEPT ![d] = [text |-> m[d].text, withdrawn_at |-> at]]]

\* Documents and removals, then the index, then the manifest.
Touched(d) == {d, IndexFile, ManifestFile}
Operation(d, i) == IF i = 1 THEN d ELSE IF i = 2 THEN IndexFile ELSE ManifestFile

Journal == [decision : Decision, old : [Path -> Content], new : [Path -> Content]]
ASSUME JournalAssumption == NoJournal \notin Journal

Before(d) == [q \in Path |-> IF q \in Touched(d) THEN tree[q] ELSE NoFile]
After(c) == [q \in Path |-> IF q \in Touched(c.doc) THEN Layout(c.target)[q] ELSE NoFile]

\* The bytes a change of document d stages, or a journal needs, both ways.
Bytes(d, old, new) == ({old[q] : q \in Touched(d)} \cup {new[q] : q \in Touched(d)}) \ {NoFile}

-----------------------------------------------------------------------------
Step == {"idle", "decide", "stage", "replay", "undo", "clear", "unstage", "receipt"}
Then == {"done", "decide", "receipt"}
Job == [step : Step,
        at : 0..4,                          \* the operation next to perform or to undo
        then : Then,                        \* what follows once the journal is gone
        decision : Decision \cup {NoDecision},
        asked : (Doc \X Moment) \cup {NoDecision},   \* what a withdrawal was asked for
        plan : {"unchecked", "holds", "lapsed"}]     \* what this run found of the plan

NoJob == [step |-> "idle", at |-> 0, then |-> "done", decision |-> NoDecision,
          asked |-> NoDecision, plan |-> "unchecked"]

\* A release's job; a withdrawal's while it settles what was left; and one of its own.
Releasing(step, at, c, plan) ==
    [NoJob EXCEPT !.step = step, !.at = at, !.decision = c, !.plan = plan]
Asking(step, at, c, asked) ==
    [NoJob EXCEPT !.step = step, !.at = at, !.then = "decide", !.decision = c, !.asked = asked]
Recording(step, c) == [NoJob EXCEPT !.step = step, !.then = "receipt", !.decision = c]

Init ==
    /\ tree = Layout(Empty)
    /\ staged = {}
    /\ journal = NoJournal
    /\ lock = Free
    /\ intents = {} /\ receipts = {}
    /\ faults = 0
    /\ job = [p \in Process |-> NoJob]

At(p, step) == job[p].step = step

\* Mutant: the lock is overwritten, not created.
StartUnlocked(p, j) ==
    /\ At(p, "idle")
    /\ lock' = p
    /\ job' = [job EXCEPT ![p] = j]

\* locked: O_CREAT | O_EXCL, made or refused at once.
Start(p, j) ==
    /\ At(p, "idle") /\ lock = Free
    /\ lock' = p
    /\ job' = [job EXCEPT ![p] = j]

Goto(p, step) == job' = [job EXCEPT ![p].step = step]

\* The lock is removed on the way out, also when the command raises.
Leave(p, j) ==
    /\ job' = [job EXCEPT ![p] = j]
    /\ lock' = IF lock = p THEN Free ELSE lock
Exit(p) == Leave(p, NoJob)

-----------------------------------------------------------------------------
(* simulate: whether a plan still holds is evaluated by every run anew, and *)
(* a release may be revoked, expire or be cleared in between.  A run that  *)
(* finds its plan denied or stale, or another's journal, is no step        *)

\* Mutant: a withdrawn document is released again.
BeginReleaseAgain(p, d, t) ==
    /\ journal = NoJournal
    /\ <<d, t>> \in Rendering
    /\ Sound(tree)
    /\ LET m == ManifestIn(tree) IN
       /\ m[d] # [text |-> t, withdrawn_at |-> Never]
       /\ Start(p, Releasing("stage", 0, PlanOf(d, t, m), "holds"))
    /\ UNCHANGED <<sandbox, workspace, faults>>

\* _settled with no journal, _applied and _simulated_draft.
BeginRelease(p, d, t) ==
    /\ journal = NoJournal
    /\ <<d, t>> \in Rendering
    /\ Sound(tree)
    /\ LET m == ManifestIn(tree) IN
       /\ m[d] = Unlisted \/ Released(m, d)
       /\ m[d] # [text |-> t, withdrawn_at |-> Never]
       /\ Start(p, Releasing("stage", 0, PlanOf(d, t, m), "holds"))
    /\ UNCHANGED <<sandbox, workspace, faults>>

\* Mutant: the journal is finished before the plan is verified.
ResumeUnverified(p) ==
    /\ journal # NoJournal
    /\ journal.decision.action = "release"
    /\ \E holds \in BOOLEAN :
       Start(p, Releasing("replay", 1, journal.decision, IF holds THEN "holds" ELSE "lapsed"))
    /\ UNCHANGED <<sandbox, workspace, faults>>

\* _settled with the plan's own journal: finished while the plan holds, else rolled back.
Resume(p) ==
    /\ journal # NoJournal
    /\ journal.decision.action = "release"
    /\ \E holds \in BOOLEAN :
       Start(p, IF holds THEN Releasing("replay", 1, journal.decision, "holds")
                ELSE Releasing("undo", 3, journal.decision, "lapsed"))
    /\ UNCHANGED <<sandbox, workspace, faults>>

-----------------------------------------------------------------------------
(* sandbox-withdraw *)

\* Mutant: an interrupted release stands in the way.
BeginWithdrawUnlessPending(p, d, at) ==
    /\ IF journal = NoJournal THEN Start(p, Asking("decide", 0, NoDecision, <<d, at>>))
       ELSE /\ journal.decision.action = "withdraw"
            /\ Start(p, Asking("replay", 1, journal.decision, <<d, at>>))
    /\ UNCHANGED <<sandbox, workspace, faults>>

\* _bound_journal: a release is rolled back, a withdrawal finished.
BeginWithdraw(p, d, at) ==
    /\ IF journal = NoJournal THEN Start(p, Asking("decide", 0, NoDecision, <<d, at>>))
       ELSE IF journal.decision.action = "release"
       THEN Start(p, Asking("undo", 3, journal.decision, <<d, at>>))
       ELSE Start(p, Asking("replay", 1, journal.decision, <<d, at>>))
    /\ UNCHANGED <<sandbox, workspace, faults>>

\* Mutant: an intent answers although the sandbox never came to its state.
AnsweringAnyhow(d) == {c \in intents : c.doc = d}

\* _unrecorded_intent: the intents that left the sandbox as it is, for this document.
Answering(d) == {c \in intents : c.target = ManifestIn(tree) /\ c.doc = d}

\* An earlier run's withdrawal: only its receipt is missing.
Answer(p) ==
    /\ At(p, "decide")
    /\ \E c \in Answering(job[p].asked[1]) \ receipts :
          Leave(p, Recording("receipt", c))
    /\ UNCHANGED <<sandbox, workspace, faults>>

\* A new one: the intent is stored before the sandbox changes.
Decide(p) ==
    /\ At(p, "decide")
    /\ Sound(tree)
    /\ Answering(job[p].asked[1]) = {}
    /\ Released(ManifestIn(tree), job[p].asked[1])
    /\ LET c == IntentOf(job[p].asked[1], job[p].asked[2], ManifestIn(tree)) IN
       /\ intents' = intents \cup {c}
       /\ job' = [job EXCEPT ![p] = Recording("stage", c)]
    /\ UNCHANGED <<sandbox, lock, receipts, faults>>

\* document_not_released: no such member, one withdrawn, or a withdrawal with its receipt.
NothingToWithdraw(p) ==
    /\ At(p, "decide")
    /\ Answering(job[p].asked[1]) \subseteq receipts
    /\ Answering(job[p].asked[1]) # {} \/ ~Released(ManifestIn(tree), job[p].asked[1])
    /\ Exit(p)
    /\ UNCHANGED <<sandbox, workspace, faults>>

\* After the lock is gone.
WriteReceipt(p) ==
    /\ At(p, "receipt")
    /\ receipts' = receipts \cup {job[p].decision}
    /\ Exit(p)
    /\ UNCHANGED <<sandbox, intents, faults>>

-----------------------------------------------------------------------------
(* apply, finish and roll_back *)

\* _stage: the bytes one after the other, and then the journal by one rename.
Needed(p) ==
    LET c == job[p].decision IN Bytes(c.doc, Before(c.doc), After(c))

StageLeaf(p) ==
    /\ At(p, "stage")
    /\ Needed(p) \ staged # {}
    /\ staged' = staged \cup {CHOOSE bytes \in Needed(p) \ staged : TRUE}
    /\ UNCHANGED <<tree, journal, lock, workspace, faults, job>>

\* Mutant: the journal is written before the bytes it names.
WriteJournalFirst(p) ==
    /\ At(p, "stage")
    /\ LET c == job[p].decision IN
       journal' = [decision |-> c, old |-> Before(c.doc), new |-> After(c)]
    /\ job' = [job EXCEPT ![p] = [@ EXCEPT !.step = "replay", !.at = 1]]
    /\ UNCHANGED <<tree, staged, lock, workspace, faults>>

WriteJournal(p) ==
    /\ At(p, "stage")
    /\ Needed(p) \subseteq staged
    /\ LET c == job[p].decision IN
       journal' = [decision |-> c, old |-> Before(c.doc), new |-> After(c)]
    /\ job' = [job EXCEPT ![p] = [@ EXCEPT !.step = "replay", !.at = 1]]
    /\ UNCHANGED <<tree, staged, lock, workspace, faults>>

\* _make: skipped, unlinked, or renamed from the staged bytes.
Make(q, bytes) ==
    /\ bytes \in {tree[q], NoFile} \cup staged
    /\ tree' = [tree EXCEPT ![q] = bytes]

Perform(p) ==
    /\ At(p, "replay") /\ job[p].at \in 1..3
    /\ LET q == Operation(journal.decision.doc, job[p].at) IN Make(q, journal.new[q])
    /\ job' = [job EXCEPT ![p].at = @ + 1]
    /\ UNCHANGED <<staged, journal, lock, workspace, faults>>

\* _undo, in reverse: only a file this change wrote is touched.
Undo(p) ==
    /\ At(p, "undo") /\ job[p].at \in 1..3
    /\ LET q == Operation(journal.decision.doc, job[p].at) IN
       /\ tree[q] \in {journal.old[q], journal.new[q]}
       /\ Make(q, journal.old[q])
    /\ job' = [job EXCEPT ![p].at = @ - 1]
    /\ UNCHANGED <<staged, journal, lock, workspace, faults>>

\* _verify: the tree read back is the one the journal leads to, or came from.
Verified(p) ==
    /\ \/ At(p, "replay") /\ job[p].at = 4
          /\ ManifestIn(tree) = journal.decision.target
       \/ At(p, "undo") /\ job[p].at = 0
          /\ tree[ManifestFile] = journal.old[ManifestFile]
    /\ Sound(tree)
    /\ Goto(p, "clear")
    /\ UNCHANGED <<sandbox, lock, workspace, faults>>

\* _clear: the journal first, the staged bytes then.
Clear(p) ==
    /\ At(p, "clear")
    /\ journal' = NoJournal
    /\ Goto(p, "unstage")
    /\ UNCHANGED <<tree, staged, lock, workspace, faults>>

Unstage(p) ==
    /\ At(p, "unstage")
    /\ staged' = {}
    /\ CASE job[p].then = "done" -> Exit(p)
         [] job[p].then = "decide" -> Goto(p, "decide") /\ UNCHANGED lock
         [] job[p].then = "receipt" ->
                Leave(p, Recording("receipt", job[p].decision))
    /\ UNCHANGED <<tree, journal, workspace, faults>>

-----------------------------------------------------------------------------
(* The environment *)

\* The process dies: its lock file stays.
Crash(p) ==
    /\ ~At(p, "idle") /\ faults < MaxFaults
    /\ faults' = faults + 1
    /\ job' = [job EXCEPT ![p] = NoJob]
    /\ lock' = IF lock = p THEN Stale ELSE lock
    /\ UNCHANGED <<sandbox, workspace>>

\* Mutant: a command that raises clears up behind it.
FailClearing(p) ==
    /\ ~At(p, "idle") /\ faults < MaxFaults
    /\ faults' = faults + 1
    /\ journal' = NoJournal /\ staged' = {}
    /\ Exit(p)
    /\ UNCHANGED <<tree, workspace>>

\* A write fails, or nobody confirms at the terminal: the command raises.
Fail(p) ==
    /\ ~At(p, "idle") /\ faults < MaxFaults
    /\ faults' = faults + 1
    /\ Exit(p)
    /\ UNCHANGED <<sandbox, workspace>>

\* The owner removes the lock, having checked that nothing runs.
RemoveLock ==
    /\ lock = Stale
    /\ \A p \in Process : At(p, "idle")
    /\ lock' = Free
    /\ UNCHANGED <<sandbox, workspace, faults, job>>

Command(p) ==
    \/ Resume(p)
    \/ \E d \in Doc :
        \/ \E t \in Text : BeginRelease(p, d, t)
        \/ \E at \in Moment : BeginWithdraw(p, d, at)

Advance(p) ==
    \/ Answer(p) \/ Decide(p) \/ NothingToWithdraw(p) \/ WriteReceipt(p) \/ StageLeaf(p)
    \/ WriteJournal(p) \/ Perform(p) \/ Undo(p) \/ Verified(p) \/ Clear(p) \/ Unstage(p)

Next ==
    \/ \E p \in Process : Command(p) \/ Advance(p) \/ Crash(p) \/ Fail(p)
    \/ RemoveLock

Spec == Init /\ [][Next]_vars

\* A started command runs on, a stale lock is removed, and an owner who wants a document
\* down asks again until it is.
Fairness ==
    /\ \A p \in Process : WF_vars(Advance(p))
    /\ WF_vars(RemoveLock)
    /\ \A d \in Doc : SF_vars(\E p \in Process, at \in Moment : BeginWithdraw(p, d, at))

FairSpec == Spec /\ Fairness

-----------------------------------------------------------------------------
(* Properties *)

TypeOK ==
    /\ tree \in [Path -> Content]
    /\ staged \subseteq Content \ {NoFile}
    /\ journal \in Journal \cup {NoJournal}
    /\ lock \in Process \cup {Free, Stale}
    /\ intents \subseteq Decision /\ receipts \subseteq Decision
    /\ faults \in Nat
    /\ job \in [Process -> Job]

\* Wherever a command stopped, a sandbox without a journal is exactly what its manifest
\* lists: a reader who finds no journal finds a whole dataset.
SettledIsSound == journal = NoJournal => Sound(tree)

\* Wherever a command stopped, a journal can be finished and can be rolled back: every
\* file holds its old or its new bytes, both are staged, and each choice gives a whole
\* dataset.
Recoverable ==
    journal # NoJournal =>
        LET c == journal.decision
            through(f) == [q \in Path |-> IF q \in Touched(c.doc) THEN f[q] ELSE tree[q]]
        IN  /\ \A q \in Touched(c.doc) : tree[q] \in {journal.old[q], journal.new[q]}
            /\ Bytes(c.doc, journal.old, journal.new) \subseteq staged
            /\ through(journal.old) = Layout(c.base)
            /\ through(journal.new) = Layout(c.target)

\* A release interrupted after its journal is completed only by a run that found its plan
\* still to hold: a revocation in between is never overrun by a recovery.
CompletedOnlyIfItHolds ==
    \A p \in Process :
        /\ At(p, "clear") /\ journal' # journal /\ journal.decision.action = "release"
        /\ ManifestIn(tree) = journal.decision.target
        => job[p].plan = "holds"
LapsedIsNotCompleted == [][CompletedOnlyIfItHolds]_vars

\* The dataset as committed: what the tree lists, or listed when the change under way began.
Committed == IF journal = NoJournal THEN ManifestIn(tree) ELSE journal.decision.base

\* The audit trail is true: a withdrawal that stands was decided first, and a receipt is
\* only ever of a withdrawal that stands.
Audited ==
    /\ \A d \in Doc :
          Committed[d] # Unlisted /\ ~Released(Committed, d) =>
              \E c \in intents : c.doc = d /\ c.target[d] = Committed[d]
    /\ \A c \in receipts : c \in intents /\ c.target[c.doc] = Committed[c.doc]

\* A takedown never waits for ever: whatever was interrupted, revoked or locked, a document
\* whose withdrawal is asked for again and again goes down (there are at most MaxFaults
\* faults), and stays down.
TakedownHappens == \A d \in Doc : <>[]~Released(Committed, d)

\* operations.md: when a receipt could not be written, the next run of the same command
\* writes it.
ReceiptIsNotLost ==
    journal = NoJournal /\ (\A p \in Process : At(p, "idle")) =>
        \A d \in Doc :
            Committed[d] # Unlisted /\ ~Released(Committed, d) =>
                (\E c \in receipts : c.doc = d) \/ Answering(d) # {}

\* The sandbox behaves as a dataset that changes one document at a time and at once.
Dataset == INSTANCE AtomicDataset WITH members <- Committed
OneChangeAtATime == Dataset!Spec
=============================================================================
