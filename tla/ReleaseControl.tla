--------------------------- MODULE ReleaseControl ---------------------------
(***************************************************************************)
(* The control-plane transaction of src/lovspor/release: what Caddy serves *)
(* is agreed between R, the running configuration; D, the configuration    *)
(* adapted from the fragment on disk; and M, the marker ACTIVE.  commit,   *)
(* rollback, reconcile and prune are processes of their own that take the  *)
(* flock on the releases root and may be killed between any two writes.    *)
(* Caddy may restart at any time and an operator may edit the fragment by  *)
(* hand.  The host is one that has the envelope Caddyfile and answers on   *)
(* the admin socket; FirstMigration is how it came to be one.              *)
(***************************************************************************)
EXTENDS FiniteSets

CONSTANTS
    Release,      \* release_content_ids the builder can produce
    Operator,     \* command invocations that may overlap
    NoRelease,    \* a configuration that names no release
    NoFile,       \* an absent file
    NoOperator,   \* nobody holds the flock
    Continues,    \* pairs <<live, candidate>> for which check_continuity passes
    Faults        \* what may go wrong: see FaultKind

FaultKind == {"crash", "restart", "refuse", "hand"}

ASSUME NamesAssumption ==
    /\ NoRelease \notin Release
    /\ NoOperator \notin Operator
    /\ NoFile \notin [release : Release \cup {NoRelease}, own : BOOLEAN]
    /\ NoFile \notin [active : Release, previous : Release \cup {NoRelease}]
ASSUME ContinuityAssumption == Continues \subseteq Release \X Release
ASSUME FaultsAssumption == Faults \subseteq FaultKind

VARIABLES
    running,  \* R: the ConfigPair Caddy runs
    disk,     \* D: the ConfigPair the active fragment composes
    next,     \* <fragment>.next
    kept,     \* <fragment>.previous, kept when no marker names its release
    marker,   \* M: the file ACTIVE
    store,    \* the id-named directories under the releases root
    holder,   \* the process that holds the flock
    job       \* where each process is, and what it has read

files == <<next, kept, store>>
vars == <<running, disk, next, kept, marker, store, holder, job>>

-----------------------------------------------------------------------------
(* A configuration is named by the release its vars line carries and by a  *)
(* hash of its routes.  The routes are either the envelope's own fragment  *)
(* or something edited: two values, and the pair of an edited fragment is  *)
(* never the pair of the release it names.                                 *)
ConfigPair == [release : Release \cup {NoRelease}, own : BOOLEAN]
Own(r) == [release |-> r, own |-> TRUE]
Edited(r) == [release |-> r, own |-> FALSE]

Marker == [active : Release, previous : Release \cup {NoRelease}]
Triple == [running : ConfigPair, disk : ConfigPair, marker : Marker \cup {NoFile}]

Step == {"idle", "judge", "stage", "write", "check", "swap", "reload", "confirm",
         "mark", "revert", "recheck", "reswap", "rereload", "prune"}
Job == [step : Step,
        kind : {"none", "commit", "rollback", "complete", "abandon", "record", "prune"},
        target : Release \cup {NoRelease},
        seen : Triple,
        doomed : SUBSET Release]

Nothing == [running |-> Edited(NoRelease), disk |-> Edited(NoRelease), marker |-> NoFile]
NoJob == [step |-> "idle", kind |-> "none", target |-> NoRelease, seen |-> Nothing,
          doomed |-> {}]

Marked(m) == IF m = NoFile THEN NoRelease ELSE m.active
Previous(m) == IF m = NoFile THEN NoRelease ELSE m.previous

ReadTriple == [running |-> running, disk |-> disk, marker |-> marker]

\* The row of the crash table a triple is on.
Situation(t) ==
    IF t.running = t.disk
    THEN IF t.running.release = Marked(t.marker) THEN "reconciled"
         ELSE IF t.running.release # NoRelease THEN "reloaded" ELSE "foreign"
    ELSE IF /\ t.disk.release \notin {NoRelease, t.running.release}
            /\ t.running.release = Marked(t.marker)
         THEN "staged" ELSE "foreign"

\* The candidate answers every URL the live release serves; none live is a bootstrap.
Continuous(live, candidate) ==
    live # NoRelease =>
        /\ store[live] = "complete"
        /\ <<live, candidate>> \in Continues

\* Mutant: the revert restores the release before the one M names.
RevertToPrevious(m) ==
    IF m = NoFile THEN kept
    ELSE IF m.previous # NoRelease THEN Own(m.previous) ELSE NoFile

\* What a revert puts back: M's own fragment, or the copy kept when there is no M.
RevertSource(m) ==
    IF m = NoFile THEN kept
    ELSE IF store[m.active] = "complete" THEN Own(m.active) ELSE NoFile

-----------------------------------------------------------------------------
Init ==
    \E r \in Release \cup {NoRelease} :
        /\ running = [release |-> r, own |-> r # NoRelease]
        /\ disk = running
        /\ marker = IF r = NoRelease THEN NoFile
                    ELSE [active |-> r, previous |-> NoRelease]
        /\ store = [s \in Release |-> IF s = r THEN "complete" ELSE "absent"]
        /\ next = NoFile
        /\ kept = NoFile
        /\ holder = NoOperator
        /\ job = [p \in Operator |-> NoJob]

At(p, step) == job[p].step = step

\* Mutant: the lock is not waited for nor refused.
TakeLockAlways(p) == At(p, "idle") /\ holder' = p

\* transaction_lock: LOCK_EX | LOCK_NB, taken or refused at once.
TakeLock(p) ==
    /\ At(p, "idle")
    /\ holder = NoOperator
    /\ holder' = p

Begin(p, step, kind, target, doomed) ==
    /\ TakeLock(p)
    /\ job' = [job EXCEPT ![p] = [step |-> step, kind |-> kind, target |-> target,
                                  seen |-> ReadTriple, doomed |-> doomed]]

Goto(p, step) == job' = [job EXCEPT ![p].step = step]

\* The command returns or raises, or its process dies: the descriptor closes.
Exit(p) ==
    /\ job' = [job EXCEPT ![p] = NoJob]
    /\ holder' = IF holder = p THEN NoOperator ELSE holder

-----------------------------------------------------------------------------
(* commit_release and rollback                                             *)

\* read_triple, _require_reconciled, _require_candidate.  Committing the release
\* that is live already changes nothing and is no step.
BeginCommit(p, r) ==
    /\ Situation(ReadTriple) = "reconciled"
    /\ running.release # r
    /\ store[r] = "complete"
    /\ Begin(p, "judge", "commit", r, {})
    /\ UNCHANGED <<running, disk, next, kept, marker, store>>

\* The marker's previous, through the same transaction.
BeginRollback(p) ==
    /\ Situation(ReadTriple) = "reconciled"
    /\ Previous(marker) \notin {NoRelease, running.release}
    /\ store[marker.previous] = "complete"
    /\ Begin(p, "judge", "rollback", marker.previous, {})
    /\ UNCHANGED <<running, disk, next, kept, marker, store>>

\* Mutant: no candidate is judged.
AcceptableUnjudged(p) == ReadTriple = job[p].seen

\* URL continuity, then the triple read again; a rollback is not judged.
Acceptable(p) ==
    \/ job[p].kind = "rollback"
    \/ /\ Continuous(job[p].seen.running.release, job[p].target)
       /\ ReadTriple = job[p].seen

JudgePassed(p) ==
    /\ At(p, "judge")
    /\ Acceptable(p)
    /\ Goto(p, "stage")
    /\ UNCHANGED <<running, disk, next, kept, marker, store, holder>>

JudgeRefused(p) ==
    /\ At(p, "judge")
    /\ ~Acceptable(p)
    /\ Exit(p)
    /\ UNCHANGED <<running, disk, next, kept, marker, store>>

\* Mutant: the foreign fragment is not copied aside.
StageWithoutCopy(p) ==
    At(p, "stage") /\ Goto(p, "write") /\ UNCHANGED <<running, disk, next, kept, marker, store, holder>>

\* _stage: with no marker the active fragment is copied aside first.
Stage(p) ==
    /\ At(p, "stage")
    /\ kept' = IF job[p].seen.marker = NoFile THEN disk ELSE kept
    /\ Goto(p, "write")
    /\ UNCHANGED <<running, disk, next, marker, store, holder>>

WriteNext(p) ==
    /\ At(p, "write")
    /\ next' = Own(job[p].target)
    /\ Goto(p, "check")
    /\ UNCHANGED <<running, disk, kept, marker, store, holder>>

\* caddy validate and caddy adapt over .next, before anything public moves.
Checked(p) ==
    /\ At(p, "check")
    /\ next.release = job[p].target
    /\ Goto(p, "swap")
    /\ UNCHANGED <<running, disk, next, kept, marker, store, holder>>

\* The one rename that moves D, with the adapt of the active fragment that follows it.
Swap(p) ==
    /\ At(p, "swap")
    /\ disk' = next
    /\ next' = NoFile
    /\ Goto(p, "reload")
    /\ UNCHANGED <<running, kept, marker, store, holder>>

\* The pair R must equal: adapted from the fragment as renamed, or D as --complete read it.
Expected(p) ==
    IF job[p].kind = "complete" THEN job[p].seen.disk ELSE Own(job[p].target)

\* reload_expecting: systemctl reload, then R read back.
Reloaded(p) ==
    /\ At(p, "reload")
    /\ running' = disk
    /\ Goto(p, "confirm")
    /\ UNCHANGED <<disk, next, kept, marker, store, holder>>

\* Only a commit puts the previous fragment back; a failed --complete just raises.
GiveUp(p) ==
    IF job[p].kind \in {"commit", "rollback"}
    THEN Goto(p, "revert") /\ UNCHANGED holder
    ELSE Exit(p)

ReloadRefused(p) ==
    /\ "refuse" \in Faults
    /\ At(p, "reload")
    /\ GiveUp(p)
    /\ UNCHANGED <<running, disk, next, kept, marker, store>>

Confirmed(p) ==
    /\ At(p, "confirm")
    /\ running = Expected(p)
    /\ Goto(p, "mark")
    /\ UNCHANGED <<running, disk, next, kept, marker, store, holder>>

NotExpected(p) ==
    /\ At(p, "confirm")
    /\ running # Expected(p)
    /\ GiveUp(p)
    /\ UNCHANGED <<running, disk, next, kept, marker, store>>

WriteMarker(p) ==
    /\ At(p, "mark")
    /\ marker' = [active |-> job[p].target, previous |-> Marked(job[p].seen.marker)]
    /\ Exit(p)
    /\ UNCHANGED <<running, disk, next, kept, store>>

-----------------------------------------------------------------------------
(* _restore after a failed commit, and reconcile --abandon                 *)

WriteRevert(p) ==
    /\ At(p, "revert")
    /\ RevertSource(job[p].seen.marker) # NoFile
    /\ next' = RevertSource(job[p].seen.marker)
    /\ Goto(p, IF job[p].kind = "abandon" THEN "recheck" ELSE "reswap")
    /\ UNCHANGED <<running, disk, kept, marker, store, holder>>

\* revert_source raises: nothing to restore from.
NothingToRevert(p) ==
    /\ At(p, "revert")
    /\ RevertSource(job[p].seen.marker) = NoFile
    /\ Exit(p)
    /\ UNCHANGED <<running, disk, next, kept, marker, store>>

\* abandon validates .next before the rename; _restore does not.
Rechecked(p) ==
    /\ At(p, "recheck")
    /\ Goto(p, "reswap")
    /\ UNCHANGED <<running, disk, next, kept, marker, store, holder>>

\* caddy validate refuses .next, of a commit or of an abandon: the command ends.
Invalid(p) ==
    /\ "refuse" \in Faults
    /\ At(p, "check") \/ At(p, "recheck")
    /\ Exit(p)
    /\ UNCHANGED <<running, disk, next, kept, marker, store>>

Reswap(p) ==
    /\ At(p, "reswap")
    /\ disk' = next
    /\ next' = NoFile
    /\ Goto(p, "rereload")
    /\ UNCHANGED <<running, kept, marker, store, holder>>

\* The last step of either: whatever R then is, M stays and the command ends.
Rereload(p) ==
    /\ At(p, "rereload")
    /\ running' = disk
    /\ Exit(p)
    /\ UNCHANGED <<disk, next, kept, marker, store>>

RereloadRefused(p) ==
    /\ "refuse" \in Faults
    /\ At(p, "rereload")
    /\ Exit(p)
    /\ UNCHANGED <<running, disk, next, kept, marker, store>>

-----------------------------------------------------------------------------
(* reconcile: the crash table's resolutions                                *)

\* R = D = new, M behind: completed by writing M, without a choice.
BeginRecord(p) ==
    /\ Situation(ReadTriple) = "reloaded"
    /\ Begin(p, "mark", "record", running.release, {})
    /\ UNCHANGED <<running, disk, next, kept, marker, store>>

\* Mutant: a configuration is completed that was not judged.
CompletableUnjudged == disk.release # NoRelease

\* --complete: D is judged against M, validated, reloaded and recorded.
Completable ==
    /\ disk.release # NoRelease
    /\ disk.release # Marked(marker) => Continuous(Marked(marker), disk.release)

BeginComplete(p) ==
    /\ Situation(ReadTriple) \in {"staged", "foreign"}
    /\ Completable
    /\ Begin(p, "reload", "complete", disk.release, {})
    /\ UNCHANGED <<running, disk, next, kept, marker, store>>

\* --abandon: M's fragment goes back over D.
BeginAbandon(p) ==
    /\ Situation(ReadTriple) \in {"staged", "foreign"}
    /\ Begin(p, "revert", "abandon", NoRelease, {})
    /\ UNCHANGED <<running, disk, next, kept, marker, store>>

-----------------------------------------------------------------------------
(* prune, and the builder, which takes no lock                             *)

\* Mutant: the rollback target is not spared.
RetainedWithoutPrevious == {running.release, disk.release, Marked(marker)}

Retained == {running.release, disk.release, Marked(marker), Previous(marker)}

BeginPrune(p) ==
    /\ Situation(ReadTriple) = "reconciled"
    /\ Begin(p, "prune", "prune", NoRelease,
             {r \in Release : store[r] # "absent"} \ Retained)
    /\ UNCHANGED <<running, disk, next, kept, marker, store>>

\* shutil.rmtree is many unlinks: the envelope is incomplete before it is gone.
Tear(p, r) ==
    /\ At(p, "prune")
    /\ r \in job[p].doomed
    /\ store[r] = "complete"
    /\ store' = [store EXCEPT ![r] = "partial"]
    /\ UNCHANGED <<running, disk, next, kept, marker, holder, job>>

Removed(p, r) ==
    /\ At(p, "prune")
    /\ r \in job[p].doomed
    /\ store[r] = "partial"
    /\ store' = [store EXCEPT ![r] = "absent"]
    /\ job' = [job EXCEPT ![p].doomed = @ \ {r}]
    /\ UNCHANGED <<running, disk, next, kept, marker, holder>>

EndPrune(p) ==
    /\ At(p, "prune")
    /\ job[p].doomed = {}
    /\ Exit(p)
    /\ UNCHANGED <<running, disk, next, kept, marker, store>>

\* _place: one rename; a complete directory is reused and a torn one refused,
\* neither of which changes anything.
Place(r) ==
    /\ store[r] = "absent"
    /\ store' = [store EXCEPT ![r] = "complete"]
    /\ UNCHANGED <<running, disk, next, kept, marker, holder, job>>

-----------------------------------------------------------------------------
(* The environment                                                         *)

\* A command is killed; what it wrote stays, and the flock goes with it.
Crash(p) ==
    /\ "crash" \in Faults
    /\ ~At(p, "idle")
    /\ Exit(p)
    /\ UNCHANGED <<running, disk, next, kept, marker, store>>

\* Caddy is restarted, or reloaded by hand: it loads what is on disk.
Restart ==
    /\ "restart" \in Faults
    /\ running # disk
    /\ running' = disk
    /\ UNCHANGED <<disk, next, kept, marker, store, holder, job>>

\* Someone edits the active fragment, or copies another release's over it.  Not while
\* a command stands between reading R back and writing M, nor during a prune: nothing
\* in the code could see it.  Nor under any command before the first marker.
Editable == {Own(r) : r \in Release} \cup {Edited(r) : r \in Release \cup {NoRelease}}

HandEdit(pair) ==
    /\ "hand" \in Faults
    /\ \A p \in Operator :
        job[p].step \notin {"confirm", "mark", "prune"} /\ (marker = NoFile => At(p, "idle"))
    /\ pair.release # NoRelease => store[pair.release] = "complete"
    /\ pair # disk
    /\ disk' = pair
    /\ UNCHANGED <<running, next, kept, marker, store, holder, job>>

-----------------------------------------------------------------------------
Advance(p) ==
    \/ JudgePassed(p) \/ JudgeRefused(p) \/ Stage(p) \/ WriteNext(p) \/ Checked(p)
    \/ Swap(p) \/ Reloaded(p) \/ Confirmed(p) \/ NotExpected(p) \/ WriteMarker(p)
    \/ WriteRevert(p) \/ NothingToRevert(p) \/ Rechecked(p) \/ Reswap(p) \/ Rereload(p)
    \/ EndPrune(p)
    \/ \E r \in Release : Tear(p, r) \/ Removed(p, r)

Command(p) ==
    \/ BeginRollback(p) \/ BeginRecord(p) \/ BeginComplete(p) \/ BeginAbandon(p)
    \/ BeginPrune(p)
    \/ \E r \in Release : BeginCommit(p, r)

Fault ==
    \/ Restart
    \/ \E pair \in Editable : HandEdit(pair)
    \/ \E p \in Operator :
        Crash(p) \/ ReloadRefused(p) \/ RereloadRefused(p) \/ Invalid(p)

Work ==
    \/ \E p \in Operator : Command(p) \/ Advance(p)
    \/ \E r \in Release : Place(r)

Next == Work \/ Fault

Spec == Init /\ [][Next]_vars

\* A started command runs on, and an unreconciled host is eventually reconciled
\* by hand: the operator runs reconcile, which writes M or is told to abandon.
Fairness ==
    /\ \A p \in Operator : WF_vars(Advance(p))
    /\ WF_vars(\E p \in Operator : BeginRecord(p) \/ BeginAbandon(p))

FairSpec == Spec /\ Fairness

-----------------------------------------------------------------------------
(* Properties                                                              *)

TypeOK ==
    /\ running \in ConfigPair
    /\ disk \in ConfigPair
    /\ next \in ConfigPair \cup {NoFile}
    /\ kept \in ConfigPair \cup {NoFile}
    /\ marker \in Marker \cup {NoFile}
    /\ store \in [Release -> {"absent", "partial", "complete"}]
    /\ holder \in Operator \cup {NoOperator}
    /\ job \in [Operator -> Job]

\* Everything a request, a restart, a rollback or a revert would read is complete on
\* disk: prune, whatever crashes in it, never tears what R, D or M names.
NamedIntact ==
    \A r \in {running.release, disk.release, Marked(marker), Previous(marker)} \ {NoRelease} :
        store[r] = "complete"

\* The fragment an abandon would put back can be read: a commit never loses the old
\* configuration.
WayBack == Situation(ReadTriple) \in {"staged", "foreign"} => RevertSource(marker) # NoFile

\* With the fragment not edited by hand, every state a killed or failed command leaves is
\* a row of the crash table that reconcile resolves, with a way back while D is not what M
\* names, but for one: M's fragment put back under a Caddy that a restart had already moved
\* on to the candidate.
CrashTable ==
    holder = NoOperator =>
        /\ WayBack
        /\ \/ Situation(ReadTriple) \in {"reconciled", "staged", "reloaded"}
           \/ disk.release = Marked(marker) /\ running.release \notin {NoRelease, Marked(marker)}

\* The URL contract over any number of commits and crashes: the marker moves from one
\* release to another only if that one answers every URL of the first, or is the one
\* the first replaced (a rollback).
UrlContinuity ==
    [][ LET old == Marked(marker) IN
        Marked(marker') \in {old, Previous(marker)} \/ old = NoRelease
        \/ <<old, Marked(marker')>> \in Continues ]_marker

\* A fragment written by hand cannot reach the marker through reconcile --complete
\* without being judged against the release the marker named.
CompleteIsJudged ==
    [][ \A p \in Operator :
          At(p, "mark") /\ job[p].kind = "complete" /\ marker' # marker =>
            LET old == Marked(marker) IN
            old \in {NoRelease, Marked(marker')} \/ <<old, Marked(marker')>> \in Continues ]_vars

\* The marker names the release made live last and the one it replaced (envelope.py):
\* never the same release twice.
PreviousIsReplaced == marker # NoFile => marker.previous # marker.active

\* Once faults stop, the host is reconciled again and again: no crash leaves it in a
\* state the operator's reconcile cannot leave.
Recovers == <>[][Work]_vars => []<>(Situation(ReadTriple) = "reconciled")

\* R, the marker and the complete envelopes behave as one atomic live release.
Live == INSTANCE LiveRelease WITH
    served <- running.release,
    marked <- Marked(marker),
    fallback <- Previous(marker),
    intact <- {r \in Release : store[r] = "complete"}
AtomicSwitch == Live!Spec

-----------------------------------------------------------------------------
(* Why NamedIntact and AtomicSwitch hold: what a command may rely on while *)
(* it stands between two steps.                                            *)

Busy(p, steps) == job[p].step \in steps

\* A command past its first step holds the flock, so M is what it read.
Exclusive(p) ==
    ~At(p, "idle") => holder = p /\ job[p].seen.marker = marker

\* The release a command is making live is complete, and so is what a revert puts back.
TargetIntact(p) ==
    /\ Busy(p, {"judge", "stage", "write", "check", "swap", "reload", "confirm", "mark"}) =>
           job[p].target \in Release /\ store[job[p].target] = "complete"
    /\ Busy(p, {"check", "swap"}) => next = Own(job[p].target)
    /\ Busy(p, {"recheck", "reswap"}) =>
           /\ next # NoFile
           /\ next.release # NoRelease => store[next.release] = "complete"

\* R is compared with the pair of the target, and from then on D is R.
ServesTarget(p) ==
    /\ Busy(p, {"judge", "stage", "write", "check", "swap"}) => job[p].kind # "complete"
    /\ Busy(p, {"reload", "confirm"}) => Expected(p).release = job[p].target
    /\ Busy(p, {"confirm", "mark"}) => running = disk
    /\ Busy(p, {"mark"}) => running.release = job[p].target

\* With no marker, nothing is live when a commit starts, so the copy kept aside names none.
BootstrapNamesNothing(p) ==
    marker = NoFile /\ Busy(p, {"judge", "stage"}) => disk.release = NoRelease

\* What a prune removes is named by none of R, D and M.
DoomedUnnamed(p) ==
    Busy(p, {"prune"}) => job[p].doomed \cap Retained = {}

KeptNamesNothing == kept # NoFile => kept.release = NoRelease

Standing(p) ==
    /\ Exclusive(p) /\ TargetIntact(p) /\ ServesTarget(p)
    /\ BootstrapNamesNothing(p) /\ DoomedUnnamed(p)

IndInv ==
    /\ TypeOK /\ NamedIntact /\ KeptNamesNothing
    /\ \A p \in Operator : Standing(p)
=============================================================================
