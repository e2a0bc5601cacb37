--------------------------- MODULE ObservationLog ---------------------------
(***************************************************************************)
(* The Observatory's append-only log: src/lovspor/observatory.  Captures   *)
(* append observations to observations.jsonl at any time.  A sweep folds   *)
(* the log through the freshness index, which spares it the prefix it can  *)
(* prove.  An operator corrects records filed under a wrong authority      *)
(* (reattribute appends two lines for each) and drops a record cut off     *)
(* mid-write (repair).  Any of them may be killed, or run out of disk,     *)
(* between two writes or inside one.                                       *)
(*                                                                         *)
(* The log is the sequence of what was appended: a text, and whether its   *)
(* newline came to disk.  A line of the file is what lies between two      *)
(* newlines, so an append after a cut one shares the line with it.         *)
(***************************************************************************)
EXTENDS Naturals, FiniteSets, Sequences, SequencesExt

CONSTANTS
    Observation, \* observations, each the line it is stored as: its key
    Misfiled,   \* those of the host that were filed under the authority being corrected
    Decision,   \* what operators decide: a reason, an author and the authority to move to
    RepairsApart, \* whether operators keep repair from a sweep that is reading the log
    MaxRuns,    \* runs of reattribute
    MaxCuts,    \* appends and rewrites that are cut off
    NoIndex     \* no freshness index

ASSUME ObservationAssumption ==
    /\ Misfiled \subseteq Observation /\ IsFiniteSet(Misfiled)
    /\ RepairsApart \in BOOLEAN /\ MaxRuns \in Nat /\ MaxCuts \in Nat

VARIABLES
    log,        \* observations.jsonl
    index,      \* freshness-index.json
    backup,     \* whether observations.jsonl.bak is there
    workload,   \* who holds the exclusive workload lock
    sweep,      \* the sweep, with the fold it is making
    command,    \* the operator's command on the log
    runs,       \* runs of reattribute so far: each has a correction_id and a time of its own
    cuts        \* writes cut off so far

logVars == <<log, index, backup, workload, sweep, command, runs, cuts>>

-----------------------------------------------------------------------------
Torn == [kind |-> "torn"]
Observed(r) == [kind |-> "observation", of |-> r]
Refiled(r, a) == [kind |-> "refiled", of |-> r, by |-> a]
Retracted(r, a) == [kind |-> "retracted", of |-> r, by |-> a]

Idle == [step |-> "idle"]

\* _ScanCursor.read_line, in a scan from an offset: the piece is a line of its own and parses.
\* Only the file's last line can lack its newline; a scan begins a line wherever it starts.
Clean(text, start, i) ==
    /\ text[i].text # Torn
    /\ i > start + 1 => text[i - 1].ended
    /\ i < Len(text) => text[i].ended
Reads(text, start) == \A i \in (start + 1)..Len(text) : Clean(text, start, i)

\* fold_corrections: the correction lines, but for a last one that has no newline.
Corrections(kind, r) ==
    {i \in DOMAIN log : log[i].ended /\ Clean(log, 0, i) /\ log[i].text.kind = kind /\ log[i].text.of = r}
By(I) == {log[i].text.by : i \in I}
Begun(r) == Corrections("refiled", r)
Closed(r) == Corrections("retracted", r)
LastCorrection ==
    LET at == UNION {Begun(r) \cup Closed(r) : r \in Observation}
    IN  CHOOSE n \in at \cup {0} : \A i \in at : i <= n

\* CorrectionSet.completed: both halves of one correction are there.
Completed(r) == By(Begun(r)) \cap By(Closed(r))

\* corrected_view of what a scan from an offset reads: each observation at its place, as filed
\* or as corrected, beside what was folded before.
View(before, start) ==
    LET seen == {i \in (start + 1)..Len(log) : log[i].text.kind = "observation"}
    IN  [i \in DOMAIN before \cup seen |->
            IF i \in seen THEN [of |-> log[i].text.of, by |-> Completed(log[i].text.of)] ELSE before[i]]

-----------------------------------------------------------------------------
LogInit ==
    /\ log \in {[i \in DOMAIN s |-> [text |-> Observed(s[i]), ended |-> TRUE]] : s \in SetToSeqs(Misfiled)}
    /\ index = NoIndex /\ backup = FALSE /\ workload = "free"
    /\ sweep = Idle /\ command = Idle /\ runs = 0 /\ cuts = 0

\* ObservationLog.append: under a lock on the file, and with no look at how the file ends.
Put(text) == log' = Append(log, [text |-> text, ended |-> TRUE])
\* An append cut off: what there is of the line parses or not, and has no newline.
Cut(text) ==
    /\ cuts < MaxCuts /\ cuts' = cuts + 1
    /\ \E t \in {text, Torn} : log' = Append(log, [text |-> t, ended |-> FALSE])

\* A fetch of capture, discover or a sweep: an artifact, or a failure, which is appended however
\* the log reads.  The process that is cut off ends; the sweep may be it (SweepEnds).
Capture(r) ==
    /\ \A i \in DOMAIN log : log[i].text # Observed(r)
    /\ \/ Put(Observed(r)) /\ UNCHANGED cuts
       \/ Cut(Observed(r))
    /\ UNCHANGED <<index, backup, workload, sweep, command, runs>>

-----------------------------------------------------------------------------
BeginSweep ==
    /\ sweep = Idle /\ workload = "free"
    /\ workload' = "sweep" /\ sweep' = [step |-> "prove"]
    /\ UNCHANGED <<log, index, backup, command, runs, cuts>>

\* _prefix_proven: the log begins with the very bytes that the index was built from.
\* Mutant, where it stands for the whole of StillProven: nobody asks for later corrections.
PrefixProven ==
    /\ index # NoIndex
    /\ index.through <= Len(log) /\ SubSeq(log, 1, index.through) = index.prefix

\* _still_proven: and no correction is later than the index.
StillProven == PrefixProven /\ LastCorrection <= index.through

Prove ==
    /\ sweep.step = "prove"
    /\ sweep' = IF StillProven
                THEN [step |-> "fold", start |-> index.through, view |-> index.view]
                ELSE [step |-> "fold", start |-> 0, view |-> <<>>]
    /\ UNCHANGED <<log, index, backup, workload, command, runs, cuts>>

\* indexed_capture_state: fold the rest of the log, and refuse it if it does not read to the end.
FoldTail ==
    /\ sweep.step = "fold"
    /\ IF Reads(log, sweep.start)
       THEN /\ sweep' = [step |-> "write", through |-> Len(log), view |-> View(sweep.view, sweep.start)]
            /\ UNCHANGED workload
       ELSE sweep' = Idle /\ workload' = "free"
    /\ UNCHANGED <<log, index, backup, command, runs, cuts>>

\* _index_from_state and _write_index: the digest is of the prefix as the file has it by now.
WriteIndex ==
    /\ sweep.step = "write"
    /\ index' = [through |-> sweep.through, view |-> sweep.view,
                 prefix |-> IF sweep.through <= Len(log) THEN SubSeq(log, 1, sweep.through) ELSE log]
    /\ sweep' = [step |-> "capture"]
    /\ UNCHANGED <<log, backup, workload, command, runs, cuts>>

\* A sweep has fetched what it wanted (Capture), or is killed at any step: the kernel drops its
\* lock with it.
SweepEnds ==
    /\ sweep # Idle /\ sweep' = Idle /\ workload' = "free"
    /\ UNCHANGED <<log, index, backup, command, runs, cuts>>

-----------------------------------------------------------------------------
BeginReattribute(d) ==
    /\ command = Idle /\ workload = "free" /\ runs < MaxRuns
    /\ workload' = "reattribute" /\ runs' = runs + 1
    /\ command' = [step |-> "plan", by |-> [decision |-> d, run |-> runs']]
    /\ UNCHANGED <<log, index, backup, sweep, cuts>>

\* _resumable: one re-filed half of this very decision, and no tombstone.
Resumable(r, d) == Closed(r) = {} /\ \E i \in Begun(r) : Begun(r) = {i} /\ log[i].text.by.decision = d
\* _completion refuses any other half-written correction.
Foreign(r, d) == Begun(r) \cup Closed(r) # {} /\ Completed(r) = {} /\ ~Resumable(r, d)

\* Mutant: a resumed plan finishes it under its own.
CompletionAnew(r, a) == <<Retracted(r, a)>>
\* A half-written correction is finished under its own attribution.
Completion(r, a) == <<Retracted(r, CHOOSE b \in By(Begun(r)) : TRUE)>>
Additions(r, a) ==
    IF Completed(r) # {} THEN <<>>
    ELSE IF Begun(r) # {} THEN Completion(r, a)
    ELSE <<Refiled(r, a), Retracted(r, a)>>

\* _selected: every observation that was filed under the authority, in the order of the log.
Selected ==
    LET places == {i \in DOMAIN log : log[i].text.kind = "observation" /\ log[i].text.of \in Misfiled}
        Rank(i) == Cardinality({j \in places : j <= i})
    IN  [n \in 1..Cardinality(places) |-> log[CHOOSE i \in places : Rank(i) = n].text.of]

\* plan_reattribution: refuses a damaged log, and what this decision did not begin.
Plan ==
    /\ command.step = "plan"
    /\ IF Reads(log, 0) /\ \A i \in DOMAIN Selected : ~Foreign(Selected[i], command.by.decision)
       THEN /\ command' = [step |-> "apply", size |-> Len(log), through |-> LastCorrection,
                           rest |-> FlattenSeq([i \in DOMAIN Selected |-> Additions(Selected[i], command.by)])]
            /\ UNCHANGED workload
       ELSE command' = Idle /\ workload' = "free"
    /\ UNCHANGED <<log, index, backup, sweep, runs, cuts>>

\* apply_plan: refuses a log that changed under the plan.
Confirm ==
    /\ command.step = "apply"
    /\ IF LastCorrection = command.through /\ Len(log) >= command.size
       THEN command' = [step |-> "append", rest |-> command.rest] /\ UNCHANGED workload
       ELSE command' = Idle /\ workload' = "free"
    /\ UNCHANGED <<log, index, backup, sweep, runs, cuts>>

AppendHalf ==
    /\ command.step = "append" /\ command.rest # <<>>
    /\ Put(Head(command.rest)) /\ command' = [command EXCEPT !.rest = Tail(@)]
    /\ UNCHANGED <<index, backup, workload, sweep, runs, cuts>>

HalfIsCut ==
    /\ command.step = "append" /\ command.rest # <<>>
    /\ Cut(Head(command.rest)) /\ command' = Idle /\ workload' = "free"
    /\ UNCHANGED <<index, backup, sweep, runs>>

\* reattribute is done, or killed before an append.
ReattributeEnds ==
    /\ command.step \in {"plan", "apply", "append"} /\ command' = Idle /\ workload' = "free"
    /\ UNCHANGED <<log, index, backup, sweep, runs, cuts>>

-----------------------------------------------------------------------------
\* What lies before the last newline.
Ended ==
    LET n == CHOOSE n \in 0..Len(log) :
               (n = 0 \/ log[n].ended) /\ \A i \in (n + 1)..Len(log) : ~log[i].ended
    IN  SubSeq(log, 1, n)

\* repair takes no lock.  It refuses all damage but a last line that does not parse and has no
\* newline, and a backup that is there already; then it reads the file again.
ReadForRepair ==
    /\ command = Idle /\ ~backup
    /\ ~Reads(log, 0) /\ Reads(Ended, 0)
    /\ command' = [step |-> "back up", body |-> Ended]
    /\ UNCHANGED <<log, index, backup, workload, sweep, runs, cuts>>

WriteBackup ==
    /\ command.step = "back up"
    /\ backup' = TRUE /\ command' = [command EXCEPT !.step = "rewrite"]
    /\ UNCHANGED <<log, index, workload, sweep, runs, cuts>>

\* Nothing in repair keeps it from a sweep that has proved its index and not yet written the next:
\* an operator does, or does not.
Apart == RepairsApart => sweep.step \notin {"fold", "write"}

Rewrite ==
    /\ command.step = "rewrite" /\ Apart /\ log' = command.body /\ command' = Idle
    /\ UNCHANGED <<index, backup, workload, sweep, runs, cuts>>

\* Killed once the file was truncated: as much of it is back as was written.
RewriteIsCut ==
    /\ command.step = "rewrite" /\ Apart /\ cuts < MaxCuts /\ cuts' = cuts + 1
    /\ \E n \in 0..(Len(command.body) - 1) :
          \/ log' = SubSeq(command.body, 1, n)
          \/ \E t \in {command.body[n + 1].text, Torn} :
                log' = Append(SubSeq(command.body, 1, n), [text |-> t, ended |-> FALSE])
    /\ command' = Idle
    /\ UNCHANGED <<index, backup, workload, sweep, runs>>

RepairIsKilled ==
    /\ command.step \in {"back up", "rewrite"} /\ command' = Idle
    /\ UNCHANGED <<log, index, backup, workload, sweep, runs, cuts>>

\* "Refused: the backup already exists - move it aside first."
MoveBackupAside ==
    /\ command = Idle /\ backup /\ backup' = FALSE
    /\ UNCHANGED <<log, index, workload, sweep, command, runs, cuts>>

-----------------------------------------------------------------------------
Sweeping == BeginSweep \/ Prove \/ FoldTail \/ WriteIndex \/ SweepEnds
Reattribution ==
    \/ \E d \in Decision : BeginReattribute(d)
    \/ Plan \/ Confirm \/ AppendHalf \/ HalfIsCut \/ ReattributeEnds
Repair == ReadForRepair \/ WriteBackup \/ Rewrite \/ RewriteIsCut \/ RepairIsKilled
LogNext ==
    \/ \E r \in Observation : Capture(r)
    \/ Sweeping \/ Reattribution \/ Repair \/ MoveBackupAside
LogSpec == LogInit /\ [][LogNext]_logVars

-----------------------------------------------------------------------------
\* "At every crash point a reader sees either the original or the corrected record - never
\* both, never neither."  While the log reads to its end, a record has one correction at most,
\* whose re-filed half came first and whose halves agree: reattribute of several decisions,
\* killed inside any append and run again, among captures and repairs.
CorrectionsStand ==
    Reads(log, 0) =>
        \A i, j \in DOMAIN log :
            /\ log[i].text.kind = "retracted" =>
                  \E k \in 1..(i - 1) : log[k].text = Refiled(log[i].text.of, log[i].text.by)
            /\ (i # j /\ {log[i].text.kind, log[j].text.kind} \subseteq {"refiled", "retracted"}) =>
                  ~(log[i].text.kind = log[j].text.kind /\ log[i].text.of = log[j].text.of)

\* "Any doubt costs one full re-fold, never a wrong answer": what a sweep takes from the index
\* and the rest of the log is what the whole of a log that reads to its end would have given it,
\* after corrections of old records, repairs that shorten the log and captures that regrow it.
IndexIsTheFold ==
    [][sweep.step = "fold" /\ sweep'.step = "write" /\ Reads(log, 0) => sweep'.view = View(<<>>, 0)]_logVars
=============================================================================
