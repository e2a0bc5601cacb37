------------------------------ MODULE GateEpoch ------------------------------
(***************************************************************************)
(* The temporal gate epoch: from when on a state of the corpus without an  *)
(* attestation may no longer be served as "unattested" (temporal_gate.py,  *)
(* temporal_attestation.py, the steps of sync.yml around them).            *)
(*                                                                         *)
(* Two git notes refs beside the branch: proofs of states per parser       *)
(* version, and one immutable record per version of when its gate began.   *)
(* A notes ref is a history: it is fetched whole, over whatever was there, *)
(* and pushed only as a continuation of what the remote has.               *)
(***************************************************************************)
EXTENDS Integers, SequencesExt

CONSTANTS
    MaxVersion,   \* bound on TEMPORAL_PARSER_VERSION
    MaxTime,      \* bound on the clock
    MaxStates,    \* bound on the corpus states made
    Histories     \* what the remote may have when the mechanism is deployed

ASSUME EpochAssumption == {MaxVersion, MaxTime, MaxStates} \subseteq Nat

VARIABLES
    clock,      \* in half seconds: author dates and epochs have whole ones
    parser,     \* TEMPORAL_PARSER_VERSION of the engine on its main branch
    made,       \* how many states were made, those that were lost included
    began,      \* of each version, the start and first HEAD of the first run to reach its gate
    remote,     \* origin: its branch, its proofs, and the history of its epoch ref
    night,      \* the sync job
    operator    \* the operator's clone: its epoch ref, and whether a backfill is to be pushed

epochVars == <<clock, parser, made, began, remote, night, operator>>

\* A time to the second: %aI, and replace(microsecond=0).
Second(t) == 2 * (t \div 2)

\* read_gate_epochs: the records of a notes history, all versions.
Records(h) == IF h = <<>> THEN {} ELSE Last(h)
Epoch(h, v) == {r \in Records(h) : r.version = v}

\* attested_commits
AttestedUnder(proofs, v) == {p[1] : p \in {q \in proofs : q[2] = v}}

\* _check_epoch_bounds, in a clone with this branch: the author date of every attested state is
\* looked up there.
WithinBounds(r, branch, proofs) ==
    /\ r.boundary.date < r.at
    /\ \A c \in AttestedUnder(proofs, r.version) : c \in ToSet(branch) /\ r.at <= c.date

\* git notes add -f: the note on one state, instead of what was noted there.
Noted(h, state, records) == Append(h, {r \in Records(h) : r.boundary # state} \cup records)

\* What there is before the mechanism: states from before the gate, and states that runs of the
\* first version made and pushed once its gate had attested one.
ASSUME HistoriesAssumption ==
    \A x \in Histories :
        /\ x.clock \in Nat
        /\ x.main \in Seq([nr : Nat, date : Nat, by : {0, 1}]) /\ x.main # <<>>
        /\ \A p \in x.proofs : p \in ToSet(x.main) \X {1} /\ 1 \in DOMAIN x.began
        /\ \A c \in ToSet(x.main) : c.by = 1 => AttestedUnder(x.proofs, 1) # {}
        /\ \A v \in DOMAIN x.began :
              /\ v = 1
              /\ x.began[v].head \in ToSet(x.main)
              /\ x.began[v].at \in Nat /\ x.began[v].at <= Second(x.clock)
              /\ \A c \in ToSet(x.main) : c.by = 1 => x.began[v].at <= c.date

\* Mutant: the note holds the new record alone.
WriteOver(h, r) == Noted(h, r.boundary, {r})

\* write_gate_epoch, of a record that was checked.
WriteEpoch(h, r) ==
    Noted(h, r.boundary, {e \in Records(h) : e.boundary = r.boundary} \cup {r})

\* _fetch_notes_ref: a remote without the ref leaves the local one.
Fetched(h) == IF remote.epochs = <<>> THEN h ELSE remote.epochs

\* Mutant: the push is forced.
PushForced(h) == TRUE

\* push_gate_epochs is a plain push: only a continuation is accepted.
Pushable(h) == IsPrefix(remote.epochs, h)

-----------------------------------------------------------------------------
(* The sync job.  One runs at a time (the group of sync.yml).                *)

NoRun == [step |-> "none"]

\* Clone lovverk, and fetch the two notes refs.
StartRun ==
    /\ night = NoRun
    /\ night' = [step |-> "record", version |-> parser, at |-> clock, branch |-> remote.main,
                 proofs |-> remote.proofs, epochs |-> remote.epochs]
    /\ UNCHANGED <<clock, parser, made, began, remote, operator>>

\* Mutant: the record keeps the fraction of its second.
RunRecordUnfloored ==
    [version |-> night.version, at |-> clock, boundary |-> Last(night.branch), source |-> "sync-run"]

\* _sync_run_record
RunRecord ==
    [version |-> night.version, at |-> Second(clock), boundary |-> Last(night.branch),
     source |-> "sync-run"]

\* record_sync_run_epoch up to its push; the job goes on without a record when it is refused or
\* the network fails (continue-on-error).
RecordEpoch ==
    /\ night.step = "record"
    /\ LET h == Fetched(night.epochs) IN
       \/ /\ Epoch(h, night.version) = {} /\ AttestedUnder(remote.proofs, night.version) = {}
          /\ WithinBounds(RunRecord, night.branch, remote.proofs)
          /\ night' = [night EXCEPT !.step = "publish", !.epochs = WriteEpoch(h, RunRecord)]
       \/ night' = [night EXCEPT !.step = "work", !.epochs = h]
    /\ UNCHANGED <<clock, parser, made, began, remote, operator>>

\* Its push, which may be rejected or fail.
PublishEpoch ==
    /\ night.step = "publish"
    /\ night' = [night EXCEPT !.step = "work"]
    /\ \/ Pushable(night.epochs) /\ remote' = [remote EXCEPT !.epochs = night.epochs]
       \/ UNCHANGED remote
    /\ UNCHANGED <<clock, parser, made, began, operator>>

\* A commit of the sync.
MakeState ==
    /\ night.step = "work" /\ made < MaxStates
    /\ made' = made + 1
    /\ night' = [night EXCEPT !.branch =
                    Append(@, [nr |-> made', date |-> Second(clock), by |-> night.version])]
    /\ UNCHANGED <<clock, parser, began, remote, operator>>

\* The gate, on HEAD as the run leaves it, new or not: it attests it, has attested it, or fails
\* the job.
RunGate ==
    /\ night.step = "work"
    /\ LET head == Last(night.branch)
           v == night.version
       IN  \/ /\ <<head, v>> \in night.proofs
              /\ night' = [night EXCEPT !.step = "proofs"] /\ UNCHANGED began
           \/ /\ <<head, v>> \notin night.proofs
              /\ \/ night' = [night EXCEPT !.step = "proofs", !.proofs = @ \cup {<<head, v>>}]
                 \/ night' = NoRun
              /\ began' = IF v \in DOMAIN began THEN began
                          ELSE [w \in DOMAIN began \cup {v} |->
                                   IF w = v THEN [at |-> Second(night.at), head |-> Last(remote.main)]
                                   ELSE began[w]]
    /\ UNCHANGED <<clock, parser, made, remote, operator>>

\* The notes are pushed first, then the branch.
PushProofs ==
    /\ night.step = "proofs"
    /\ remote' = [remote EXCEPT !.proofs = night.proofs]
    /\ night' = [night EXCEPT !.step = "branch"]
    /\ UNCHANGED <<clock, parser, made, began, operator>>
PushBranch ==
    /\ night.step = "branch"
    /\ remote' = [remote EXCEPT !.main = night.branch]
    /\ night' = NoRun
    /\ UNCHANGED <<clock, parser, made, began, operator>>

\* The job is killed or a step of it fails, and its clone is gone.
StopRun ==
    /\ night # NoRun /\ night' = NoRun
    /\ UNCHANGED <<clock, parser, made, began, remote, operator>>

-----------------------------------------------------------------------------
(* The operator's backfill, with what the manual says to enter: the start of *)
(* the first run that ran the gate of the version, and the HEAD it began on. *)

BackfillRecord(v) ==
    [version |-> v, at |-> began[v].at, boundary |-> began[v].head, source |-> "backfill"]

\* backfill_epoch --apply up to its push: a record that a rejected push left in the clone is
\* found there again, unless the remote has its ref by now.
Backfill ==
    /\ operator.step = "none" /\ parser \in DOMAIN began
    /\ LET h == Fetched(operator.epochs)
           r == BackfillRecord(parser)
       IN  \/ /\ Epoch(h, parser) = {} /\ WithinBounds(r, remote.main, remote.proofs)
              /\ operator' = [step |-> "publish", epochs |-> WriteEpoch(h, r)]
           \/ Epoch(h, parser) = {r} /\ h # remote.epochs /\ operator' = [step |-> "publish", epochs |-> h]
    /\ UNCHANGED <<clock, parser, made, began, remote, night>>

\* Its push, which may be rejected or fail: the clone stays.
PublishBackfill ==
    /\ operator.step = "publish"
    /\ operator' = [operator EXCEPT !.step = "none"]
    /\ \/ Pushable(operator.epochs) /\ remote' = [remote EXCEPT !.epochs = operator.epochs]
       \/ UNCHANGED remote
    /\ UNCHANGED <<clock, parser, made, began, night>>

NewParser ==
    /\ parser < MaxVersion /\ parser' = parser + 1
    /\ UNCHANGED <<clock, made, began, remote, night, operator>>
Tick ==
    /\ clock < MaxTime /\ clock' = clock + 1
    /\ UNCHANGED <<parser, made, began, remote, night, operator>>

EpochInit ==
    /\ \E x \in Histories :
          /\ clock = x.clock /\ made = Len(x.main) /\ began = x.began
          /\ remote = [main |-> x.main, proofs |-> x.proofs, epochs |-> <<>>]
    /\ parser = 1 /\ night = NoRun /\ operator = [step |-> "none", epochs |-> <<>>]

EpochNext ==
    \/ StartRun \/ RecordEpoch \/ PublishEpoch \/ MakeState \/ RunGate \/ PushProofs \/ PushBranch
    \/ StopRun \/ Backfill \/ PublishBackfill \/ NewParser \/ Tick
EpochSpec == EpochInit /\ [][EpochNext]_epochVars

-----------------------------------------------------------------------------
\* served_reconciliation, of a server with parser v, on a clone with these notes.
Served(c, v, proofs, h) ==
    IF \E r, s \in Records(h) : r # s /\ r.version = s.version THEN "broken"
    ELSE IF <<c, v>> \in proofs THEN "attested"
    ELSE IF Epoch(h, v) = {} THEN "broken"
    ELSE IF \A r \in Epoch(h, v) : c.date < r.at THEN "unattested" ELSE "refused"

\* However runs, their pushes and backfills fail and overlap, no state that a run with the gate
\* of a version has made is ever served as "unattested" under it, not even from a clone that
\* has fetched no proof: the gate attested it or did not, and the server says so.
UnattestedIsPreGate ==
    \A c \in ToSet(remote.main), v \in 1..parser, proofs \in {{}, remote.proofs} :
        Served(c, v, proofs, remote.epochs) = "unattested" => c.by < v

\* A record that reached the remote stays there as it is, beside those of other versions, and
\* no version gets a second, which would break the channel for all of them.
RecordsStand ==
    [][/\ Records(remote.epochs) \subseteq Records(remote'.epochs)
       /\ \A v \in 1..MaxVersion : Cardinality(Epoch(remote'.epochs, v)) <= 1]_epochVars

\* "the gate cannot have attested a state before it began" (check_gate_epoch): so where states
\* are attested and no record is, the start of the gate can be recorded.
StartCanBeRecorded ==
    \A v \in DOMAIN began :
        AttestedUnder(remote.proofs, v) # {} /\ Epoch(remote.epochs, v) = {} =>
            WithinBounds(BackfillRecord(v), remote.main, remote.proofs)
==============================================================================
