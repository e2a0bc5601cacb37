------------------------ MODULE ReleaseControlProofs ------------------------
(***************************************************************************)
(* Proofs about ReleaseControl for every set of releases and of commands,  *)
(* every continuity relation and every combination of faults; and about    *)
(* FirstMigration, the cutover of a host, for any number of kills, refused *)
(* loads and failed restarts: the Caddyfile on disk can always be loaded,  *)
(* a marked host can go back, and a way back that ends leaves the old      *)
(* files.                                                                  *)
(***************************************************************************)
EXTENDS ReleaseControl, FirstMigration, TLAPS

USE NamesAssumption

\* What one update of job does: Begin, Goto and Exit, seen field by field.
LEMMA JobTypes == NoJob \in Job /\ NoJob.step = "idle" /\ (TypeOK => ReadTriple \in Triple)
  BY DEF NoJob, Nothing, Job, Step, Triple, ConfigPair, Edited, TypeOK, ReadTriple

LEMMA PairTypes ==
    /\ \A r \in Release : Own(r) \in ConfigPair
    /\ \A r \in Release \cup {NoRelease} : Edited(r) \in ConfigPair
  BY DEF Own, Edited, ConfigPair

LEMMA GotoEffect ==
    ASSUME TypeOK, NEW p \in Operator, NEW s \in Step, Goto(p, s)
    PROVE  /\ job' \in [Operator -> Job]
           /\ job'[p].step = s /\ job'[p].kind = job[p].kind
           /\ job'[p].target = job[p].target /\ job'[p].seen = job[p].seen
           /\ job'[p].doomed = job[p].doomed
           /\ \A q \in Operator : q # p => job'[q] = job[q]
  BY DEF TypeOK, Goto, Job

LEMMA ExitEffect ==
    ASSUME TypeOK, NEW p \in Operator, Exit(p)
    PROVE  /\ job' \in [Operator -> Job]
           /\ job'[p].step = "idle"
           /\ \A q \in Operator : q # p => job'[q] = job[q]
           /\ holder' \in Operator \cup {NoOperator}
  BY JobTypes DEF TypeOK, Exit, NoJob

LEMMA BeginEffect ==
    ASSUME TypeOK, NEW p \in Operator, NEW s \in Step,
           NEW kind \in {"commit", "rollback", "complete", "abandon", "record", "prune"},
           NEW target \in Release \cup {NoRelease}, NEW doomed \in SUBSET Release,
           Begin(p, s, kind, target, doomed)
    PROVE  /\ job' \in [Operator -> Job]
           /\ job'[p].step = s /\ job'[p].kind = kind /\ job'[p].target = target
           /\ job'[p].seen = ReadTriple/\ job'[p].doomed = doomed
           /\ \A q \in Operator : q # p => job'[q] = job[q]
           /\ holder = NoOperator /\ holder' = p
  BY JobTypes DEF TypeOK, Begin, TakeLock, Job

\* Nobody stands anywhere while another command runs: the flock excludes it.
LEMMA Alone ==
    ASSUME NEW p \in Operator, \A q \in Operator : Exclusive(q),
           holder \in {p, NoOperator}
    PROVE  \A q \in Operator : q # p => At(q, "idle")
  BY DEF Exclusive, At

\* A step of p that leaves the others where they are has only p's standing to show.
LEMMA OneStands ==
    ASSUME NEW p \in Operator,
           \A q \in Operator : q # p => At(q, "idle"),
           \A q \in Operator : q # p => job'[q] = job[q],
           Standing(p)'
    PROVE  \A q \in Operator : Standing(q)'
<1> SUFFICES ASSUME NEW q \in Operator, q # p PROVE Standing(q)'
  OBVIOUS
<1>1. job'[q].step = "idle"
  BY DEF At
<1> QED
  BY <1>1 DEF Standing, Exclusive, TargetIntact, ServesTarget, BootstrapNamesNothing,
              DoomedUnnamed, Busy, At

\* Ending a command leaves nothing to show about it.
LEMMA ExitKeeps ==
    ASSUME IndInv, NEW p \in Operator, Exit(p), ~At(p, "idle"),
           TypeOK' /\ NamedIntact' /\ KeptNamesNothing'
    PROVE  IndInv'
<1>1. \A q \in Operator : q # p => At(q, "idle")
  BY Alone DEF IndInv, Standing, Exclusive
<1>2. Standing(p)'
  BY ExitEffect DEF IndInv, Standing, Exclusive, TargetIntact, ServesTarget,
                    BootstrapNamesNothing, DoomedUnnamed, Busy, At
<1> QED
  BY <1>1, <1>2, ExitEffect, OneStands DEF IndInv

-----------------------------------------------------------------------------
(* One lemma per action                                                    *)

LEMMA GotoKeeps ==
    ASSUME IndInv, NEW p \in Operator, ~At(p, "idle"), NEW s \in Step \ {"idle"},
           Goto(p, s), UNCHANGED <<marker, holder>>,
           TypeOK', NamedIntact', KeptNamesNothing',
           TargetIntact(p)', ServesTarget(p)', BootstrapNamesNothing(p)', DoomedUnnamed(p)'
    PROVE  IndInv'
<1>1. \A q \in Operator : q # p => At(q, "idle")
  BY Alone DEF IndInv, Standing, Exclusive
<1>2. Exclusive(p)'
  BY GotoEffect DEF IndInv, Standing, Exclusive, At
<1>3. Standing(p)'
  BY <1>2 DEF Standing
<1> QED
  BY <1>1, <1>3, GotoEffect, OneStands DEF IndInv

LEMMA JudgePassedKeeps == ASSUME IndInv, NEW p \in Operator, JudgePassed(p) PROVE IndInv'
<1> USE DEF JudgePassed
<1>1. TypeOK' /\ NamedIntact' /\ KeptNamesNothing'
  BY GotoEffect DEF IndInv, TypeOK, NamedIntact, KeptNamesNothing, At, Step
<1>2. TargetIntact(p)' /\ ServesTarget(p)' /\ BootstrapNamesNothing(p)' /\ DoomedUnnamed(p)'
  BY GotoEffect DEF IndInv, TypeOK, Standing, Exclusive, TargetIntact, ServesTarget,
     BootstrapNamesNothing, DoomedUnnamed, NamedIntact, Busy, Expected, At, Step
<1> QED
  BY <1>1, <1>2, GotoKeeps DEF At, Step

LEMMA StageKeeps == ASSUME IndInv, NEW p \in Operator, Stage(p) PROVE IndInv'
<1> USE DEF Stage
<1>1. TypeOK' /\ NamedIntact' /\ KeptNamesNothing'
  BY GotoEffect DEF IndInv, TypeOK, NamedIntact, KeptNamesNothing, At, Step, Marker, ConfigPair,
     Standing, Exclusive, BootstrapNamesNothing, Busy
<1>2. TargetIntact(p)' /\ ServesTarget(p)' /\ BootstrapNamesNothing(p)' /\ DoomedUnnamed(p)'
  BY GotoEffect DEF IndInv, TypeOK, Standing, Exclusive, TargetIntact, ServesTarget,
     BootstrapNamesNothing, DoomedUnnamed, NamedIntact, Busy, Expected, At, Step, Marker, ConfigPair
<1> QED
  BY <1>1, <1>2, GotoKeeps DEF At, Step

LEMMA WriteNextKeeps == ASSUME IndInv, NEW p \in Operator, WriteNext(p) PROVE IndInv'
<1> USE DEF WriteNext
<1>1. TypeOK' /\ NamedIntact' /\ KeptNamesNothing'
  BY GotoEffect, PairTypes DEF IndInv, TypeOK, NamedIntact, KeptNamesNothing, At, Step, Own,
     Standing, TargetIntact, Busy
<1>2. TargetIntact(p)' /\ ServesTarget(p)' /\ BootstrapNamesNothing(p)' /\ DoomedUnnamed(p)'
  BY GotoEffect DEF IndInv, TypeOK, Standing, Exclusive, TargetIntact, ServesTarget,
     BootstrapNamesNothing, DoomedUnnamed, NamedIntact, Busy, Expected, At, Step, Own
<1> QED
  BY <1>1, <1>2, GotoKeeps DEF At, Step

LEMMA CheckedKeeps == ASSUME IndInv, NEW p \in Operator, Checked(p) PROVE IndInv'
<1> USE DEF Checked
<1>1. TypeOK' /\ NamedIntact' /\ KeptNamesNothing'
  BY GotoEffect DEF IndInv, TypeOK, NamedIntact, KeptNamesNothing, At, Step
<1>2. TargetIntact(p)' /\ ServesTarget(p)' /\ BootstrapNamesNothing(p)' /\ DoomedUnnamed(p)'
  BY GotoEffect DEF IndInv, TypeOK, Standing, Exclusive, TargetIntact, ServesTarget,
     BootstrapNamesNothing, DoomedUnnamed, NamedIntact, Busy, Expected, At, Step
<1> QED
  BY <1>1, <1>2, GotoKeeps DEF At, Step

LEMMA ReloadedKeeps == ASSUME IndInv, NEW p \in Operator, Reloaded(p) PROVE IndInv'
<1> USE DEF Reloaded
<1>1. TypeOK' /\ NamedIntact' /\ KeptNamesNothing'
  BY GotoEffect DEF IndInv, TypeOK, NamedIntact, KeptNamesNothing, At, Step, ConfigPair, Retained
<1>2. TargetIntact(p)' /\ ServesTarget(p)' /\ BootstrapNamesNothing(p)' /\ DoomedUnnamed(p)'
  BY GotoEffect DEF IndInv, TypeOK, Standing, Exclusive, TargetIntact, ServesTarget,
     BootstrapNamesNothing, DoomedUnnamed, NamedIntact, Busy, Expected, At, Step, ConfigPair, Retained
<1> QED
  BY <1>1, <1>2, GotoKeeps DEF At, Step

LEMMA ConfirmedKeeps == ASSUME IndInv, NEW p \in Operator, Confirmed(p) PROVE IndInv'
<1> USE DEF Confirmed
<1>1. TypeOK' /\ NamedIntact' /\ KeptNamesNothing'
  BY GotoEffect DEF IndInv, TypeOK, NamedIntact, KeptNamesNothing, At, Step
<1>2. TargetIntact(p)' /\ ServesTarget(p)' /\ BootstrapNamesNothing(p)' /\ DoomedUnnamed(p)'
  BY GotoEffect DEF IndInv, TypeOK, Standing, Exclusive, TargetIntact, ServesTarget,
     BootstrapNamesNothing, DoomedUnnamed, NamedIntact, Busy, Expected, At, Step
<1> QED
  BY <1>1, <1>2, GotoKeeps DEF At, Step

LEMMA RecheckedKeeps == ASSUME IndInv, NEW p \in Operator, Rechecked(p) PROVE IndInv'
<1> USE DEF Rechecked
<1>1. TypeOK' /\ NamedIntact' /\ KeptNamesNothing'
  BY GotoEffect DEF IndInv, TypeOK, NamedIntact, KeptNamesNothing, At, Step
<1>2. TargetIntact(p)' /\ ServesTarget(p)' /\ BootstrapNamesNothing(p)' /\ DoomedUnnamed(p)'
  BY GotoEffect DEF IndInv, TypeOK, Standing, Exclusive, TargetIntact, ServesTarget,
     BootstrapNamesNothing, DoomedUnnamed, NamedIntact, Busy, Expected, At, Step
<1> QED
  BY <1>1, <1>2, GotoKeeps DEF At, Step

LEMMA ReswapKeeps == ASSUME IndInv, NEW p \in Operator, Reswap(p) PROVE IndInv'
<1> USE DEF Reswap
<1>1. TypeOK' /\ NamedIntact' /\ KeptNamesNothing'
  BY GotoEffect DEF IndInv, TypeOK, NamedIntact, KeptNamesNothing, At, Step, ConfigPair, Retained, Standing, TargetIntact, Busy
<1>2. TargetIntact(p)' /\ ServesTarget(p)' /\ BootstrapNamesNothing(p)' /\ DoomedUnnamed(p)'
  BY GotoEffect DEF IndInv, TypeOK, Standing, Exclusive, TargetIntact, ServesTarget,
     BootstrapNamesNothing, DoomedUnnamed, NamedIntact, Busy, Expected, At, Step, ConfigPair, Retained
<1> QED
  BY <1>1, <1>2, GotoKeeps DEF At, Step

LEMMA WriteRevertKeeps == ASSUME IndInv, NEW p \in Operator, WriteRevert(p) PROVE IndInv'
<1> DEFINE to == IF job[p].kind = "abandon" THEN "recheck" ELSE "reswap"
<1>0. Goto(p, to) /\ to \in Step \ {"idle"} /\ ~At(p, "idle")
  BY DEF WriteRevert, Step, At
<1>1. /\ RevertSource(job[p].seen.marker) \in ConfigPair
      /\ RevertSource(job[p].seen.marker).release # NoRelease =>
             store[RevertSource(job[p].seen.marker).release] = "complete"
  <2>1. job[p].seen.marker = marker
    BY <1>0 DEF IndInv, Standing, Exclusive
  <2> QED
    BY <2>1 DEF WriteRevert, IndInv, TypeOK, RevertSource, KeptNamesNothing, Own, ConfigPair, Marker
<1>2. TypeOK' /\ NamedIntact' /\ KeptNamesNothing'
  BY <1>0, <1>1, GotoEffect DEF WriteRevert, IndInv, TypeOK, NamedIntact, KeptNamesNothing
<1>3. TargetIntact(p)' /\ ServesTarget(p)' /\ BootstrapNamesNothing(p)' /\ DoomedUnnamed(p)'
  BY <1>0, <1>1, GotoEffect DEF WriteRevert, IndInv, TypeOK, TargetIntact, ServesTarget,
     BootstrapNamesNothing, DoomedUnnamed, Busy, Step, ConfigPair
<1> QED
  BY <1>0, <1>2, <1>3, GotoKeeps DEF WriteRevert

LEMMA SwapKeeps == ASSUME IndInv, NEW p \in Operator, Swap(p) PROVE IndInv'
<1>0. /\ ~At(p, "idle") /\ next = Own(job[p].target)
      /\ job[p].target \in Release /\ store[job[p].target] = "complete"
      /\ next \in ConfigPair /\ next.release = job[p].target
  BY PairTypes DEF Swap, At, IndInv, Standing, TargetIntact, Busy, Own
<1>1. "reload" \in Step \ {"idle"} /\ Goto(p, "reload") /\ UNCHANGED <<running, kept, marker, store, holder>>
      /\ disk' = next /\ next' = NoFile
  BY DEF Swap, Step
<1>2. TypeOK' /\ KeptNamesNothing'
  BY <1>0, <1>1, GotoEffect DEF IndInv, TypeOK, KeptNamesNothing
<1>3. NamedIntact'
  <2> SUFFICES ASSUME NEW r, r \in {running.release, next.release, Marked(marker), Previous(marker)},
                      r # NoRelease
               PROVE  store[r] = "complete"
    BY <1>1 DEF NamedIntact, Marked, Previous
  <2> QED
    BY <1>0 DEF IndInv, NamedIntact
<1>4. TargetIntact(p)' /\ ServesTarget(p)' /\ BootstrapNamesNothing(p)' /\ DoomedUnnamed(p)'
  <2>1. job[p].kind # "complete"
    BY <1>0 DEF Swap, IndInv, Standing, ServesTarget, Busy, At
  <2> QED
    BY <1>0, <1>1, <2>1, GotoEffect DEF IndInv, TypeOK, TargetIntact, ServesTarget,
       BootstrapNamesNothing, DoomedUnnamed, Busy, Expected, Own
<1> QED
  BY <1>0, <1>1, <1>2, <1>3, <1>4, GotoKeeps

LEMMA JudgeRefusedKeeps == ASSUME IndInv, NEW p \in Operator, JudgeRefused(p) PROVE IndInv'
<1>1. ~At(p, "idle") /\ Exit(p)
  BY DEF JudgeRefused, At
<1>2. TypeOK' /\ NamedIntact' /\ KeptNamesNothing'
  BY <1>1, ExitEffect DEF JudgeRefused, IndInv, TypeOK, NamedIntact, KeptNamesNothing
<1> QED
  BY <1>1, <1>2, ExitKeeps

LEMMA NothingToRevertKeeps == ASSUME IndInv, NEW p \in Operator, NothingToRevert(p) PROVE IndInv'
<1>1. ~At(p, "idle") /\ Exit(p)
  BY DEF NothingToRevert, At
<1>2. TypeOK' /\ NamedIntact' /\ KeptNamesNothing'
  BY <1>1, ExitEffect DEF NothingToRevert, IndInv, TypeOK, NamedIntact, KeptNamesNothing
<1> QED
  BY <1>1, <1>2, ExitKeeps

LEMMA InvalidKeeps == ASSUME IndInv, NEW p \in Operator, Invalid(p) PROVE IndInv'
<1>1. ~At(p, "idle") /\ Exit(p)
  BY DEF Invalid, At
<1>2. TypeOK' /\ NamedIntact' /\ KeptNamesNothing'
  BY <1>1, ExitEffect DEF Invalid, IndInv, TypeOK, NamedIntact, KeptNamesNothing
<1> QED
  BY <1>1, <1>2, ExitKeeps

LEMMA RereloadKeeps == ASSUME IndInv, NEW p \in Operator, Rereload(p) PROVE IndInv'
<1>1. ~At(p, "idle") /\ Exit(p)
  BY DEF Rereload, At
<1>2. TypeOK' /\ NamedIntact' /\ KeptNamesNothing'
  BY <1>1, ExitEffect DEF Rereload, IndInv, TypeOK, NamedIntact, KeptNamesNothing
<1> QED
  BY <1>1, <1>2, ExitKeeps

LEMMA RereloadRefusedKeeps == ASSUME IndInv, NEW p \in Operator, RereloadRefused(p) PROVE IndInv'
<1>1. ~At(p, "idle") /\ Exit(p)
  BY DEF RereloadRefused, At
<1>2. TypeOK' /\ NamedIntact' /\ KeptNamesNothing'
  BY <1>1, ExitEffect DEF RereloadRefused, IndInv, TypeOK, NamedIntact, KeptNamesNothing
<1> QED
  BY <1>1, <1>2, ExitKeeps

LEMMA EndPruneKeeps == ASSUME IndInv, NEW p \in Operator, EndPrune(p) PROVE IndInv'
<1>1. ~At(p, "idle") /\ Exit(p)
  BY DEF EndPrune, At
<1>2. TypeOK' /\ NamedIntact' /\ KeptNamesNothing'
  BY <1>1, ExitEffect DEF EndPrune, IndInv, TypeOK, NamedIntact, KeptNamesNothing
<1> QED
  BY <1>1, <1>2, ExitKeeps

LEMMA CrashKeeps == ASSUME IndInv, NEW p \in Operator, Crash(p) PROVE IndInv'
<1>1. ~At(p, "idle") /\ Exit(p)
  BY DEF Crash, At
<1>2. TypeOK' /\ NamedIntact' /\ KeptNamesNothing'
  BY <1>1, ExitEffect DEF Crash, IndInv, TypeOK, NamedIntact, KeptNamesNothing
<1> QED
  BY <1>1, <1>2, ExitKeeps

LEMMA WriteMarkerKeeps == ASSUME IndInv, NEW p \in Operator, WriteMarker(p) PROVE IndInv'
<1>1. ~At(p, "idle") /\ Exit(p) /\ job[p].target = running.release
      /\ job[p].target \in Release /\ job[p].seen.marker = marker
  BY DEF WriteMarker, At, IndInv, Standing, TargetIntact, ServesTarget, Exclusive, Busy
<1>2. TypeOK' /\ NamedIntact' /\ KeptNamesNothing'
  BY <1>1, ExitEffect DEF WriteMarker, IndInv, TypeOK, NamedIntact, KeptNamesNothing, Marker,
     Marked, Previous
<1> QED
  BY <1>1, <1>2, ExitKeeps

\* A failed reload, or an R that is not the expected one.
LEMMA GiveUpKeeps ==
    ASSUME IndInv, NEW p \in Operator, ~At(p, "idle"), GiveUp(p),
           UNCHANGED <<running, disk, next, kept, marker, store>>
    PROVE  IndInv'
<1>1. CASE Exit(p)
  <2>1. TypeOK' /\ NamedIntact' /\ KeptNamesNothing'
    BY <1>1, ExitEffect DEF IndInv, TypeOK, NamedIntact, KeptNamesNothing
  <2> QED
    BY <1>1, <2>1, ExitKeeps
<1>2. CASE Goto(p, "revert") /\ UNCHANGED holder
  <2> "revert" \in Step
    BY DEF Step
  <2>1. TypeOK' /\ NamedIntact' /\ KeptNamesNothing'
    BY <1>2, GotoEffect DEF IndInv, TypeOK, NamedIntact, KeptNamesNothing
  <2>2. TargetIntact(p)' /\ ServesTarget(p)' /\ BootstrapNamesNothing(p)' /\ DoomedUnnamed(p)'
    BY <1>2, GotoEffect DEF IndInv, TargetIntact, ServesTarget, BootstrapNamesNothing,
       DoomedUnnamed, Busy
  <2> QED
    BY <1>2, <2>1, <2>2, GotoKeeps
<1> QED
  BY <1>1, <1>2 DEF GiveUp

LEMMA BeginKeeps ==
    ASSUME IndInv, NEW p \in Operator, NEW s \in Step \ {"idle"},
           NEW kind \in {"commit", "rollback", "complete", "abandon", "record", "prune"},
           NEW target \in Release \cup {NoRelease}, NEW doomed \in SUBSET Release,
           Begin(p, s, kind, target, doomed),
           UNCHANGED <<running, disk, next, kept, marker, store>>,
           TargetIntact(p)', ServesTarget(p)', BootstrapNamesNothing(p)', DoomedUnnamed(p)'
    PROVE  IndInv'
<1>1. \A q \in Operator : q # p => At(q, "idle")
  BY BeginEffect, Alone DEF IndInv, Standing
<1>2. TypeOK' /\ NamedIntact' /\ KeptNamesNothing'
  BY BeginEffect DEF IndInv, TypeOK, NamedIntact, KeptNamesNothing
<1>3. Standing(p)'
  BY BeginEffect DEF IndInv, Standing, Exclusive, ReadTriple
<1> QED
  BY <1>1, <1>2, <1>3, BeginEffect, OneStands DEF IndInv

LEMMA BeginCommitKeeps == ASSUME IndInv, NEW p \in Operator, NEW r \in Release, BeginCommit(p, r) PROVE IndInv'
<1>1. /\ "judge" \in Step \ {"idle"} /\ r \in Release \cup {NoRelease}
      /\ {} \in SUBSET Release
      /\ Begin(p, "judge", "commit", r, {})
  BY DEF BeginCommit, IndInv, TypeOK, Step, ConfigPair, Marker, Previous
<1>2. TargetIntact(p)' /\ ServesTarget(p)' /\ BootstrapNamesNothing(p)' /\ DoomedUnnamed(p)'
  BY <1>1, BeginEffect DEF BeginCommit, IndInv, TypeOK, TargetIntact, ServesTarget,
     BootstrapNamesNothing, DoomedUnnamed, Busy, Expected, Situation, ReadTriple, Marked, ConfigPair
<1> QED
  BY <1>1, <1>2, BeginKeeps DEF BeginCommit

LEMMA BeginRollbackKeeps == ASSUME IndInv, NEW p \in Operator, BeginRollback(p) PROVE IndInv'
<1>1. /\ "judge" \in Step \ {"idle"} /\ marker.previous \in Release \cup {NoRelease}
      /\ {} \in SUBSET Release
      /\ Begin(p, "judge", "rollback", marker.previous, {})
  BY DEF BeginRollback, IndInv, TypeOK, Step, ConfigPair, Marker, Previous
<1>2. TargetIntact(p)' /\ ServesTarget(p)' /\ BootstrapNamesNothing(p)' /\ DoomedUnnamed(p)'
  BY <1>1, BeginEffect DEF BeginRollback, IndInv, TypeOK, TargetIntact, ServesTarget,
     BootstrapNamesNothing, DoomedUnnamed, Busy, Expected, Situation, ReadTriple, Marked, Previous, Marker
<1> QED
  BY <1>1, <1>2, BeginKeeps DEF BeginRollback

LEMMA BeginRecordKeeps == ASSUME IndInv, NEW p \in Operator, BeginRecord(p) PROVE IndInv'
<1>1. /\ "mark" \in Step \ {"idle"} /\ running.release \in Release \cup {NoRelease}
      /\ {} \in SUBSET Release
      /\ Begin(p, "mark", "record", running.release, {})
  BY DEF BeginRecord, IndInv, TypeOK, Step, ConfigPair, Marker, Previous
<1>2. TargetIntact(p)' /\ ServesTarget(p)' /\ BootstrapNamesNothing(p)' /\ DoomedUnnamed(p)'
  BY <1>1, BeginEffect DEF BeginRecord, IndInv, TypeOK, TargetIntact, ServesTarget,
     BootstrapNamesNothing, DoomedUnnamed, Busy, Expected, Situation, ReadTriple, Marked, NamedIntact, ConfigPair
<1> QED
  BY <1>1, <1>2, BeginKeeps DEF BeginRecord

LEMMA BeginCompleteKeeps == ASSUME IndInv, NEW p \in Operator, BeginComplete(p) PROVE IndInv'
<1>1. /\ "reload" \in Step \ {"idle"} /\ disk.release \in Release \cup {NoRelease}
      /\ {} \in SUBSET Release
      /\ Begin(p, "reload", "complete", disk.release, {})
  BY DEF BeginComplete, IndInv, TypeOK, Step, ConfigPair, Marker, Previous
<1>2. TargetIntact(p)' /\ ServesTarget(p)' /\ BootstrapNamesNothing(p)' /\ DoomedUnnamed(p)'
  BY <1>1, BeginEffect DEF BeginComplete, IndInv, TypeOK, TargetIntact, ServesTarget,
     BootstrapNamesNothing, DoomedUnnamed, Busy, Expected, Situation, ReadTriple, Marked, NamedIntact, Completable, ConfigPair
<1> QED
  BY <1>1, <1>2, BeginKeeps DEF BeginComplete

LEMMA BeginAbandonKeeps == ASSUME IndInv, NEW p \in Operator, BeginAbandon(p) PROVE IndInv'
<1>1. /\ "revert" \in Step \ {"idle"} /\ NoRelease \in Release \cup {NoRelease}
      /\ {} \in SUBSET Release
      /\ Begin(p, "revert", "abandon", NoRelease, {})
  BY DEF BeginAbandon, IndInv, TypeOK, Step, ConfigPair, Marker, Previous
<1>2. TargetIntact(p)' /\ ServesTarget(p)' /\ BootstrapNamesNothing(p)' /\ DoomedUnnamed(p)'
  BY <1>1, BeginEffect DEF BeginAbandon, IndInv, TypeOK, TargetIntact, ServesTarget,
     BootstrapNamesNothing, DoomedUnnamed, Busy, Expected, Situation, ReadTriple, Marked, ConfigPair
<1> QED
  BY <1>1, <1>2, BeginKeeps DEF BeginAbandon

LEMMA BeginPruneKeeps == ASSUME IndInv, NEW p \in Operator, BeginPrune(p) PROVE IndInv'
<1>1. /\ "prune" \in Step \ {"idle"} /\ NoRelease \in Release \cup {NoRelease}
      /\ ({r \in Release : store[r] # "absent"} \ Retained) \in SUBSET Release
      /\ Begin(p, "prune", "prune", NoRelease, ({r \in Release : store[r] # "absent"} \ Retained))
  BY DEF BeginPrune, IndInv, TypeOK, Step, ConfigPair, Marker, Previous
<1>2. TargetIntact(p)' /\ ServesTarget(p)' /\ BootstrapNamesNothing(p)' /\ DoomedUnnamed(p)'
  BY <1>1, BeginEffect DEF BeginPrune, IndInv, TypeOK, TargetIntact, ServesTarget,
     BootstrapNamesNothing, DoomedUnnamed, Busy, Expected, Situation, ReadTriple, Marked, Retained, Previous
<1> QED
  BY <1>1, <1>2, BeginKeeps DEF BeginPrune

-----------------------------------------------------------------------------
(* Steps that leave every command where it is                              *)

LEMMA TearKeeps ==
    ASSUME IndInv, NEW p \in Operator, NEW r \in Release, Tear(p, r) PROVE IndInv'
<1>1. /\ r \notin Retained
      /\ \A q \in Operator : q # p => At(q, "idle")
  BY Alone DEF Tear, At, IndInv, Standing, Exclusive, DoomedUnnamed, Busy
<1>2. TypeOK' /\ NamedIntact' /\ KeptNamesNothing'
  BY <1>1 DEF Tear, IndInv, TypeOK, NamedIntact, KeptNamesNothing, Retained
<1>3. Standing(p)'
  BY DEF Tear, At, IndInv, Standing, Exclusive, TargetIntact, ServesTarget,
         BootstrapNamesNothing, DoomedUnnamed, Busy, Retained
<1> QED
  BY <1>1, <1>2, <1>3, OneStands DEF IndInv, Tear

LEMMA RemovedKeeps ==
    ASSUME IndInv, NEW p \in Operator, NEW r \in Release, Removed(p, r) PROVE IndInv'
<1>1. \A q \in Operator : q # p => At(q, "idle")
  BY Alone DEF Removed, At, IndInv, Standing, Exclusive
<1>2. /\ job' \in [Operator -> Job]
      /\ job'[p].step = "prune" /\ job'[p].doomed = job[p].doomed \ {r}
      /\ job'[p].seen = job[p].seen
      /\ \A q \in Operator : q # p => job'[q] = job[q]
  BY DEF Removed, At, IndInv, TypeOK, Job
<1>3. TypeOK' /\ NamedIntact' /\ KeptNamesNothing'
  BY <1>2 DEF Removed, IndInv, TypeOK, NamedIntact, KeptNamesNothing
<1>4. Standing(p)'
  BY <1>2 DEF Removed, At, IndInv, Standing, Exclusive, TargetIntact, ServesTarget,
     BootstrapNamesNothing, DoomedUnnamed, Busy, Retained
<1> QED
  BY <1>1, <1>2, <1>3, <1>4, OneStands DEF IndInv

LEMMA PlaceKeeps == ASSUME IndInv, NEW r \in Release, Place(r) PROVE IndInv'
<1>1. TypeOK' /\ NamedIntact' /\ KeptNamesNothing'
  BY DEF Place, IndInv, TypeOK, NamedIntact, KeptNamesNothing
<1>2. ASSUME NEW p \in Operator PROVE Standing(p)'
  BY DEF Place, IndInv, TypeOK, Standing, Exclusive, TargetIntact, ServesTarget,
         BootstrapNamesNothing, DoomedUnnamed, Busy, Expected, At, Retained, ConfigPair
<1> QED
  BY <1>1, <1>2 DEF IndInv

LEMMA RestartKeeps == ASSUME IndInv, Restart PROVE IndInv'
<1>1. TypeOK' /\ NamedIntact' /\ KeptNamesNothing'
  BY DEF Restart, IndInv, TypeOK, NamedIntact, KeptNamesNothing
<1>2. ASSUME NEW p \in Operator PROVE Standing(p)'
  BY DEF Restart, IndInv, Standing, Exclusive, TargetIntact, ServesTarget,
         BootstrapNamesNothing, DoomedUnnamed, Busy, Expected, At, Retained
<1> QED
  BY <1>1, <1>2 DEF IndInv

LEMMA HandEditKeeps == ASSUME IndInv, NEW c \in Editable, HandEdit(c) PROVE IndInv'
<1>0. c \in ConfigPair
  BY PairTypes DEF Editable
<1>1. TypeOK' /\ NamedIntact' /\ KeptNamesNothing'
  BY <1>0 DEF HandEdit, IndInv, TypeOK, NamedIntact, KeptNamesNothing
<1>2. ASSUME NEW p \in Operator PROVE Standing(p)'
  BY <1>0 DEF HandEdit, IndInv, Standing, Exclusive, TargetIntact, ServesTarget,
     BootstrapNamesNothing, DoomedUnnamed, Busy, Expected, At
<1> QED
  BY <1>1, <1>2 DEF IndInv

-----------------------------------------------------------------------------
(* The theorems                                                            *)

LEMMA InitInv == Init => IndInv
<1> SUFFICES ASSUME Init PROVE IndInv
  OBVIOUS
<1>1. PICK r \in Release \cup {NoRelease} :
        /\ running = [release |-> r, own |-> r # NoRelease]
        /\ disk = running
        /\ marker = IF r = NoRelease THEN NoFile
                    ELSE [active |-> r, previous |-> NoRelease]
        /\ store = [s \in Release |-> IF s = r THEN "complete" ELSE "absent"]
        /\ next = NoFile /\ kept = NoFile /\ holder = NoOperator
        /\ job = [p \in Operator |-> NoJob]
  BY DEF Init
<1>2. running \in ConfigPair
  BY <1>1 DEF ConfigPair
<1>3. marker \in Marker \cup {NoFile}
  BY <1>1 DEF Marker
<1>4. TypeOK
  BY <1>1, <1>2, <1>3, JobTypes DEF TypeOK
<1>5. NamedIntact /\ KeptNamesNothing
  BY <1>1 DEF NamedIntact, KeptNamesNothing, Marked, Previous
<1>6. \A p \in Operator : Standing(p)
  <2> SUFFICES ASSUME NEW p \in Operator PROVE Standing(p)
    OBVIOUS
  <2>1. job[p].step = "idle"
    BY <1>1, JobTypes
  <2> QED
    BY <2>1 DEF Standing, Exclusive, TargetIntact, ServesTarget, BootstrapNamesNothing,
       DoomedUnnamed, Busy, Expected, At
<1> QED
  BY <1>4, <1>5, <1>6 DEF IndInv

LEMMA CommandKeeps == ASSUME IndInv, NEW p \in Operator, Command(p) PROVE IndInv'
  BY BeginCommitKeeps, BeginRollbackKeeps, BeginRecordKeeps, BeginCompleteKeeps,
     BeginAbandonKeeps, BeginPruneKeeps DEF Command

LEMMA AdvanceKeeps == ASSUME IndInv, NEW p \in Operator, Advance(p) PROVE IndInv'
<1>1. CASE NotExpected(p)
  BY <1>1, GiveUpKeeps DEF NotExpected, At
<1>2. ASSUME NEW r \in Release, Tear(p, r) \/ Removed(p, r) PROVE IndInv'
  BY <1>2, TearKeeps, RemovedKeeps
<1> QED
  BY <1>1, <1>2, JudgePassedKeeps, JudgeRefusedKeeps, StageKeeps, WriteNextKeeps, CheckedKeeps,
     SwapKeeps, ReloadedKeeps, ConfirmedKeeps, WriteMarkerKeeps, WriteRevertKeeps,
     NothingToRevertKeeps, RecheckedKeeps, ReswapKeeps, RereloadKeeps, EndPruneKeeps DEF Advance

LEMMA FaultKeeps == ASSUME IndInv, Fault PROVE IndInv'
<1>1. ASSUME NEW p \in Operator, ReloadRefused(p) PROVE IndInv'
  BY <1>1, GiveUpKeeps DEF ReloadRefused, At
<1> QED
  BY <1>1, RestartKeeps, HandEditKeeps, CrashKeeps, RereloadRefusedKeeps, InvalidKeeps DEF Fault

LEMMA StutterKeeps == ASSUME IndInv, UNCHANGED vars PROVE IndInv'
  BY DEF vars, IndInv, TypeOK, NamedIntact, KeptNamesNothing, Standing, Exclusive, TargetIntact,
     ServesTarget, BootstrapNamesNothing, DoomedUnnamed, Busy, Expected, At, Retained

\* IndInv is inductive: every command, killed anywhere, keeps what the others rely on.
THEOREM Invariance == Spec => []IndInv
<1>1. IndInv /\ [Next]_vars => IndInv'
  BY CommandKeeps, AdvanceKeeps, PlaceKeeps, FaultKeeps, StutterKeeps DEF Next, Work
<1> QED
  BY InitInv, <1>1, PTL DEF Spec

\* The variables keep their types: the active fragment and the running configuration
\* are always a configuration, and the marker always names releases.
THEOREM TypeCorrect == Spec => []TypeOK
  BY Invariance, PTL DEF IndInv

\* No interleaving of commands, kills, restarts and hand edits prunes an envelope that
\* R, D or the marker names, the rollback target included.
THEOREM NothingNamedIsPruned == Spec => []NamedIntact
  BY Invariance, PTL DEF IndInv

-----------------------------------------------------------------------------
(* The control plane implements one atomic live release                    *)

Served == running.release
Whole == {r \in Release : store[r] = "complete"}

LEMMA LiveInit == Init => Live!Init
<1> SUFFICES ASSUME Init PROVE Live!Init
  OBVIOUS
<1>1. PICK r \in Release \cup {NoRelease} :
        /\ running = [release |-> r, own |-> r # NoRelease]
        /\ marker = IF r = NoRelease THEN NoFile
                    ELSE [active |-> r, previous |-> NoRelease]
        /\ store = [s \in Release |-> IF s = r THEN "complete" ELSE "absent"]
  BY DEF Init
<1> QED
  BY <1>1 DEF Live!Init, Live!Named, Marked, Previous

\* Loading what is on disk is the abstract switch, whoever asks for it.
LEMMA LoadSwitches ==
    ASSUME IndInv, running' = disk, UNCHANGED <<marker, store>>
    PROVE  Live!Next
<1>1. disk.release \in Whole \cup {NoRelease}
  BY DEF IndInv, TypeOK, NamedIntact, Whole, ConfigPair
<1>2. Live!Switch(disk.release)
  BY <1>1 DEF Live!Switch, Whole, Marked, Previous
<1> QED
  BY <1>1, <1>2 DEF Live!Next, Whole

LEMMA MarkRecords ==
    ASSUME IndInv, NEW p \in Operator, WriteMarker(p) PROVE Live!Record
<1>1. /\ job[p].target = running.release /\ job[p].target \in Release
      /\ job[p].seen.marker = marker
  BY DEF WriteMarker, At, IndInv, Standing, TargetIntact, ServesTarget, Exclusive, Busy
<1>2. marker' = [active |-> running.release, previous |-> Marked(marker)] /\ marker' # NoFile
  BY <1>1 DEF WriteMarker, Marked, IndInv, TypeOK, Marker
<1> QED
  BY <1>1, <1>2 DEF Live!Record, WriteMarker, Marked, Previous

LEMMA TearDiscards ==
    ASSUME IndInv, NEW p \in Operator, NEW r \in Release, Tear(p, r) PROVE Live!Discard(r)
<1>1. r \notin Retained
  BY DEF Tear, At, IndInv, Standing, DoomedUnnamed, Busy
<1>2. {s \in Release : store'[s] = "complete"} = Whole \ {r}
  BY DEF Tear, IndInv, TypeOK, Whole
<1> QED
  BY <1>1, <1>2 DEF Live!Discard, Live!Named, Tear, Retained, Whole

LEMMA PlaceFinalizes ==
    ASSUME IndInv, NEW r \in Release, Place(r) PROVE Live!Finalize(r)
<1>1. {s \in Release : store'[s] = "complete"} = Whole \cup {r}
  BY DEF Place, IndInv, TypeOK, Whole
<1> QED
  BY <1>1 DEF Live!Finalize, Place, Whole

LEMMA RemovedStutters ==
    ASSUME IndInv, NEW p \in Operator, NEW r \in Release, Removed(p, r)
    PROVE  UNCHANGED Live!liveVars
<1>1. {s \in Release : store'[s] = "complete"} = Whole
  BY DEF Removed, IndInv, TypeOK, Whole
<1> QED
  BY <1>1 DEF Live!liveVars, Removed, Whole

LEMMA StepRefines == IndInv /\ [Next]_vars => [Live!Next]_(Live!liveVars)
<1> SUFFICES ASSUME IndInv, [Next]_vars PROVE [Live!Next]_(Live!liveVars)
  OBVIOUS
<1>0. ASSUME UNCHANGED <<running, marker, store>> PROVE UNCHANGED Live!liveVars
  BY <1>0 DEF Live!liveVars, Marked, Previous
<1>1. ASSUME NEW p \in Operator, Command(p) PROVE UNCHANGED Live!liveVars
  BY <1>0, <1>1 DEF Command, BeginCommit, BeginRollback, BeginRecord, BeginComplete,
     BeginAbandon, BeginPrune
<1>2. ASSUME NEW p \in Operator, Advance(p) PROVE [Live!Next]_(Live!liveVars)
  <2>1. CASE Reloaded(p) \/ Rereload(p)
    BY <2>1, LoadSwitches DEF Reloaded, Rereload
  <2>2. CASE WriteMarker(p)
    BY <2>2, MarkRecords DEF Live!Next
  <2>3. ASSUME NEW r \in Release, Tear(p, r) PROVE Live!Next
    BY <2>3, TearDiscards DEF Live!Next
  <2>4. ASSUME NEW r \in Release, Removed(p, r) PROVE UNCHANGED Live!liveVars
    BY <2>4, RemovedStutters
  <2>5. CASE \/ JudgePassed(p) \/ JudgeRefused(p) \/ Stage(p) \/ WriteNext(p) \/ Checked(p)
             \/ Swap(p) \/ Confirmed(p) \/ NotExpected(p) \/ WriteRevert(p)
             \/ NothingToRevert(p) \/ Rechecked(p) \/ Reswap(p) \/ EndPrune(p)
    BY <1>0, <2>5 DEF JudgePassed, JudgeRefused, Stage, WriteNext, Checked, Swap, Confirmed,
       NotExpected, WriteRevert, NothingToRevert, Rechecked, Reswap, EndPrune
  <2> QED
    BY <1>2, <2>1, <2>2, <2>3, <2>4, <2>5 DEF Advance
<1>3. ASSUME NEW r \in Release, Place(r) PROVE Live!Next
  BY <1>3, PlaceFinalizes DEF Live!Next
<1>4. ASSUME Fault PROVE [Live!Next]_(Live!liveVars)
  <2>1. CASE Restart
    BY <2>1, LoadSwitches DEF Restart
  <2>2. ASSUME NEW c \in Editable, HandEdit(c) PROVE UNCHANGED Live!liveVars
    BY <1>0, <2>2 DEF HandEdit
  <2>3. ASSUME NEW p \in Operator,
               Crash(p) \/ ReloadRefused(p) \/ RereloadRefused(p) \/ Invalid(p)
        PROVE  UNCHANGED Live!liveVars
    BY <1>0, <2>3 DEF Crash, ReloadRefused, RereloadRefused, Invalid
  <2> QED
    BY <1>4, <2>1, <2>2, <2>3 DEF Fault
<1>5. CASE UNCHANGED vars
  BY <1>0, <1>5 DEF vars
<1> QED
  BY <1>1, <1>2, <1>3, <1>4, <1>5 DEF Next, Work

\* Whatever its commands do and wherever they are killed, the control plane is one live
\* release that is switched in one step, to complete envelopes only, and recorded with
\* the release it replaced.
THEOREM ImplementsLiveRelease == Spec => AtomicSwitch
<1>1. Live!Init /\ [][Live!Next]_(Live!liveVars) => Live!Spec
  BY DEF Live!Spec
<1> QED
  BY LiveInit, Invariance, StepRefines, PTL DEF Spec, Live!Spec, AtomicSwitch

-----------------------------------------------------------------------------
(* What is recorded was judged                                             *)

\* The release answers every URL of the one M names, or there is none.
Answers(r) == Marked(marker) \in {NoRelease, r} \/ <<Marked(marker), r>> \in Continues

\* A command that makes a release live has judged it, or takes back the one before, or
\* records what is live already.
Judged(p) ==
    /\ Busy(p, {"judge"}) =>
         /\ job[p].seen.running.release = Marked(marker)
         /\ job[p].kind = "commit" \/ (job[p].kind = "rollback" /\ job[p].target = Previous(marker))
    /\ Busy(p, {"stage", "write", "check", "swap", "reload", "confirm", "mark"}) =>
         \/ job[p].kind \in {"commit", "complete"} /\ Answers(job[p].target)
         \/ job[p].kind = "rollback" /\ job[p].target = Previous(marker)
         \/ job[p].kind = "record" /\ Busy(p, {"mark"})

AllJudged == \A p \in Operator : Judged(p)

\* A step of p has only p's judgement to show.
LEMMA OneJudged ==
    ASSUME NEW p \in Operator,
           \A q \in Operator : q # p => At(q, "idle"),
           \A q \in Operator : q # p => job'[q] = job[q],
           Judged(p)'
    PROVE  AllJudged'
<1> SUFFICES ASSUME NEW q \in Operator, q # p PROVE Judged(q)'
  BY DEF AllJudged
<1>1. job'[q].step = "idle"
  BY DEF At
<1> QED
  BY <1>1 DEF Judged, Busy

\* The others are idle while p runs, and while it takes the lock.
LEMMA OthersIdle ==
    ASSUME IndInv, NEW p \in Operator, ~At(p, "idle") \/ holder = NoOperator
    PROVE  \A q \in Operator : q # p => At(q, "idle")
  BY Alone DEF IndInv, Standing, Exclusive

LEMMA GotoJudged ==
    ASSUME IndInv, AllJudged, NEW p \in Operator, ~At(p, "idle"), NEW s \in Step, Goto(p, s),
           UNCHANGED marker,
           \/ s \in {"revert", "recheck", "reswap", "rereload"}
           \/ /\ Busy(p, {"stage", "write", "check", "swap", "reload", "confirm"})
              /\ s \in {"write", "check", "swap", "reload", "confirm", "mark"}
    PROVE  AllJudged'
<1>1. /\ job'[p].step = s /\ job'[p].kind = job[p].kind /\ job'[p].target = job[p].target
      /\ \A q \in Operator : q # p => job'[q] = job[q]
  BY GotoEffect DEF IndInv
<1>2. Judged(p)
  BY DEF AllJudged
<1>3. Judged(p)'
  BY <1>1, <1>2 DEF Judged, Busy, Answers, Marked, Previous
<1> QED
  BY <1>1, <1>3, OthersIdle, OneJudged

LEMMA ExitJudged ==
    ASSUME IndInv, NEW p \in Operator, ~At(p, "idle"), Exit(p)
    PROVE  AllJudged'
<1>1. job'[p].step = "idle" /\ \A q \in Operator : q # p => job'[q] = job[q]
  BY ExitEffect DEF IndInv
<1>2. Judged(p)'
  BY <1>1 DEF Judged, Busy
<1> QED
  BY <1>1, <1>2, OthersIdle, OneJudged

\* What a command begins with, field by field.
LEMMA Begun ==
    ASSUME IndInv, NEW p \in Operator, Command(p)
    PROVE  /\ holder = NoOperator /\ UNCHANGED <<running, disk, next, kept, marker, store>>
           /\ \A q \in Operator : q # p => job'[q] = job[q]
           /\ \/ /\ job'[p].step = "judge" /\ job'[p].kind = "commit"
                 /\ job'[p].seen.running = running
                 /\ Situation(ReadTriple) = "reconciled"
              \/ /\ job'[p].step = "judge" /\ job'[p].kind = "rollback"
                 /\ job'[p].seen.running = running /\ job'[p].target = Previous(marker)
                 /\ Situation(ReadTriple) = "reconciled"
              \/ job'[p].step = "mark" /\ job'[p].kind = "record"
              \/ /\ job'[p].step = "reload" /\ job'[p].kind = "complete"
                 /\ job'[p].target = disk.release /\ Completable
              \/ job'[p].step = "revert"
              \/ job'[p].step = "prune"
<1>0. TypeOK
  BY DEF IndInv
<1>1. ASSUME NEW r \in Release, BeginCommit(p, r)
      PROVE  /\ job'[p].step = "judge" /\ job'[p].kind = "commit" /\ job'[p].seen = ReadTriple
             /\ holder = NoOperator /\ \A q \in Operator : q # p => job'[q] = job[q]
  <2>1. Begin(p, "judge", "commit", r, {}) /\ "judge" \in Step /\ r \in Release \cup {NoRelease}
        /\ {} \in SUBSET Release
    BY <1>1 DEF BeginCommit, Step
  <2> QED
    BY <1>0, <2>1, BeginEffect
<1>2. ASSUME BeginRollback(p)
      PROVE  /\ job'[p].step = "judge" /\ job'[p].kind = "rollback" /\ job'[p].seen = ReadTriple
             /\ job'[p].target = Previous(marker)
             /\ holder = NoOperator /\ \A q \in Operator : q # p => job'[q] = job[q]
  <2>1. Begin(p, "judge", "rollback", marker.previous, {}) /\ "judge" \in Step
        /\ marker.previous \in Release \cup {NoRelease} /\ {} \in SUBSET Release
        /\ marker.previous = Previous(marker)
    BY <1>0, <1>2 DEF BeginRollback, Step, TypeOK, Marker, Previous
  <2> QED
    BY <1>0, <2>1, BeginEffect
<1>3. ASSUME BeginRecord(p)
      PROVE  /\ job'[p].step = "mark" /\ job'[p].kind = "record"
             /\ holder = NoOperator /\ \A q \in Operator : q # p => job'[q] = job[q]
  <2>1. Begin(p, "mark", "record", running.release, {}) /\ "mark" \in Step
        /\ running.release \in Release \cup {NoRelease} /\ {} \in SUBSET Release
    BY <1>0, <1>3 DEF BeginRecord, Step, TypeOK, ConfigPair
  <2> QED
    BY <1>0, <2>1, BeginEffect
<1>4. ASSUME BeginComplete(p)
      PROVE  /\ job'[p].step = "reload" /\ job'[p].kind = "complete" /\ job'[p].target = disk.release
             /\ holder = NoOperator /\ \A q \in Operator : q # p => job'[q] = job[q]
  <2>1. Begin(p, "reload", "complete", disk.release, {}) /\ "reload" \in Step
        /\ disk.release \in Release \cup {NoRelease} /\ {} \in SUBSET Release
    BY <1>0, <1>4 DEF BeginComplete, Step, TypeOK, ConfigPair
  <2> QED
    BY <1>0, <2>1, BeginEffect
<1>5. ASSUME BeginAbandon(p)
      PROVE  /\ job'[p].step = "revert"
             /\ holder = NoOperator /\ \A q \in Operator : q # p => job'[q] = job[q]
  <2>1. Begin(p, "revert", "abandon", NoRelease, {}) /\ "revert" \in Step
        /\ NoRelease \in Release \cup {NoRelease} /\ {} \in SUBSET Release
    BY <1>5 DEF BeginAbandon, Step
  <2> QED
    BY <1>0, <2>1, BeginEffect
<1>6. ASSUME BeginPrune(p)
      PROVE  /\ job'[p].step = "prune"
             /\ holder = NoOperator /\ \A q \in Operator : q # p => job'[q] = job[q]
  <2> DEFINE doomed == {r \in Release : store[r] # "absent"} \ Retained
  <2>1. Begin(p, "prune", "prune", NoRelease, doomed) /\ "prune" \in Step
        /\ NoRelease \in Release \cup {NoRelease} /\ doomed \in SUBSET Release
    BY <1>6 DEF BeginPrune, Step
  <2> HIDE DEF doomed
  <2> QED
    BY <1>0, <2>1, BeginEffect
<1>7. ReadTriple.running = running
  BY DEF ReadTriple
<1> QED
  BY <1>1, <1>2, <1>3, <1>4, <1>5, <1>6, <1>7
     DEF Command, BeginCommit, BeginRollback, BeginRecord, BeginComplete, BeginAbandon, BeginPrune

LEMMA CommandJudges == ASSUME IndInv, NEW p \in Operator, Command(p) PROVE AllJudged'
<1>1. Situation(ReadTriple) = "reconciled" => running.release = Marked(marker)
  BY DEF Situation, ReadTriple
<1>2. Completable => Answers(disk.release)
  BY DEF Completable, Continuous, Answers
<1>3. Judged(p)'
  BY <1>1, <1>2, Begun DEF Judged, Busy, Answers, Marked, Previous
<1> QED
  BY <1>3, Begun, OthersIdle, OneJudged

\* The judgement itself: check_continuity, of the triple that was read.
LEMMA JudgePassedJudges ==
    ASSUME IndInv, AllJudged, NEW p \in Operator, JudgePassed(p) PROVE AllJudged'
<1>1. "stage" \in Step /\ Goto(p, "stage") /\ ~At(p, "idle") /\ At(p, "judge") /\ UNCHANGED marker
      /\ Acceptable(p)
  BY DEF JudgePassed, At, Step
<1>2. /\ job'[p].step = "stage" /\ job'[p].kind = job[p].kind /\ job'[p].target = job[p].target
      /\ \A q \in Operator : q # p => job'[q] = job[q]
  BY <1>1, GotoEffect DEF IndInv
<1>3. Judged(p) /\ Busy(p, {"judge"})
  BY <1>1 DEF AllJudged, Busy, At
<1>4. job[p].kind = "commit" => Answers(job[p].target)
  BY <1>1, <1>3 DEF Judged, Acceptable, Continuous, Answers
<1>5. Judged(p)'
  BY <1>1, <1>2, <1>3, <1>4 DEF Judged, Busy, Answers, Marked, Previous
<1> QED
  BY <1>1, <1>2, <1>5, OthersIdle, OneJudged

LEMMA GiveUpJudged ==
    ASSUME IndInv, AllJudged, NEW p \in Operator, ~At(p, "idle"), GiveUp(p), UNCHANGED marker
    PROVE  AllJudged'
<1>1. "revert" \in Step
  BY DEF Step
<1> QED
  BY <1>1, GotoJudged, ExitJudged DEF GiveUp

LEMMA AdvanceJudges == ASSUME IndInv, AllJudged, NEW p \in Operator, Advance(p) PROVE AllJudged'
<1>1. {"write", "check", "swap", "reload", "confirm", "mark", "recheck", "reswap", "rereload"} \subseteq Step
  BY DEF Step
<1>2. CASE Stage(p) \/ WriteNext(p) \/ Checked(p) \/ Swap(p) \/ Reloaded(p) \/ Confirmed(p)
  BY <1>1, <1>2, GotoJudged DEF Stage, WriteNext, Checked, Swap, Reloaded, Confirmed, At, Busy
<1>3. CASE WriteRevert(p) \/ Rechecked(p) \/ Reswap(p)
  BY <1>1, <1>3, GotoJudged DEF WriteRevert, Rechecked, Reswap, At
<1>4. CASE JudgeRefused(p) \/ WriteMarker(p) \/ NothingToRevert(p) \/ Rereload(p) \/ EndPrune(p)
  BY <1>4, ExitJudged DEF JudgeRefused, WriteMarker, NothingToRevert, Rereload, EndPrune, At
<1>5. CASE NotExpected(p)
  BY <1>5, GiveUpJudged DEF NotExpected, At
<1>6. ASSUME NEW r \in Release, Tear(p, r)
      PROVE  AllJudged'
  BY <1>6 DEF Tear, AllJudged, Judged, Busy, Answers, Marked, Previous
<1>7. ASSUME NEW r \in Release, Removed(p, r)
      PROVE  AllJudged'
  <2>1. job'[p].step = "prune" /\ (\A q \in Operator : q # p => job'[q] = job[q]) /\ ~At(p, "idle")
    BY <1>7 DEF Removed, At, IndInv, TypeOK, Job
  <2>2. Judged(p)'
    BY <2>1 DEF Judged, Busy
  <2> QED
    BY <2>1, <2>2, OthersIdle, OneJudged
<1> QED
  BY <1>2, <1>3, <1>4, <1>5, <1>6, <1>7, JudgePassedJudges DEF Advance

\* Whatever is done by hand, a command makes live what it has judged.
LEMMA StepJudges == IndInv /\ AllJudged /\ [Next]_vars => AllJudged'
<1> SUFFICES ASSUME IndInv, AllJudged, [Next]_vars PROVE AllJudged'
  OBVIOUS
<1>1. ASSUME UNCHANGED <<job, marker>> PROVE AllJudged'
  BY <1>1 DEF AllJudged, Judged, Busy, Answers, Marked, Previous
<1>2. ASSUME NEW r \in Release, Place(r) PROVE AllJudged'
  BY <1>1, <1>2 DEF Place
<1>3. ASSUME Fault PROVE AllJudged'
  <2>1. CASE Restart \/ \E pair \in Editable : HandEdit(pair)
    BY <1>1, <2>1 DEF Restart, HandEdit
  <2>2. ASSUME NEW p \in Operator, Crash(p) \/ RereloadRefused(p) \/ Invalid(p) PROVE AllJudged'
    BY <2>2, ExitJudged DEF Crash, RereloadRefused, Invalid, At
  <2>3. ASSUME NEW p \in Operator, ReloadRefused(p) PROVE AllJudged'
    BY <2>3, GiveUpJudged DEF ReloadRefused, At
  <2> QED
    BY <1>3, <2>1, <2>2, <2>3 DEF Fault
<1> QED
  BY <1>1, <1>2, <1>3, CommandJudges, AdvanceJudges DEF Next, Work, vars

LEMMA JudgementInvariance == Spec => [](IndInv /\ AllJudged)
<1>1. Init => AllJudged
  <2> SUFFICES ASSUME Init, NEW p \in Operator PROVE Judged(p)
    BY DEF AllJudged
  <2>1. job[p].step = "idle"
    BY JobTypes DEF Init
  <2> QED
    BY <2>1 DEF Judged, Busy
<1> QED
  BY <1>1, StepJudges, Invariance, PTL DEF Spec

\* Only one command stands before the write of M, and it alone writes it.
LEMMA MarkedByWriter ==
    ASSUME IndInv, [Next]_vars, marker' # marker
    PROVE  \E p \in Operator : WriteMarker(p) /\ \A q \in Operator : q # p => At(q, "idle")
<1>1. ASSUME NEW p \in Operator, WriteMarker(p)
      PROVE  \A q \in Operator : q # p => At(q, "idle")
  BY <1>1, OthersIdle DEF WriteMarker, At
<1>2. \E p \in Operator : WriteMarker(p)
  <2>1. ASSUME NEW p \in Operator, Command(p) PROVE FALSE
    BY <2>1 DEF Command, BeginCommit, BeginRollback, BeginRecord, BeginComplete, BeginAbandon, BeginPrune
  <2>2. ASSUME NEW p \in Operator, Advance(p), ~WriteMarker(p) PROVE FALSE
    BY <2>2 DEF Advance, JudgePassed, JudgeRefused, Stage, WriteNext, Checked, Swap, Reloaded, Confirmed,
       NotExpected, WriteRevert, NothingToRevert, Rechecked, Reswap, Rereload, EndPrune, Tear, Removed
  <2>3. ASSUME Fault PROVE FALSE
    BY <2>3 DEF Fault, Restart, HandEdit, Crash, ReloadRefused, RereloadRefused, Invalid
  <2> QED
    BY <2>1, <2>2, <2>3 DEF Next, Work, Place, vars
<1> QED
  BY <1>1, <1>2

\* What M then names.
LEMMA MarkerWritten ==
    ASSUME IndInv, NEW p \in Operator, WriteMarker(p)
    PROVE  Marked(marker') = job[p].target
<1>1. job[p].target \in Release /\ Marked(job[p].seen.marker) \in Release \cup {NoRelease}
  BY DEF IndInv, Standing, TargetIntact, Exclusive, TypeOK, Busy, At, Marked, Marker, WriteMarker
<1>2. marker' \in Marker /\ marker'.active = job[p].target
  BY <1>1 DEF WriteMarker, Marker
<1>3. marker' # NoFile
  BY <1>2, NamesAssumption DEF Marker
<1> QED
  BY <1>2, <1>3 DEF Marked

\* reconcile --complete, even of a fragment written by hand, moves the marker only to a
\* release that answers every URL of the one the marker named.
THEOREM CompletionsAreJudged == Spec => CompleteIsJudged
<1>1. ASSUME IndInv, AllJudged, [Next]_vars, NEW p \in Operator,
             At(p, "mark"), job[p].kind = "complete", marker' # marker
      PROVE  \/ Marked(marker) \in {NoRelease, Marked(marker')}
             \/ <<Marked(marker), Marked(marker')>> \in Continues
  <2>1. WriteMarker(p)
    BY <1>1, MarkedByWriter DEF At
  <2>2. Answers(job[p].target)
    BY <1>1 DEF AllJudged, Judged, Busy, At
  <2>3. Marked(marker') = job[p].target
    BY <1>1, <2>1, MarkerWritten
  <2> QED
    BY <2>2, <2>3 DEF Answers
<1>2. IndInv /\ AllJudged /\ [Next]_vars =>
        [ \A p \in Operator :
            At(p, "mark") /\ job[p].kind = "complete" /\ marker' # marker =>
              LET old == Marked(marker) IN
              old \in {NoRelease, Marked(marker')} \/ <<old, Marked(marker')>> \in Continues ]_vars
  BY <1>1
<1> QED
  BY <1>2, JudgementInvariance, PTL DEF Spec, CompleteIsJudged

-----------------------------------------------------------------------------
(* With nobody editing the fragment: where R and D can stand               *)

\* What R and D may name: a release judged against M's, or the one M's replaced.
Lawful(r) == Answers(r) \/ r = Previous(marker)

\* The routes are an envelope's own, or those of a host that serves no release.
PlainPair == {Own(r) : r \in Release} \cup {Edited(NoRelease)}

World ==
    /\ running \in PlainPair /\ disk \in PlainPair /\ kept \in PlainPair \cup {NoFile}
    /\ Lawful(running.release) /\ Lawful(disk.release)
    /\ \/ running.release = Marked(marker) \/ disk.release = Marked(marker)
       \/ running.release = disk.release
    /\ marker # NoFile => running.release # NoRelease /\ disk.release # NoRelease
    /\ marker = NoFile /\ (running.release # NoRelease \/ disk.release # NoRelease) => kept # NoFile

\* What a command finds between two of its steps.
Rests(p) ==
    /\ Busy(p, {"judge", "stage", "write", "check", "swap"}) =>
         running.release = Marked(marker) /\ disk.release = Marked(marker)
    /\ Busy(p, {"write", "check", "swap"}) /\ marker = NoFile => kept # NoFile
    /\ Busy(p, {"recheck", "reswap"}) => next \in PlainPair /\ next.release = Marked(marker)

Ordered == World /\ \A p \in Operator : Rests(p)

LEMMA PlainPairs ==
    /\ \A c \in PlainPair : c \in ConfigPair /\ c # NoFile
    /\ \A c, d \in PlainPair : c.release = d.release => c = d
    /\ \A r \in Release : Own(r) \in PlainPair /\ Own(r).release = r /\ Own(r) # NoFile
    /\ Edited(NoRelease) \in PlainPair /\ Edited(NoRelease).release = NoRelease
<1>1. \A r \in Release : Own(r).release = r /\ Own(r) \in ConfigPair /\ r # NoRelease
  BY DEF Own, ConfigPair
<1>2. Edited(NoRelease).release = NoRelease /\ Edited(NoRelease) \in ConfigPair
  BY DEF Edited, ConfigPair
<1>3. NoFile \notin ConfigPair
  BY DEF ConfigPair
<1> HIDE DEF Own, Edited
<1> QED
  BY <1>1, <1>2, <1>3 DEF PlainPair

\* A step of p that moves M, R, D or .next finds the others idle.
LEMMA OneRests ==
    ASSUME NEW p \in Operator,
           \A q \in Operator : q # p => At(q, "idle"),
           \A q \in Operator : q # p => job'[q] = job[q],
           World', Rests(p)'
    PROVE  Ordered'
<1> SUFFICES ASSUME NEW q \in Operator, q # p PROVE Rests(q)'
  BY DEF Ordered
<1>1. job'[q].step = "idle"
  BY DEF At
<1> QED
  BY <1>1 DEF Rests, Busy

\* The world as a command leaves it when it moves none of R, D, M and the copy kept aside.
LEMMA WorldRests ==
    ASSUME World, UNCHANGED <<running, disk, kept, marker>> PROVE World'
  BY DEF World, Lawful, Answers, Marked, Previous

LEMMA ExitRests ==
    ASSUME IndInv, NEW p \in Operator, ~At(p, "idle"), Exit(p), World'
    PROVE  Ordered'
<1>1. job'[p].step = "idle" /\ \A q \in Operator : q # p => job'[q] = job[q]
  BY ExitEffect DEF IndInv
<1>2. Rests(p)'
  BY <1>1 DEF Rests, Busy
<1> QED
  BY <1>1, <1>2, OthersIdle, OneRests

LEMMA GotoRests ==
    ASSUME IndInv, NEW p \in Operator, ~At(p, "idle"), NEW s \in Step, Goto(p, s), World',
           s \in {"judge", "stage", "write", "check", "swap"} =>
             (running.release = Marked(marker) /\ disk.release = Marked(marker))',
           s \in {"write", "check", "swap"} => (marker = NoFile => kept # NoFile)',
           s \in {"recheck", "reswap"} => (next \in PlainPair /\ next.release = Marked(marker))'
    PROVE  Ordered'
<1>1. job'[p].step = s /\ \A q \in Operator : q # p => job'[q] = job[q]
  BY GotoEffect DEF IndInv
<1>2. Rests(p)'
  BY <1>1 DEF Rests, Busy
<1> QED
  BY <1>1, <1>2, OthersIdle, OneRests

LEMMA CommandRests == ASSUME IndInv, Ordered, NEW p \in Operator, Command(p) PROVE Ordered'
<1>1. World'
  BY Begun, WorldRests DEF Ordered
<1>2. Situation(ReadTriple) = "reconciled" =>
        running.release = Marked(marker) /\ disk.release = Marked(marker)
  BY DEF Situation, ReadTriple
<1>3. Rests(p)'
  BY <1>2, Begun DEF Rests, Busy, Marked
<1> QED
  BY <1>1, <1>3, Begun, OthersIdle, OneRests

LEMMA JudgePassedRests ==
    ASSUME IndInv, Ordered, NEW p \in Operator, JudgePassed(p) PROVE Ordered'
<1>1. World'
  BY WorldRests DEF Ordered, JudgePassed
<1>2. "stage" \in Step /\ ~At(p, "idle") /\ Goto(p, "stage") /\ UNCHANGED <<running, disk, marker>>
  BY DEF Step, At, JudgePassed
<1>3. running.release = Marked(marker) /\ disk.release = Marked(marker)
  BY DEF Ordered, Rests, Busy, At, JudgePassed
<1> QED
  BY <1>1, <1>2, <1>3, GotoRests DEF Marked

LEMMA StageRests == ASSUME IndInv, Ordered, NEW p \in Operator, Stage(p) PROVE Ordered'
<1>1. "write" \in Step /\ ~At(p, "idle") /\ Goto(p, "write") /\ UNCHANGED <<running, disk, marker>>
  BY DEF Step, At, Stage
<1>2. running.release = Marked(marker) /\ disk.release = Marked(marker)
  BY DEF Ordered, Rests, Busy, At, Stage
<1>3. job[p].seen.marker = marker
  BY <1>1 DEF IndInv, Standing, Exclusive
<1>4. marker = NoFile => kept' # NoFile
  BY <1>3, PlainPairs DEF Ordered, World, Stage
<1>5. kept' \in PlainPair \cup {NoFile}
  BY DEF Ordered, World, Stage
<1>6. World'
  BY <1>1, <1>4, <1>5 DEF Ordered, World, Lawful, Answers, Marked, Previous
<1> QED
  BY <1>1, <1>2, <1>4, <1>6, GotoRests DEF Marked

LEMMA WriteNextRests == ASSUME IndInv, Ordered, NEW p \in Operator, WriteNext(p) PROVE Ordered'
<1>1. World'
  BY WorldRests DEF Ordered, WriteNext
<1>2. /\ "check" \in Step /\ ~At(p, "idle") /\ Goto(p, "check")
      /\ UNCHANGED <<running, disk, kept, marker>>
  BY DEF Step, At, WriteNext
<1>3. /\ running.release = Marked(marker) /\ disk.release = Marked(marker)
      /\ marker = NoFile => kept # NoFile
  BY DEF Ordered, Rests, Busy, At, WriteNext
<1> QED
  BY <1>1, <1>2, <1>3, GotoRests DEF Marked

LEMMA CheckedRests == ASSUME IndInv, Ordered, NEW p \in Operator, Checked(p) PROVE Ordered'
<1>1. World'
  BY WorldRests DEF Ordered, Checked
<1>2. /\ "swap" \in Step /\ ~At(p, "idle") /\ Goto(p, "swap")
      /\ UNCHANGED <<running, disk, kept, marker>>
  BY DEF Step, At, Checked
<1>3. /\ running.release = Marked(marker) /\ disk.release = Marked(marker)
      /\ marker = NoFile => kept # NoFile
  BY DEF Ordered, Rests, Busy, At, Checked
<1> QED
  BY <1>1, <1>2, <1>3, GotoRests DEF Marked

\* The swap: D moves to the release that was judged, from one that R and M name.
LEMMA SwapRests ==
    ASSUME IndInv, AllJudged, Ordered, NEW p \in Operator, Swap(p) PROVE Ordered'
<1>1. "reload" \in Step /\ ~At(p, "idle") /\ Goto(p, "reload") /\ UNCHANGED <<running, kept, marker>>
  BY DEF Step, At, Swap
<1>2. running.release = Marked(marker) /\ (marker = NoFile => kept # NoFile)
  BY DEF Ordered, Rests, Busy, At, Swap
<1>3. disk' = Own(job[p].target) /\ job[p].target \in Release
  BY DEF IndInv, Standing, TargetIntact, Busy, At, Swap
<1>4. disk' \in PlainPair /\ disk'.release = job[p].target /\ job[p].target # NoRelease
  BY <1>3, PlainPairs
<1>5. Lawful(job[p].target)
  BY DEF AllJudged, Judged, Busy, At, Swap, Lawful
<1>6. World'
  BY <1>1, <1>2, <1>4, <1>5 DEF Ordered, World, Lawful, Answers, Marked, Previous
<1> QED
  BY <1>1, <1>6, GotoRests

\* Loading D makes R what D is.
LEMMA LoadRests ==
    ASSUME World, running' = disk, UNCHANGED <<disk, kept, marker>> PROVE World'
  BY DEF World, Lawful, Answers, Marked, Previous

LEMMA ReloadedRests == ASSUME IndInv, Ordered, NEW p \in Operator, Reloaded(p) PROVE Ordered'
<1>1. World'
  BY LoadRests DEF Ordered, Reloaded
<1>2. "confirm" \in Step /\ ~At(p, "idle") /\ Goto(p, "confirm")
  BY DEF Step, At, Reloaded
<1> QED
  BY <1>1, <1>2, GotoRests

LEMMA ConfirmedRests == ASSUME IndInv, Ordered, NEW p \in Operator, Confirmed(p) PROVE Ordered'
<1>1. World'
  BY WorldRests DEF Ordered, Confirmed
<1>2. "mark" \in Step /\ ~At(p, "idle") /\ Goto(p, "mark")
  BY DEF Step, At, Confirmed
<1> QED
  BY <1>1, <1>2, GotoRests

LEMMA GiveUpRests ==
    ASSUME IndInv, Ordered, NEW p \in Operator, ~At(p, "idle"), GiveUp(p),
           UNCHANGED <<running, disk, kept, marker>>
    PROVE  Ordered'
<1>1. World' /\ "revert" \in Step
  BY WorldRests DEF Ordered, Step
<1> QED
  BY <1>1, GotoRests, ExitRests DEF GiveUp

\* The marker: R and D both serve what it then names.
LEMMA WriteMarkerRests == ASSUME IndInv, Ordered, NEW p \in Operator, WriteMarker(p) PROVE Ordered'
<1>1. ~At(p, "idle") /\ Exit(p) /\ UNCHANGED <<running, disk, kept>>
  BY DEF At, WriteMarker
<1>2. running = disk /\ running.release = job[p].target /\ job[p].target \in Release
  BY DEF IndInv, Standing, ServesTarget, TargetIntact, Busy, At, WriteMarker
<1>3. Marked(marker') = running.release /\ running.release # NoRelease
  BY <1>2, MarkerWritten
<1>4. marker' # NoFile
  BY <1>3 DEF Marked
<1>5. World'
  BY <1>1, <1>2, <1>3, <1>4 DEF Ordered, World, Lawful, Answers
<1> QED
  BY <1>1, <1>5, ExitRests

\* What a revert writes is M's own release, or nothing where there is no M.
LEMMA WriteRevertRests == ASSUME IndInv, Ordered, NEW p \in Operator, WriteRevert(p) PROVE Ordered'
<1> DEFINE s == IF job[p].kind = "abandon" THEN "recheck" ELSE "reswap"
<1>1. /\ ~At(p, "idle") /\ Goto(p, s) /\ s \in {"recheck", "reswap"} /\ s \in Step
      /\ UNCHANGED <<running, disk, kept, marker>>
  BY DEF At, WriteRevert, Step
<1> HIDE DEF s
<1>2. World'
  BY <1>1, WorldRests DEF Ordered
<1>3. next' = RevertSource(marker) /\ RevertSource(marker) # NoFile
  BY <1>1 DEF WriteRevert, IndInv, Standing, Exclusive
<1>4. CASE marker = NoFile
  <2>1. next' \in PlainPair /\ next'.release = NoRelease
    BY <1>3, <1>4 DEF RevertSource, Ordered, World, IndInv, KeptNamesNothing
  <2> QED
    BY <1>1, <1>2, <1>4, <2>1, GotoRests DEF Marked
<1>5. CASE marker # NoFile
  <2>1. next' = Own(marker.active) /\ marker.active \in Release
    BY <1>3, <1>5 DEF RevertSource, IndInv, TypeOK, Marker
  <2>2. next' \in PlainPair /\ next'.release = Marked(marker)
    BY <1>5, <2>1, PlainPairs DEF Marked
  <2> QED
    BY <1>1, <1>2, <2>2, GotoRests DEF Marked
<1> QED
  BY <1>4, <1>5

LEMMA RecheckedRests == ASSUME IndInv, Ordered, NEW p \in Operator, Rechecked(p) PROVE Ordered'
<1>1. World'
  BY WorldRests DEF Ordered, Rechecked
<1>2. "reswap" \in Step /\ ~At(p, "idle") /\ Goto(p, "reswap") /\ UNCHANGED <<next, marker>>
  BY DEF Step, At, Rechecked
<1>3. next \in PlainPair /\ next.release = Marked(marker)
  BY DEF Ordered, Rests, Busy, At, Rechecked
<1> QED
  BY <1>1, <1>2, <1>3, GotoRests DEF Marked

LEMMA ReswapRests == ASSUME IndInv, Ordered, NEW p \in Operator, Reswap(p) PROVE Ordered'
<1>1. "rereload" \in Step /\ ~At(p, "idle") /\ Goto(p, "rereload") /\ UNCHANGED <<running, kept, marker>>
  BY DEF Step, At, Reswap
<1>2. disk' \in PlainPair /\ disk'.release = Marked(marker)
  BY DEF Ordered, Rests, Busy, At, Reswap
<1>3. marker # NoFile => Marked(marker) # NoRelease
  BY DEF IndInv, TypeOK, Marker, Marked
<1>4. marker = NoFile => Marked(marker) = NoRelease
  BY DEF Marked
<1>5. World'
  BY <1>1, <1>2, <1>3, <1>4 DEF Ordered, World, Lawful, Answers, Marked, Previous
<1> QED
  BY <1>1, <1>5, GotoRests

LEMMA AdvanceRests ==
    ASSUME IndInv, AllJudged, Ordered, NEW p \in Operator, Advance(p) PROVE Ordered'
<1>1. CASE JudgeRefused(p) \/ NothingToRevert(p) \/ EndPrune(p)
  BY <1>1, WorldRests, ExitRests DEF Ordered, JudgeRefused, NothingToRevert, EndPrune, At
<1>2. CASE Rereload(p)
  BY <1>2, LoadRests, ExitRests DEF Ordered, Rereload, At
<1>3. CASE NotExpected(p)
  BY <1>3, GiveUpRests DEF NotExpected, At
<1>4. ASSUME NEW r \in Release, Tear(p, r)
      PROVE  Ordered'
  BY <1>4, WorldRests DEF Tear, Ordered, Rests, Busy
<1>5. ASSUME NEW r \in Release, Removed(p, r)
      PROVE  Ordered'
  <2>1. job'[p].step = "prune" /\ (\A q \in Operator : q # p => job'[q] = job[q]) /\ ~At(p, "idle")
    BY <1>5 DEF Removed, At, IndInv, TypeOK, Job
  <2>2. Rests(p)'
    BY <2>1 DEF Rests, Busy
  <2>3. World'
    BY <1>5, WorldRests DEF Ordered, Removed
  <2> QED
    BY <2>1, <2>2, <2>3, OthersIdle, OneRests
<1> QED
  BY <1>1, <1>2, <1>3, <1>4, <1>5, JudgePassedRests, StageRests, WriteNextRests, CheckedRests, SwapRests,
     ReloadedRests, ConfirmedRests, WriteMarkerRests, WriteRevertRests, RecheckedRests, ReswapRests
     DEF Advance

LEMMA FaultRests == ASSUME "hand" \notin Faults, IndInv, Ordered, Fault PROVE Ordered'
<1>1. ASSUME NEW p \in Operator, Crash(p) \/ RereloadRefused(p) \/ Invalid(p) PROVE Ordered'
  BY <1>1, WorldRests, ExitRests DEF Ordered, Crash, RereloadRefused, Invalid, At
<1>2. ASSUME NEW p \in Operator, ReloadRefused(p) PROVE Ordered'
  BY <1>2, GiveUpRests DEF ReloadRefused, At
<1>3. CASE Restart
  <2>1. World'
    BY <1>3, LoadRests DEF Ordered, Restart
  <2>2. ASSUME NEW p \in Operator PROVE Rests(p)'
    BY <1>3, <2>2 DEF Ordered, Rests, Busy, Marked, Restart
  <2> QED
    BY <2>1, <2>2 DEF Ordered
<1> QED
  BY <1>1, <1>2, <1>3 DEF Fault, HandEdit

LEMMA StepRests ==
    ASSUME "hand" \notin Faults
    PROVE  IndInv /\ AllJudged /\ Ordered /\ [Next]_vars => Ordered'
<1> SUFFICES ASSUME IndInv, AllJudged, Ordered, [Next]_vars PROVE Ordered'
  OBVIOUS
<1>1. CASE UNCHANGED vars
  BY <1>1, WorldRests DEF vars, Ordered, Rests, Busy
<1>2. ASSUME NEW r \in Release, Place(r) PROVE Ordered'
  BY <1>2, WorldRests DEF Place, Ordered, Rests, Busy
<1> QED
  BY <1>1, <1>2, CommandRests, AdvanceRests, FaultRests DEF Next, Work

LEMMA InitRests == Init => Ordered
<1> SUFFICES ASSUME Init PROVE Ordered
  OBVIOUS
<1>1. PICK r \in Release \cup {NoRelease} :
        /\ running = [release |-> r, own |-> r # NoRelease]
        /\ marker = IF r = NoRelease THEN NoFile ELSE [active |-> r, previous |-> NoRelease]
  BY DEF Init
<1>2. disk = running /\ kept = NoFile
  BY DEF Init
<1>3. running.release = r /\ running = IF r = NoRelease THEN Edited(NoRelease) ELSE Own(r)
  BY <1>1 DEF Own, Edited
<1>4. running \in PlainPair
  BY <1>3, PlainPairs
<1>5. Marked(marker) = r /\ (marker = NoFile <=> r = NoRelease)
  <2>1. CASE r = NoRelease
    BY <1>1, <2>1 DEF Marked
  <2>2. CASE r # NoRelease
    <3>1. marker \in Marker /\ marker.active = r
      BY <1>1, <2>2 DEF Marker
    <3> QED
      BY <2>2, <3>1 DEF Marked, Marker
  <2> QED
    BY <2>1, <2>2
<1>6. World
  BY <1>2, <1>3, <1>4, <1>5 DEF World, Lawful, Answers
<1>7. ASSUME NEW p \in Operator PROVE Rests(p)
  BY JobTypes DEF Init, Rests, Busy
<1> QED
  BY <1>6, <1>7 DEF Ordered

LEMMA OrderInvariance ==
    ASSUME "hand" \notin Faults PROVE Spec => [](IndInv /\ AllJudged /\ Ordered)
  BY InitRests, StepRests, JudgementInvariance, PTL DEF Spec

\* With the fragment not edited by hand, wherever a command fails or is killed the host is
\* left on a row of the crash table that reconcile resolves, with the old configuration
\* still there to go back to.
THEOREM CrashesAreOnTheTable ==
    ASSUME "hand" \notin Faults PROVE Spec => []CrashTable
<1>1. ASSUME IndInv, World PROVE CrashTable
  <2>1. running = disk <=> running.release = disk.release
    BY <1>1, PlainPairs DEF World
  <2>2. marker = NoFile => Marked(marker) = NoRelease
    BY DEF Marked
  <2>3. marker # NoFile => Marked(marker) = marker.active /\ marker.active \in Release
    BY <1>1 DEF IndInv, TypeOK, Marker, Marked
  <2>4. WayBack
    <3>1. CASE marker = NoFile
      BY <1>1, <2>1, <2>2, <3>1 DEF WayBack, Situation, ReadTriple, RevertSource, World
    <3>2. CASE marker # NoFile
      <4>1. store[marker.active] = "complete"
        BY <1>1, <2>3, <3>2 DEF IndInv, NamedIntact
      <4> QED
        BY <2>3, <3>2, <4>1, PlainPairs DEF WayBack, RevertSource
    <3> QED
      BY <3>1, <3>2
  <2>5. \/ Situation(ReadTriple) \in {"reconciled", "staged", "reloaded"}
        \/ disk.release = Marked(marker) /\ running.release \notin {NoRelease, Marked(marker)}
    <3>1. ReadTriple.running = running /\ ReadTriple.disk = disk /\ ReadTriple.marker = marker
      BY DEF ReadTriple
    <3> QED
      BY <1>1, <2>1, <2>2, <2>3, <3>1 DEF Situation, World
  <2> QED
    BY <2>4, <2>5 DEF CrashTable
<1> QED
  BY <1>1, OrderInvariance, PTL DEF Ordered

\* With the fragment not edited by hand, the marker moves from a release only to one that
\* answers every URL of it, or back to the one it replaced: over any number of commits,
\* crashes, restarts and reconciliations.
THEOREM UrlsContinue ==
    ASSUME "hand" \notin Faults PROVE Spec => UrlContinuity
<1>1. ASSUME IndInv, AllJudged, World, [Next]_vars, marker' # marker
      PROVE  Lawful(Marked(marker'))
  <2>1. PICK p \in Operator : WriteMarker(p)
    BY <1>1, MarkedByWriter
  <2>2. Marked(marker') = job[p].target
    BY <1>1, <2>1, MarkerWritten
  <2>3. running.release = job[p].target
    BY <1>1, <2>1 DEF IndInv, Standing, ServesTarget, Busy, At, WriteMarker
  <2>4. Answers(job[p].target) \/ job[p].target = Previous(marker) \/ job[p].kind = "record"
    BY <1>1, <2>1 DEF AllJudged, Judged, Busy, At, WriteMarker
  <2> QED
    BY <1>1, <2>2, <2>3, <2>4 DEF Lawful, World
<1>2. IndInv /\ AllJudged /\ World /\ [Next]_vars =>
        [ LET old == Marked(marker) IN
          Marked(marker') \in {old, Previous(marker)} \/ old = NoRelease
          \/ <<old, Marked(marker')>> \in Continues ]_marker
  BY <1>1 DEF Lawful, Answers
<1> QED
  BY <1>2, OrderInvariance, PTL DEF Spec, UrlContinuity, Ordered

-----------------------------------------------------------------------------
(* FirstMigration: the inductive invariant *)

Files ==
    /\ host \in [caddyfile : {"old", "new"}, fragment : BOOLEAN, next : BOOLEAN,
                 dropIn : {host.dropIn}, loaded : {host.loaded}, socket : BOOLEAN,
                 marker : {"none", "first", "later"}, backup : {Gone, "old"},
                 bytes : {host.bytes}, absent : BOOLEAN, site : BOOLEAN]
    /\ command \in [does : {command.does}, step : {command.step}]

\* Until the old layout is retired, the new Caddyfile is in place only with both backups taken:
\* a migration may be taken up wherever it stopped.
Safe ==
    /\ ~(host.bytes # Gone /\ host.absent)
    /\ host.caddyfile = "new" => host.fragment /\ (host.site => BothBackups)
    /\ MarkedCanGoBack

Installing == {"stage", "record", "backup", "fragment"}
Cutting == {"runtime", "lines", "loadLines", "validate", "load", "verify", "pair", "loadPair", "mark"}
Returning == {"putBack", "loadBack", "verifyBack", "socket", "unmark", "restoreCaddyfile"}
Restoring == {"dropFragment", "dropNext", "restoreDropIn", "reloadUnits", "restart",
              "consumeCaddyfile", "consumeAbsent", "consumeBytes"}
Retiring == {"retireBytes", "retireAbsent", "retireCaddyfile"}

\* What the command in progress has to go on.
GoesOn ==
    /\ command.step \in Installing => host.caddyfile = "old" /\ host.marker = "none"
    /\ AtStep("backup") => Recorded(host)
    /\ AtStep("fragment") \/ AtStep("caddyfile") => BothBackups
    /\ AtStep("caddyfile") => host.fragment /\ host.marker = "none"
    /\ command.step \in Cutting => host.caddyfile = "new" /\ host.marker = "none"
    /\ AtStep("loadPair") => host.dropIn = "pair"
    /\ AtStep("mark") => host.loaded = "pair"
    /\ command.step \in Returning => BothBackups
    /\ AtStep("restoreCaddyfile") => host.marker = "none"
    /\ command.step \in Restoring => host.caddyfile = "old" /\ host.marker = "none"
    /\ command.step \in Retiring => ~host.site
CutoverInv == Files /\ Safe /\ GoesOn

-----------------------------------------------------------------------------
USE DEF CutoverInv, Files, Safe, GoesOn, MarkedCanGoBack, BothBackups, Recorded, AtStep,
        Installing, Cutting, Returning, Restoring, Retiring, Gone, Go, Rest, Resting

\* What Caddy, systemd and kills do to the host: its socket's file at most.
LEMMA CheckKeeps ==
    ASSUME CutoverInv,
           host' = host \/ \E b \in BOOLEAN : host' = [host EXCEPT !.socket = b],
           \/ command' = command \/ Rest
           \/ AtStep("load") /\ Go("verify")
           \/ AtStep("loadBack") /\ Go("verifyBack")
           \/ AtStep("socket") /\ Go("unmark")
           \/ AtStep("restart") /\ Go("consumeCaddyfile")
    PROVE  CutoverInv'
<1>1. /\ host' \in [caddyfile : {host.caddyfile}, fragment : {host.fragment}, next : {host.next},
                    dropIn : {host.dropIn}, loaded : {host.loaded}, socket : BOOLEAN,
                    marker : {host.marker}, backup : {host.backup}, bytes : {host.bytes},
                    absent : {host.absent}, site : {host.site}]
  OBVIOUS
<1> QED
  BY <1>1

\* The first writes: both backups before the fragment, the fragment before the Caddyfile.
LEMMA InstallKeeps ==
    ASSUME CutoverInv,
           StageNext \/ Record \/ KeepCaddyfile \/ InstallFragment \/ InstallCaddyfile
    PROVE  CutoverInv'
<1>1. CASE StageNext
  BY <1>1 DEF StageNext, Put
<1>2. CASE Record
  BY <1>2 DEF Record, BackedUp
<1>3. CASE KeepCaddyfile
  BY <1>3 DEF KeepCaddyfile, Put
<1>4. CASE InstallFragment
  BY <1>4 DEF InstallFragment
<1>5. CASE InstallCaddyfile
  BY <1>5 DEF InstallCaddyfile, Put
<1> QED
  BY <1>1, <1>2, <1>3, <1>4, <1>5

\* From the new Caddyfile to the marker, first or again.
LEMMA CutKeeps ==
    ASSUME CutoverInv,
           RuntimeDir \/ WriteLines \/ LoadLines \/ Validate \/ Verify \/ WritePair \/
           LoadPair \/ Mark
    PROVE  CutoverInv'
<1>1. CASE RuntimeDir
  BY <1>1 DEF RuntimeDir, Require
<1>2. CASE WriteLines
  BY <1>2 DEF WriteLines, WriteDropIn, BackedUp
<1>3. CASE LoadLines
  BY <1>3 DEF LoadLines, DaemonReload, Put
<1>4. CASE Validate
  BY <1>4 DEF Validate, Require
<1>5. CASE Verify
  BY <1>5 DEF Verify, Require
<1>6. CASE WritePair
  BY <1>6 DEF WritePair, WriteDropIn, BackedUp
<1>7. CASE LoadPair
  BY <1>7 DEF LoadPair, DaemonReload, Put
<1>8. CASE Mark
  BY <1>8 DEF Mark
<1> QED
  BY <1>1, <1>2, <1>3, <1>4, <1>5, <1>6, <1>7, <1>8

\* The ways back, to the Caddyfile restored.
LEMMA ReturnKeeps ==
    ASSUME CutoverInv,
           PutBack \/ VerifyBack \/ Unmark \/ RestoreCaddyfile
    PROVE  CutoverInv'
<1>1. CASE PutBack
  BY <1>1 DEF PutBack, Put
<1>2. CASE VerifyBack
  BY <1>2 DEF VerifyBack, Require
<1>3. CASE Unmark
  BY <1>3 DEF Unmark, Put
<1>4. CASE RestoreCaddyfile
  BY <1>4 DEF RestoreCaddyfile, Put
<1> QED
  BY <1>1, <1>2, <1>3, <1>4

\* What the new Caddyfile needed goes after it, and the backups last.
LEMMA RestoreKeeps ==
    ASSUME CutoverInv,
           DropFragment \/ DropNext \/ RestoreDropIn \/ ReloadUnits \/
           ConsumeCaddyfile \/ ConsumeAbsent \/ ConsumeBytes
    PROVE  CutoverInv'
<1>1. CASE DropFragment
  BY <1>1 DEF DropFragment, Put
<1>2. CASE DropNext
  BY <1>2 DEF DropNext, Put
<1>3. CASE RestoreDropIn
  BY <1>3 DEF RestoreDropIn, Put
<1>4. CASE ReloadUnits
  BY <1>4 DEF ReloadUnits, DaemonReload, Put
<1>5. CASE ConsumeCaddyfile
  BY <1>5 DEF ConsumeCaddyfile, Put
<1>6. CASE ConsumeAbsent
  BY <1>6 DEF ConsumeAbsent, Put
<1>7. CASE ConsumeBytes
  BY <1>7 DEF ConsumeBytes, Put
<1> QED
  BY <1>1, <1>2, <1>3, <1>4, <1>5, <1>6, <1>7

\* Retirement forgets the old site before it forgets the backups.
LEMMA RetireKeeps ==
    ASSUME CutoverInv,
           RetireSite \/ RetireBytes \/ RetireAbsent \/ RetireCaddyfile \/ End
    PROVE  CutoverInv'
<1>1. CASE RetireSite
  BY <1>1 DEF RetireSite, Put
<1>2. CASE RetireBytes
  BY <1>2 DEF RetireBytes, Put
<1>3. CASE RetireAbsent
  BY <1>3 DEF RetireAbsent, Put
<1>4. CASE RetireCaddyfile
  BY <1>4 DEF RetireCaddyfile, Put
<1>5. CASE End
  BY <1>5 DEF End
<1> QED
  BY <1>1, <1>2, <1>3, <1>4, <1>5

\* No command starts where its first write could not stand.
LEMMA CommandsKeep ==
    ASSUME CutoverInv,
           Migrate \/ Complete \/ Abandon \/ Rollback \/ Offline \/ Retire
    PROVE  CutoverInv'
<1>1. CASE Migrate
  BY <1>1 DEF Migrate, Start, Pristine
<1>2. CASE Complete
  BY <1>2 DEF Complete, Start, ReloadedRow, Staged
<1>3. CASE Abandon
  BY <1>3 DEF Abandon, Start, FileRestore, ReloadBack
<1>4. CASE Rollback
  BY <1>4 DEF Rollback, Start, FileRestore, ReloadBack
<1>5. CASE Offline
  BY <1>5 DEF Offline, Start
<1>6. CASE Retire
  BY <1>6 DEF Retire, Start, Migrated
<1> QED
  BY <1>1, <1>2, <1>3, <1>4, <1>5, <1>6

\* Whatever Caddy does, of the host's files only its socket's changes.
LEMMA SocketOnly ==
    ASSUME CutoverInv,
           \/ \E address : Taken(address)
           \/ Refuses \/ Restarted \/ RestartFailed
    PROVE  \E b \in BOOLEAN : host' = [host EXCEPT !.socket = b]
<1>1. CASE \E address : Taken(address)
  BY <1>1 DEF Taken, WithSocket
<1>2. CASE Refuses
  BY <1>2 DEF Refuses, WithSocket
<1>3. CASE Restarted
  <2> DEFINE b == AfterStop.socket \/ caddy'.admin = "socket"
  <2>1. host' = [AfterStop EXCEPT !.socket = b]
    BY <1>3 DEF Restarted
  <2>2. b \in BOOLEAN
    OBVIOUS
  <2>3. [AfterStop EXCEPT !.socket = b] = [host EXCEPT !.socket = b]
    BY <2>2 DEF AfterStop
  <2> QED
    BY <2>1, <2>2, <2>3
<1>4. CASE RestartFailed
  BY <1>4 DEF RestartFailed, AfterStop
<1> QED
  BY <1>1, <1>2, <1>3, <1>4

\* Caddy's own steps.
LEMMA CaddyKeeps ==
    ASSUME CutoverInv,
           Cutover \/ LoadBack \/ RestartBack \/ CaddyRestart \/ CaddyRestartFails \/ PlainReload
    PROVE  CutoverInv'
<1>1. CASE Cutover
  BY <1>1, SocketOnly, CheckKeeps DEF Cutover
<1>2. CASE LoadBack
  BY <1>2, SocketOnly, CheckKeeps DEF LoadBack
<1>3. CASE RestartBack
  BY <1>3, SocketOnly, CheckKeeps DEF RestartBack
<1>4. CASE CaddyRestart
  BY <1>4, SocketOnly, CheckKeeps DEF CaddyRestart
<1>5. CASE CaddyRestartFails
  BY <1>5, SocketOnly, CheckKeeps DEF CaddyRestartFails
<1>6. CASE PlainReload
  BY <1>6, SocketOnly, CheckKeeps DEF PlainReload
<1> QED
  BY <1>1, <1>2, <1>3, <1>4, <1>5, <1>6

\* The owner, the operator and the release transaction beside it.
LEMMA OthersKeep ==
    ASSUME CutoverInv,
           RemoveSocket \/ Kill \/ CommitLater \/ EditDropIn
    PROVE  CutoverInv'
<1>1. CASE RemoveSocket
  <2>1. CASE host.socket /\ caddy.admin = "socket"
    BY <1>1, <2>1, CheckKeeps DEF RemoveSocket
  <2>2. CASE ~(host.socket /\ caddy.admin = "socket")
    <3>1. Go("unmark") /\ AtStep("socket") /\ host' = [host EXCEPT !.socket = FALSE]
      BY <1>1, <2>2, Zenon DEF RemoveSocket
    <3> QED
      BY <3>1, CheckKeeps
  <2> QED
    BY <2>1, <2>2
<1>2. CASE Kill
  BY <1>2, CheckKeeps DEF Kill
<1>3. CASE CommitLater
  BY <1>3 DEF CommitLater, Migrated
<1>4. CASE EditDropIn
  BY <1>4 DEF EditDropIn
<1> QED
  BY <1>1, <1>2, <1>3, <1>4

-----------------------------------------------------------------------------
LEMMA InitHolds == CutoverInit => CutoverInv
  BY DEF CutoverInit

LEMMA StepKeeps == CutoverInv /\ [CutoverNext]_cutoverVars => CutoverInv'
<1> SUFFICES ASSUME CutoverInv, [CutoverNext]_cutoverVars PROVE CutoverInv'
  OBVIOUS
<1>1. CASE UNCHANGED cutoverVars
  BY <1>1, CheckKeeps DEF cutoverVars
<1>2. CASE CutoverNext
  BY <1>2, InstallKeeps, CutKeeps, ReturnKeeps, RestoreKeeps, RetireKeeps, CommandsKeep, CaddyKeeps,
     OthersKeep DEF CutoverNext, CutoverStep, CutoverCommand
<1> QED
  BY <1>1, <1>2

HIDE DEF CutoverInv, MarkedCanGoBack

\* release/migrate.py, its order of writes, _mark and _restore_pre_envelope: whatever is killed,
\* refused or restarted, however often, the Caddyfile on disk never imports a fragment that is
\* not there, and a host with a marker reloads through the socket and has, until its old layout
\* is retired, the two backups it goes back by.
THEOREM HostCanAlwaysGoOn == CutoverSpec => []HostCanGoOn
<1>1. CutoverInv => CaddyfileLoads
  BY DEF CutoverInv, CaddyfileLoads, Loads
<1>2. CutoverInv => MarkedCanGoBack
  BY DEF CutoverInv
<1>3. CutoverInv => HostCanGoOn
  BY <1>1, <1>2 DEF HostCanGoOn
<1> QED
  BY <1>3, InitHolds, StepKeeps, PTL DEF CutoverSpec

-----------------------------------------------------------------------------
(* What a way back puts back                                               *)

Undoing == {"dropFragment", "dropNext", "restoreDropIn", "reloadUnits", "restart",
            "consumeCaddyfile"}
Cleared == {"dropNext", "restoreDropIn", "reloadUnits", "restart", "consumeCaddyfile",
            "consumeAbsent", "consumeBytes"}
Restored == {"reloadUnits", "restart", "consumeCaddyfile", "consumeAbsent", "consumeBytes"}

\* While the old layout stands, the owner's drop-in is in place or backed up, absence included.
Remembered ==
    host.site =>
      /\ ~Recorded(host) => host.dropIn = owned
      /\ host.absent => owned = Gone
      /\ host.bytes # Gone => host.bytes = owned
      /\ BackIsWhole

\* What has been undone stays so until the backups are consumed, the Caddyfile's first.
Undone ==
    /\ command.step \in {"stage", "record"} => ~Recorded(host)
    /\ command.step \in Undoing => BothBackups
    /\ command.step \in Cleared => ~host.fragment
    /\ command.step \in Restored /\ host.site => host.dropIn = owned

BackInv == CutoverInv /\ Remembered /\ Undone

USE DEF CutoverInv, MarkedCanGoBack, BackInv, Remembered, Undone, Undoing, Cleared, Restored, BackIsWhole

LEMMA InstallRemembers ==
    ASSUME BackInv,
           StageNext \/ Record \/ KeepCaddyfile \/ InstallFragment \/ InstallCaddyfile \/ EditDropIn
    PROVE  Remembered' /\ Undone'
<1>1. CASE StageNext
  BY <1>1 DEF StageNext, Put, outside
<1>2. CASE Record
  BY <1>2 DEF Record, BackedUp, outside
<1>3. CASE KeepCaddyfile
  BY <1>3 DEF KeepCaddyfile, Put, outside
<1>4. CASE InstallFragment
  BY <1>4 DEF InstallFragment, outside
<1>5. CASE InstallCaddyfile
  BY <1>5 DEF InstallCaddyfile, Put, outside
<1>6. CASE EditDropIn
  BY <1>6 DEF EditDropIn
<1> QED
  BY <1>1, <1>2, <1>3, <1>4, <1>5, <1>6

LEMMA CutRemembers ==
    ASSUME BackInv, WriteLines \/ LoadLines \/ WritePair \/ LoadPair \/ Mark \/ CommitLater
    PROVE  Remembered' /\ Undone'
<1>1. CASE WriteLines
  BY <1>1 DEF WriteLines, WriteDropIn, BackedUp, outside
<1>2. CASE LoadLines
  BY <1>2 DEF LoadLines, DaemonReload, Put, outside
<1>3. CASE WritePair
  BY <1>3 DEF WritePair, WriteDropIn, BackedUp, outside
<1>4. CASE LoadPair
  BY <1>4 DEF LoadPair, DaemonReload, Put, outside
<1>5. CASE Mark
  BY <1>5 DEF Mark, outside
<1>6. CASE CommitLater
  BY <1>6 DEF CommitLater, Migrated, outside
<1> QED
  BY <1>1, <1>2, <1>3, <1>4, <1>5, <1>6

LEMMA ReturnRemembers ==
    ASSUME BackInv,
           PutBack \/ Unmark \/ RestoreCaddyfile \/ DropFragment \/ DropNext \/ RestoreDropIn \/
           ReloadUnits
    PROVE  Remembered' /\ Undone'
<1>1. CASE PutBack
  BY <1>1 DEF PutBack, Put, outside
<1>2. CASE Unmark
  BY <1>2 DEF Unmark, Put, outside
<1>3. CASE RestoreCaddyfile
  BY <1>3 DEF RestoreCaddyfile, Put, outside
<1>4. CASE DropFragment
  BY <1>4 DEF DropFragment, Put, outside
<1>5. CASE DropNext
  BY <1>5 DEF DropNext, Put, outside
<1>6. CASE RestoreDropIn
  BY <1>6 DEF RestoreDropIn, Put, outside
<1>7. CASE ReloadUnits
  BY <1>7 DEF ReloadUnits, DaemonReload, Put, outside
<1> QED
  BY <1>1, <1>2, <1>3, <1>4, <1>5, <1>6, <1>7

LEMMA ConsumeRemembers ==
    ASSUME BackInv,
           ConsumeCaddyfile \/ ConsumeAbsent \/ ConsumeBytes \/ End \/
           RetireSite \/ RetireBytes \/ RetireAbsent \/ RetireCaddyfile
    PROVE  Remembered' /\ Undone'
<1>1. CASE ConsumeCaddyfile
  BY <1>1 DEF ConsumeCaddyfile, Put, outside
<1>2. CASE ConsumeAbsent
  BY <1>2 DEF ConsumeAbsent, Put, outside
<1>3. CASE ConsumeBytes
  BY <1>3 DEF ConsumeBytes, Put, outside
<1>4. CASE End
  BY <1>4 DEF End, outside
<1>5. CASE RetireSite
  BY <1>5 DEF RetireSite, Put, outside
<1>6. CASE RetireBytes
  BY <1>6 DEF RetireBytes, Put, outside
<1>7. CASE RetireAbsent
  BY <1>7 DEF RetireAbsent, Put, outside
<1>8. CASE RetireCaddyfile
  BY <1>8 DEF RetireCaddyfile, Put, outside
<1> QED
  BY <1>1, <1>2, <1>3, <1>4, <1>5, <1>6, <1>7, <1>8

\* A check, a load, a restart, a kill: the drop-in and the backups stay as they are.
LEMMA CheckRemembers ==
    ASSUME BackInv, UNCHANGED owned,
           host' = host \/ \E b \in BOOLEAN : host' = [host EXCEPT !.socket = b],
           \/ command' = command \/ Rest
           \/ AtStep("runtime") /\ Go("lines")
           \/ AtStep("validate") /\ (Go("verify") \/ Go("load"))
           \/ AtStep("load") /\ Go("verify")
           \/ AtStep("verify") /\ Go("pair")
           \/ AtStep("loadBack") /\ Go("verifyBack")
           \/ AtStep("verifyBack") /\ Go("socket")
           \/ AtStep("socket") /\ Go("unmark")
           \/ AtStep("restart") /\ Go("consumeCaddyfile")
    PROVE  Remembered' /\ Undone'
<1>1. /\ host' \in [caddyfile : {host.caddyfile}, fragment : {host.fragment}, next : {host.next},
                    dropIn : {host.dropIn}, loaded : {host.loaded}, socket : BOOLEAN,
                    marker : {host.marker}, backup : {host.backup}, bytes : {host.bytes},
                    absent : {host.absent}, site : {host.site}]
  OBVIOUS
<1> QED
  BY <1>1

LEMMA CommandsRemember ==
    ASSUME BackInv,
           Migrate \/ Complete \/ Abandon \/ Rollback \/ Offline \/ Retire
    PROVE  Remembered' /\ Undone'
<1>1. UNCHANGED <<host, owned>>
  BY DEF Migrate, Complete, Abandon, Rollback, Offline, Retire, FileRestore, ReloadBack, Start, outside
<1>2. \/ command'.step = "stage" /\ ~Recorded(host)
      \/ command'.step \in {"validate", "runtime", "socket", "putBack", "unmark", "retireSite"}
  BY DEF Migrate, Complete, Abandon, Rollback, Offline, Retire, FileRestore, ReloadBack, Start, Pristine
<1> QED
  BY <1>1, <1>2

LEMMA CaddyRemembers ==
    ASSUME BackInv,
           \/ Cutover \/ LoadBack \/ RestartBack \/ CaddyRestart \/ CaddyRestartFails \/ PlainReload
           \/ RuntimeDir \/ Validate \/ Verify \/ VerifyBack \/ RemoveSocket \/ Kill
    PROVE  Remembered' /\ Undone'
<1>1. CASE Cutover
  BY <1>1, SocketOnly, CheckRemembers DEF Cutover
<1>2. CASE LoadBack
  BY <1>2, SocketOnly, CheckRemembers DEF LoadBack
<1>3. CASE RestartBack
  BY <1>3, SocketOnly, CheckRemembers DEF RestartBack
<1>4. CASE CaddyRestart
  BY <1>4, SocketOnly, CheckRemembers DEF CaddyRestart, outside
<1>5. CASE CaddyRestartFails
  BY <1>5, SocketOnly, CheckRemembers DEF CaddyRestartFails
<1>6. CASE PlainReload
  BY <1>6, SocketOnly, CheckRemembers DEF PlainReload
<1>7. CASE RuntimeDir \/ Validate \/ Verify \/ VerifyBack
  BY <1>7, CheckRemembers DEF RuntimeDir, Validate, Verify, VerifyBack, Require, outside
<1>8. CASE RemoveSocket
  <2>1. CASE host.socket /\ caddy.admin = "socket"
    BY <1>8, <2>1, CheckRemembers DEF RemoveSocket, outside
  <2>2. CASE ~(host.socket /\ caddy.admin = "socket")
    <3>1. Go("unmark") /\ AtStep("socket") /\ host' = [host EXCEPT !.socket = FALSE] /\ owned' = owned
      BY <1>8, <2>2, Zenon DEF RemoveSocket, outside
    <3> QED
      BY <3>1, CheckRemembers
  <2> QED
    BY <2>1, <2>2
<1>9. CASE Kill
  BY <1>9, CheckRemembers DEF Kill
<1> QED
  BY <1>1, <1>2, <1>3, <1>4, <1>5, <1>6, <1>7, <1>8, <1>9

LEMMA StepRemembers == BackInv /\ [CutoverNext]_cutoverVars => BackInv'
<1> SUFFICES ASSUME BackInv, [CutoverNext]_cutoverVars PROVE Remembered' /\ Undone'
  BY StepKeeps
<1>1. CASE UNCHANGED cutoverVars
  BY <1>1, CheckRemembers DEF cutoverVars
<1>2. CASE CutoverNext
  BY <1>2, InstallRemembers, CutRemembers, ReturnRemembers, ConsumeRemembers, CheckRemembers,
     CommandsRemember, CaddyRemembers DEF CutoverNext, CutoverStep, CutoverCommand
<1> QED
  BY <1>1, <1>2

LEMMA InitRemembers == CutoverInit => BackInv
<1> SUFFICES ASSUME CutoverInit PROVE Remembered /\ Undone
  BY InitHolds
<1> QED
  BY DEF CutoverInit

HIDE DEF BackInv, BackIsWhole

\* release/migrate.py, _restore_pre_envelope and what it consumes last: a host whose Caddyfile
\* backup is consumed has its files as they were, wherever and however often a migration and
\* its ways back were killed, and whatever the owner's drop-in was when it was backed up.
THEOREM WayBackIsWhole == CutoverSpec => []BackIsWhole
<1>1. BackInv => BackIsWhole
  <2> SUFFICES ASSUME BackInv, ~BackIsWhole PROVE FALSE
    OBVIOUS
  <2>1. host.site
    BY DEF BackIsWhole
  <2> QED
    BY <2>1 DEF BackInv
<1> QED
  BY <1>1, InitRemembers, StepRemembers, PTL DEF CutoverSpec

=============================================================================
