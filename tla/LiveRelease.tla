---------------------------- MODULE LiveRelease ----------------------------
(***************************************************************************)
(* What the release control plane promises, whatever its commands, crashes *)
(* and restarts do in between (src/lovspor/release): one configuration     *)
(* serves every request, it is switched in one step and only to a complete *)
(* envelope; the marker ACTIVE is advanced only to the release being       *)
(* served, and remembers the one it named before; an envelope is discarded *)
(* only while neither the server nor the marker names it.                  *)
(***************************************************************************)
CONSTANTS Release, NoRelease

VARIABLES
    served,   \* the release the running configuration names, or NoRelease
    marked,   \* the release the marker names, or NoRelease
    fallback, \* the release a rollback would restore, or NoRelease
    intact    \* the envelopes that are complete on disk

liveVars == <<served, marked, fallback, intact>>

Named == {served, marked, fallback} \ {NoRelease}

Init ==
    /\ served \in Release \cup {NoRelease}
    /\ marked = served
    /\ fallback = NoRelease
    /\ intact \in SUBSET Release
    /\ Named \subseteq intact

\* A finalized envelope appears.
Finalize(r) ==
    /\ r \notin intact
    /\ intact' = intact \cup {r}
    /\ UNCHANGED <<served, marked, fallback>>

\* An envelope nothing names stops being complete.
Discard(r) ==
    /\ r \in intact \ Named
    /\ intact' = intact \ {r}
    /\ UNCHANGED <<served, marked, fallback>>

\* Requests are served by another configuration from one step to the next.
Switch(r) ==
    /\ r \in intact \cup {NoRelease}
    /\ served' = r
    /\ UNCHANGED <<marked, fallback, intact>>

\* The marker catches up with what is served.
Record ==
    /\ served # NoRelease
    /\ marked' = served
    /\ fallback' = marked
    /\ UNCHANGED <<served, intact>>

Next ==
    \/ \E r \in Release : Finalize(r) \/ Discard(r)
    \/ \E r \in Release \cup {NoRelease} : Switch(r)
    \/ Record

Spec == Init /\ [][Next]_liveVars
=============================================================================
