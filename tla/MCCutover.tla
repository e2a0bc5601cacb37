------------------------------ MODULE MCCutover ------------------------------
(* The transactions of a host that has the envelope, or its first migration:  *)
(* a behaviour is one of them, and the other rests.                           *)
EXTENDS MCReleaseControl, FirstMigration

VARIABLE part
HostInit ==
    /\ part \in {"transactions", "cutover"} /\ Init /\ CutoverInit
    /\ part = "transactions" => owned = Gone
    /\ part = "cutover" => running.release = NoRelease
HostNext ==
    \/ part = "transactions" /\ Next /\ UNCHANGED <<part, cutoverVars>>
    \/ part = "cutover" /\ CutoverNext /\ UNCHANGED <<part, vars>>
HostSpec == HostInit /\ [][HostNext]_<<part, vars, cutoverVars>> /\ Fairness /\ CutoverFair
=============================================================================
