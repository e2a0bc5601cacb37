------------------------------ MODULE MCHosted ------------------------------
(* The brakes around hosted calls and the credential store, whose answers   *)
(* the calls take as they come: a behaviour is one of the one or of the     *)
(* other.                                                                   *)
EXTENDS HostedCalls, CredentialStore, TLC

MCCeiling == [daily |-> 3, inFlight |-> 2, paid |-> 2]
MCLimits == {[daily |-> 2, inFlight |-> 1, paid |-> 1]}
Symmetry == Permutations(Worker) \cup Permutations(Credential)

VARIABLE part

HostedInit ==
    /\ part \in {"calls", "store"} /\ CallsInit /\ StoreInit
    /\ part = "calls" => file.text = NoIds
HostedNext ==
    \/ part = "calls" /\ CallsNext /\ UNCHANGED <<part, storeVars>>
    \/ part = "store" /\ StoreNext /\ UNCHANGED <<part, callVars>>
HostedSpec == HostedInit /\ [][HostedNext]_<<part, callVars, storeVars>>
=============================================================================
