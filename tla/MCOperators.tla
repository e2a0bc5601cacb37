----------------------------- MODULE MCOperators -----------------------------
(* What is done by hand to a running system: the fragment of the live        *)
(* release is edited, the observation log is corrected and repaired, the     *)
(* corpus is pulled under the server that reads it, and clients walk through *)
(* the history it keeps.  A behaviour is one of them, and the others rest.   *)
EXTENDS MCReleaseControl, ObservationLog, LiveReader, StateCache

MCBodyBytes == ("c1" :> 1) @@ ("c2" :> 4) @@ ("c3" :> 6)
HandSymmetry == Permutations(Thread) \cup Permutations(Decision)

VARIABLE part
HandInit ==
    /\ part \in {"fragment", "log", "live", "states"}
    /\ Init /\ LogInit /\ ReaderInit /\ StateInit
    /\ part # "log" => \A i, j \in DOMAIN log : i < j => log[i].text.of < log[j].text.of
    /\ part # "fragment" => running.release = NoRelease
HandNext ==
    \/ part = "fragment" /\ Next /\ UNCHANGED <<part, logVars, readerVars, stateVars>>
    \/ part = "log" /\ LogNext /\ UNCHANGED <<part, vars, readerVars, stateVars>>
    \/ part = "live" /\ ReaderNext /\ UNCHANGED <<part, vars, logVars, stateVars>>
    \/ part = "states" /\ StateNext /\ UNCHANGED <<part, vars, logVars, readerVars>>
HandSpec == HandInit /\ [][HandNext]_<<part, vars, logVars, readerVars, stateVars>>
==============================================================================
