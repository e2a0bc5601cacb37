----------------------------- MODULE MCGateEpoch -----------------------------
EXTENDS GateEpoch

\* A corpus from before the gate; and one whose first gate run, of half second 3, attested
\* what it made before there was an epoch ref.
MCPreGate == [nr |-> 1, date |-> 0, by |-> 0]
MCGated == [nr |-> 2, date |-> 4, by |-> 1]
MCHistories ==
    {[clock |-> 2, main |-> <<MCPreGate>>, proofs |-> {}, began |-> <<>>],
     [clock |-> 5, main |-> <<MCPreGate, MCGated>>, proofs |-> {<<MCGated, 1>>},
      began |-> <<[at |-> 2, head |-> MCPreGate]>>]}
=============================================================================
