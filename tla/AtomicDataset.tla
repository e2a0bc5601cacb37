--------------------------- MODULE AtomicDataset ---------------------------
(***************************************************************************)
(* What src/lovspor/forarbeider promises of its dataset: it changes one    *)
(* document at a time and at once; a release may be replaced by another;   *)
(* a withdrawal is final.                                                  *)
(***************************************************************************)
CONSTANTS Doc, Text, Moment, Unlisted, Never

VARIABLE members  \* each document's member: its rendering and when it was withdrawn

Standing(m, d) == m[d] # Unlisted /\ m[d].withdrawn_at = Never

Init == members = [d \in Doc |-> Unlisted]

Release(d, t) ==
    /\ members[d] = Unlisted \/ Standing(members, d)
    /\ members' = [members EXCEPT ![d] = [text |-> t, withdrawn_at |-> Never]]

Withdraw(d, at) ==
    /\ Standing(members, d)
    /\ members' = [members EXCEPT ![d] = [text |-> members[d].text, withdrawn_at |-> at]]

Next ==
    \E d \in Doc :
        \/ \E t \in Text : Release(d, t)
        \/ \E at \in Moment : Withdraw(d, at)

Spec == Init /\ [][Next]_members
=============================================================================
