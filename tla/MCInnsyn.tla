------------------------------- MODULE MCInnsyn -------------------------------
(* Two authorities, a mailbox that may be replaced and a form. *)
EXTENDS InnsynRequests, TLC

Mailbox(address) == [channel |-> "email", address |-> address]
MCRoute == {Mailbox("x"), Mailbox("y"), [channel |-> "webform", address |-> "page"]}
MCStarts ==
    {[route |-> <<r>>, turns |-> 0] : r \in MCRoute \cup {NoRoute}}
        \cup {[route |-> <<Mailbox("x"), Mailbox("y")>>, turns |-> 2]}
AskFairSpec == AskSpec /\ AskFair
=============================================================================
