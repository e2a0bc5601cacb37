------------------------------ MODULE MCRecords ------------------------------
(* What is asked of the authorities, or what is promoted of their pages: a     *)
(* behaviour is one of them, and the other rests.                              *)
EXTENDS MCInnsyn, Promotion

\* The second extractor reads the front matter of b another way; the page comes before or
\* after "observations" by its slug.
MCText == {"a", "b"}
MCLook == [t \in MCText |-> IF t = "b" THEN <<1, 2>> ELSE <<1, 1>>]
MCOrders == {<<"evidence", "page", "obs", "record">>, <<"evidence", "obs", "page", "record">>}
Approved(t, at) == [kind |-> "decision", text |-> t, approves |-> TRUE, at |-> at, by |-> 1]
MCHistories ==
    {[seen |-> <<>>, log |-> <<>>, events |-> 0],
     [seen |-> <<"a", "b", "a">>, log |-> <<Approved("a", 1), Approved("b", 2)>>, events |-> 1]}

VARIABLE part
RecordsInit ==
    /\ part \in {"letters", "promotion"} /\ AskInit /\ PromotionInit
    /\ part = "letters" => seen = <<>> /\ order = <<"evidence", "page", "obs", "record">>
    /\ part = "promotion" => route = <<NoRoute>>
RecordsNext ==
    \/ part = "letters" /\ AskNext /\ UNCHANGED <<part, promotionVars>>
    \/ part = "promotion" /\ PromotionNext /\ UNCHANGED <<part, askVars>>
RecordsSpec ==
    RecordsInit /\ [][RecordsNext]_<<part, askVars, promotionVars>> /\ AskFair
=============================================================================
