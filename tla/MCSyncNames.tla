----------------------------- MODULE MCSyncNames -----------------------------
(* The sync, or the naming alone: a behaviour is one of them, and the other   *)
(* rests.  The naming has three documents, two of one date, with titles of    *)
(* which one reads like the numbered form of another.                         *)
EXTENDS MCSyncCorpus, SlugResolution

MCThreeDates == Append(MCRefDate, <<2021, 0101>>)
MCSibling == 1..3
MCPreferred == {Bare("a"), Bare("b"), Numbered(Bare("a"), 2)}
MCOwned == MCPreferred \cup {Append(Bare("a"), <<"year", 2020>>), Append(Bare("a"), <<"id", 2>>)}

VARIABLE part
SyncInit ==
    /\ part \in {"sync", "names"} /\ Init /\ SlugInit
    /\ part = "sync" => asked = <<>> /\ had = <<>>
    /\ part = "names" => setup = SingleCommits /\ upstream = <<"a1", "b1">> /\ origin.corpus = Both
SyncNext ==
    \/ part = "sync" /\ Next /\ UNCHANGED <<part, slugVars>>
    \/ part = "names" /\ SlugNext /\ UNCHANGED <<part, vars>>
SyncSpec ==
    /\ SyncInit /\ [][SyncNext]_<<part, vars, slugVars>>
    /\ WF_vars(part = "sync" /\ Run)
=============================================================================
