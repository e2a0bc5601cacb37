----------------------------- MODULE MCSidecars -----------------------------
(* The nightly run step by step; or runs with and without a key as single   *)
(* steps with the sidecars; or runs with the epochs of their gate: a        *)
(* behaviour is one of them, and the others rest.                           *)
(* Pipeline 2 finds a second section in the texts of title "a".             *)
EXTENDS MCSyncCorpus, EmbeddingSidecars, MCGateEpoch

MCSections ==
    << [v \in MCVersion |-> {1}],
       [v \in MCVersion |-> IF Title[v] = "a" THEN {1, 2} ELSE {1}] >>
MCFirstListings == {<<"a1", "b1">>}

Of(text) == [text |-> text, look |-> Rendering[text][1], sections |-> {1}]
Old(text) == [inputs |-> Of(text), space |-> "s1", header |-> None]
Bins(a, b) == (Bare("a") :> a) @@ (Bare("b") :> b)
\* Nothing; pages without sidecars; sidecars from before their spaces were recorded; and from
\* before their inputs were, one of an older text and one that does not parse.
MCBeginnings ==
    {[corpus |-> Empty, bins |-> <<>>, stamps |-> <<>>],
     [corpus |-> Both, bins |-> <<>>, stamps |-> <<NoStamp, NoStamp>>],
     [corpus |-> Both, bins |-> Bins(Old("a1"), Old("b1")),
      stamps |-> <<[NoStamp EXCEPT !.of = "a1"], [NoStamp EXCEPT !.of = "b1"]>>],
     [corpus |-> Both, bins |-> Bins(Old("a2"), Corrupt),
      stamps |-> <<[NoStamp EXCEPT !.of = "a2"], [of |-> "b1", space |-> "s1", inputs |-> None]>>]}

VARIABLE part
NightInit ==
    /\ part \in {"run", "sidecars", "epoch"} /\ Init /\ SidecarInit /\ EpochInit
    /\ part # "sidecars" => held = Empty
    /\ part # "run" => setup = KeptCheckout /\ upstream = <<"a1", "b1">> /\ origin.corpus = Empty
    /\ part # "epoch" => began = <<>>
NightNext ==
    \/ part = "run" /\ Next /\ UNCHANGED <<part, sidecarVars, epochVars>>
    \/ part = "sidecars" /\ SidecarNext /\ UNCHANGED <<part, vars, epochVars>>
    \/ part = "epoch" /\ EpochNext /\ UNCHANGED <<part, vars, sidecarVars>>
NightSpec == NightInit /\ [][NightNext]_<<part, vars, sidecarVars, epochVars>>
=============================================================================
