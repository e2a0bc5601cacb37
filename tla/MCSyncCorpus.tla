---------------------------- MODULE MCSyncCorpus ----------------------------
(* Two documents of one year.  Title "a" has two texts, of which renderer 2 *)
(* changes the first and fails on the second; title "b" has a text both     *)
(* renderers make the same of and one renderer 1 fails on; engine 2 may     *)
(* derive another slug from "b".                                            *)
EXTENDS SyncCorpus

MCDoc == 1..2
MCRefDate == << <<2020, 0101>>, <<2020, 0101>> >>
MCVersion == {"a1", "a2", "b1", "bx", "n"}
MCNotice == {"n"}
MCRenderer == <<1, 2>>
MCParser == <<1, 2>>
Title == [v \in MCVersion |-> IF v \in {"b1", "bx"} THEN "b" ELSE "a"]
MCBaseSlug == [e \in 1..2 |-> [v \in MCVersion |-> Bare(Title[v])]]
MCNewSlug ==
    << [v \in MCVersion |-> Bare(Title[v])],
       [v \in MCVersion |-> Bare(IF Title[v] = "b" THEN "c" ELSE Title[v])] >>
MCRendering ==
    [v \in MCVersion |->
        CASE v = "a1" -> <<1, 2>> [] v = "a2" -> <<1, 0>> [] v = "bx" -> <<0, 1>> [] OTHER -> <<1, 1>>]

Pages(m) == [s \in {m[d].slug : d \in Current(m)} |->
                LET d == CHOOSE e \in Current(m) : m[e].slug = s
                IN  Page(d, m[d].text, m[d].stamp)]
CorpusOf(m) == [manifest |-> m, tree |-> Pages(m)]
Empty == CorpusOf(<<>>)
\* The omregningsfaktorer case: document 2 was published over the tombstone of document 1.
Fused == CorpusOf(<<Tombstone(CurrentRecord(Bare("a"), "a1", 1)), CurrentRecord(Bare("a"), "a2", 1)>>)
Both == CorpusOf(<<CurrentRecord(Bare("a"), "a1", 1), CurrentRecord(Bare("b"), "b1", 1)>>)

MCBoth == {Empty, Both}
MCEvery == {Empty, Both, Fused}
Clones == [kept |-> FALSE, single |-> FALSE, edits |-> 2, engines |-> 2]
SingleCommits == [kept |-> FALSE, single |-> TRUE, edits |-> 1, engines |-> 2]
KeptCheckout == [kept |-> TRUE, single |-> FALSE, edits |-> 0, engines |-> 1]
MCNightly == {Clones, KeptCheckout}
MCSingleOrKept == {SingleCommits, KeptCheckout}
MCEditedKept == {[KeptCheckout EXCEPT !.edits = 1]}
MCAny == [MCDoc -> Version \cup {"absent"}]
=============================================================================
