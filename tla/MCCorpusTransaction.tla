------------------------ MODULE MCCorpusTransaction ------------------------
(* Two documents, one of them released in two renderings, and commands     *)
(* that are killed or fail at any step.                                    *)
EXTENDS CorpusTransaction

CONSTANTS d1, d2, t1, t2

MCRendering == {<<d1, t1>>, <<d1, t2>>, <<d2, t1>>}
=============================================================================
