--------------------------- MODULE MCCorpusReader ---------------------------
(* The commands of MCCorpusTransaction; or, with narrower bounds, commands *)
(* and a reader.                                                           *)
EXTENDS CorpusReader, MCCorpusTransaction, FiniteSets

CONSTANT p1

VARIABLE part

\* The bounds of a reading: commands of one process, one fault at most, and as many changes
\* beside it as make two with the faults.
Beside ==
    /\ ~ReaderIs("served") /\ ~ReaderIs("refused") /\ Change
    /\ \A p \in Process \ {p1} : job'[p] = NoJob
    /\ faults' <= 1 /\ faults' + Cardinality(reader'.shown) <= 3

MCInit == ReaderInit /\ part \in {"commands", "reader"}
MCNext ==
    /\ UNCHANGED part
    /\ \/ part = "commands" /\ Next /\ UNCHANGED reader
       \/ part = "reader" /\ (Read \/ Beside)
MCSpec == MCInit /\ [][MCNext]_<<readerVars, part>> /\ Fairness
=============================================================================
