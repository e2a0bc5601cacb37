----------------------------- MODULE CorpusReader -----------------------------
(***************************************************************************)
(* forarbeider/corpus_reader.py beside the commands of CorpusTransaction.  *)
(* The reader takes no lock: it looks whether there is one, and a journal, *)
(* and then reads the tree file by file, whatever begins meanwhile.  It    *)
(* serves what it has read if that is exactly what the manifest it read    *)
(* lists.  A file not there when its directory is listed is missed, one    *)
(* gone when it is opened refuses the reading.                             *)
(***************************************************************************)
EXTENDS CorpusTransaction

VARIABLE reader  \* one reading: where it is, the files listed, the bytes read, and
                 \* the datasets there were since it began

NotReading == [pc |-> "idle", listed |-> {}, read |-> [q \in {} |-> NoFile], shown |-> {}]
Reading == reader.pc \in {"journal", "list", "read"}

\* The datasets a reader may show now: what is committed, and what a change leads to.
Shows == {Committed} \cup IF journal = NoJournal THEN {} ELSE {journal.decision.target}

-----------------------------------------------------------------------------
ReaderIs(pc) == reader.pc = pc
Refuse == reader' = [NotReading EXCEPT !.pc = "refused"]

\* open_shelf: a lock, stale or not, refuses; then a journal does.
LookForLock ==
    /\ ReaderIs("idle") /\ lock = Free
    /\ reader' = [reader EXCEPT !.pc = "journal", !.shown = Shows]
    /\ UNCHANGED vars
LookForJournal ==
    /\ ReaderIs("journal")
    /\ IF journal = NoJournal THEN reader' = [reader EXCEPT !.pc = "list"] ELSE Refuse
    /\ UNCHANGED vars

\* _dataset_files and _walk at the root.  Without its directory the dataset is empty (an
\* empty directory, which refuses, is not told apart from that).
ListRoot ==
    /\ ReaderIs("list")
    /\ LET found == {q \in Path : tree[q] # NoFile}
           missing == {IndexFile, ManifestFile} \ found
       IN  reader' = IF found = {} THEN [reader EXCEPT !.pc = "served", !.read = Layout(Empty)]
                     ELSE [reader EXCEPT !.pc = "read", !.listed = found \ Doc,
                                         !.read = [q \in missing |-> NoFile]]
    /\ UNCHANGED vars

WithBytes(q, bytes) ==
    [r \in DOMAIN reader.read \cup {q} |-> IF r = q THEN bytes ELSE reader.read[r]]

\* _walk lists a document's directory when it comes to it, with others or alone.
ListDocument(d) ==
    /\ ReaderIs("read") /\ d \notin reader.listed \cup DOMAIN reader.read
    /\ reader' = IF tree[d] = NoFile THEN [reader EXCEPT !.read = WithBytes(d, NoFile)]
                 ELSE [reader EXCEPT !.listed = @ \cup {d}]
    /\ UNCHANGED vars

\* INDEX.md and manifest.json sort after the sessions' directories.
Earlier(q) == IF q = ManifestFile THEN Doc \cup {IndexFile} ELSE IF q = IndexFile THEN Doc ELSE {}

\* _read_public of a file listed, which may be another's by now, or gone.
ReadFile(q) ==
    /\ ReaderIs("read") /\ q \in reader.listed \ DOMAIN reader.read
    /\ Earlier(q) \subseteq DOMAIN reader.read
    /\ IF tree[q] = NoFile THEN Refuse
       ELSE reader' = [reader EXCEPT !.read = WithBytes(q, tree[q])]
    /\ UNCHANGED vars

\* Mutant: the members' bytes are not compared.
ServeUnverified ==
    /\ ReaderIs("read") /\ DOMAIN reader.read = Path
    /\ LET m == reader.read[ManifestFile]
       IN  IF m # NoFile /\ reader.read[IndexFile] = IndexOf(m)
           THEN reader' = [reader EXCEPT !.pc = "served"] ELSE Refuse
    /\ UNCHANGED vars

\* read_dataset_files, verify_members and _verified
Serve ==
    /\ ReaderIs("read") /\ DOMAIN reader.read = Path
    /\ LET m == reader.read[ManifestFile]
       IN  IF m # NoFile /\ reader.read = Layout(m)
           THEN reader' = [reader EXCEPT !.pc = "served"] ELSE Refuse
    /\ UNCHANGED vars

\* The reader is asked again.
AskAgain == reader.pc \in {"served", "refused"} /\ reader' = NotReading /\ UNCHANGED vars

Read ==
    \/ AskAgain \/ LookForLock \/ LookForJournal \/ ListRoot \/ Serve
    \/ \E d \in Doc : ListDocument(d)
    \/ \E q \in Path : ReadFile(q)

\* A command's step, beside the reading.
Change ==
    /\ Next
    /\ reader' = IF Reading THEN [reader EXCEPT !.shown = @ \cup Shows'] ELSE reader

ReaderInit == Init /\ reader = NotReading
ReaderNext == Read \/ Change
readerVars == <<vars, reader>>
ReaderSpec == ReaderInit /\ [][ReaderNext]_readerVars

-----------------------------------------------------------------------------
\* What a reader serves was the dataset at one moment of its reading, or what the change
\* under way was to make of it, whatever began, ended, died and was rolled back beside it:
\* never pages of one release under the manifest of another, and never a document whose
\* withdrawal was done before it began.
ServedAtOnce ==
    ReaderIs("served") => \E m \in reader.shown : reader.read = Layout(m)
=============================================================================
