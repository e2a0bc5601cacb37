----------------------------- MODULE LiveReader -----------------------------
(***************************************************************************)
(* mcp.py, CorpusReader: the long-lived reader behind the MCP tools, whose *)
(* caches are filled by worker threads while a git pull moves the corpus   *)
(* below it.                                                               *)
(*                                                                         *)
(* A text is the number of the pull that brought it; 0 is no file, and     *)
(* what is read of none.  A manifest maps the documents it lists to the    *)
(* texts its records describe; its stamp is the mtime of its file, 0 while *)
(* the file is away.  What the code does under the reader's lock is one    *)
(* step here, what it does without it is a step of its own.                *)
(***************************************************************************)
EXTENDS Integers, FiniteSets

CONSTANTS
    Doc,        \* documents; each has its slug and its path
    Listed,     \* the documents listed when the server starts
    Thread,     \* worker threads
    MaxPulls,   \* bound on pulls
    None,       \* an index that is not built
    Unknown,    \* the answer that no act has this slug
    Failed      \* the call raises

ASSUME ReaderAssumption ==
    /\ IsFiniteSet(Doc) /\ Listed \subseteq Doc /\ MaxPulls \in Nat
    /\ None # Unknown /\ None # Failed /\ Unknown # Failed
    /\ {None, Unknown, Failed} \cap Nat = {}

VARIABLES
    clone,      \* the corpus clone: pages, the manifest and its stamp
    pulls,      \* pulls begun
    pull,       \* what the pull under way brings, or None
    cache,      \* the reader's caches, with the stamp and the epoch they are of
    thread      \* the call each worker thread serves

readerVars == <<clone, pulls, pull, cache, thread>>

Text == 0..(MaxPulls + 1)
Manifest == UNION {[D -> Text \ {0}] : D \in SUBSET Doc}
Bodies == UNION {[D -> Text] : D \in SUBSET Doc}
ASSUME NothingAssumption == None \notin Bodies
Empty == [d \in {} |-> 0]
Entry(f, d) == IF d \in DOMAIN f THEN f[d] ELSE 0

Tool == {"law", "section", "search"}
Kind == Tool \cup {"reference"}
CallStep == {"idle", "stat", "refresh", "check", "take", "load", "law", "look", "resolve",
          "body", "read", "remember", "keep", "done"}

Fresh(kind, d) ==
    [pc |-> "idle", kind |-> kind, doc |-> d, want |-> "slugs", seen |-> 0, epoch |-> 0,
     slugs |-> None, index |-> None, docs |-> None, body |-> 0, answer |-> None, quiet |-> FALSE]

-----------------------------------------------------------------------------
(* The pull, a git fast-forward: the pages in any order, each unlinked and  *)
(* written anew, and manifest.json, whose path sorts last, after them.      *)

PullBegin ==
    /\ pull = None /\ pulls < MaxPulls
    /\ pulls' = pulls + 1
    /\ \E D \in SUBSET Doc :
         \E next \in [D -> {pulls + 2} \cup {Entry(clone.manifest, d) : d \in D}] :
            /\ \A d \in D : next[d] \in {pulls + 2, Entry(clone.manifest, d)} \ {0}
            /\ next # clone.manifest
            /\ pull' = next
    /\ thread' = [t \in Thread |-> [thread[t] EXCEPT !.quiet = FALSE]]
    /\ UNCHANGED <<clone, cache>>

PullUnlink(d) ==
    /\ pull # None /\ clone.stamp # 0
    /\ clone.page[d] \notin {0, Entry(pull, d)}
    /\ clone' = [clone EXCEPT !.page[d] = 0]
    /\ UNCHANGED <<pulls, pull, cache, thread>>

PullWrite(d) ==
    /\ pull # None
    /\ clone.page[d] = 0 /\ Entry(pull, d) # 0
    /\ clone' = [clone EXCEPT !.page[d] = pull[d]]
    /\ UNCHANGED <<pulls, pull, cache, thread>>

PullManifest ==
    /\ pull # None
    /\ \A d \in Doc : clone.page[d] = Entry(pull, d)
    /\ IF clone.stamp # 0
       THEN clone' = [clone EXCEPT !.stamp = 0] /\ pull' = pull
       ELSE clone' = [clone EXCEPT !.stamp = pulls + 1, !.manifest = pull] /\ pull' = None
    /\ UNCHANGED <<pulls, cache, thread>>

-----------------------------------------------------------------------------
(* The caches, as the lock's holder finds and leaves them.                  *)

\* Mutant: the indexes are dropped, the bodies of single documents are not.
RefreshedInPart(c, seen) ==
    IF seen \in {0, c.stamp} THEN c
    ELSE [c EXCEPT !.stamp = seen, !.epoch = c.epoch + 1, !.manifest = None, !.slugs = None, !.index = None]

\* _refresh_if_stale, with the mtime a caller has seen.
Refreshed(c, seen) ==
    IF seen \in {0, c.stamp} THEN c
    ELSE [stamp |-> seen, epoch |-> c.epoch + 1, manifest |-> None, slugs |-> None,
          index |-> None, bodies |-> Empty, ids |-> Empty]

\* The manifest property and _load_slug_index, called under the lock; None if the file is away.
WithManifest(c) ==
    LET f == Refreshed(c, clone.stamp)
    IN  IF f.manifest = None /\ clone.stamp # 0 THEN [f EXCEPT !.manifest = clone.manifest] ELSE f

WithSlugs(c) ==
    LET f == Refreshed(c, clone.stamp)
    IN  IF f.slugs # None THEN f
        ELSE LET g == WithManifest(f) IN [g EXCEPT !.slugs = g.manifest]

\* The body index of the slugs a caller holds: the pages that are there.
IndexOf(slugs) == [d \in {e \in DOMAIN slugs : clone.page[e] # 0} |-> clone.page[d]]

\* dict.setdefault
SetDefault(f, d, text) == [e \in DOMAIN f \cup {d} |-> IF e \in DOMAIN f THEN f[e] ELSE text]

-----------------------------------------------------------------------------
Stands(t, pc) == thread[t].pc = pc
Local(t, new) == thread' = [thread EXCEPT ![t] = new]
Done(t, result) ==
    Local(t, [Fresh("law", thread[t].doc) EXCEPT
                !.pc = "done", !.answer = result, !.quiet = thread[t].quiet])

\* A tool is called; quiet is whether no pull overlaps the call.
Start(t, kind, d) ==
    /\ thread[t].pc \in {"idle", "done"}
    /\ Local(t, [Fresh(kind, d) EXCEPT !.pc = IF kind = "section" THEN "resolve" ELSE "stat",
                                        !.quiet = (pull = None)])
    /\ UNCHANGED <<clone, pulls, pull, cache>>

(* A loader called without the lock: want names what it is to return.  The  *)
(* mtime is read first; then the caches are refreshed under the lock; then  *)
(* the index is looked at, and either read again to be returned, or built   *)
(* under the lock.                                                          *)
Stat(t) ==
    /\ Stands(t, "stat")
    /\ Local(t, [thread[t] EXCEPT !.pc = "refresh", !.seen = clone.stamp])
    /\ UNCHANGED <<clone, pulls, pull, cache>>

Refresh(t) ==
    /\ Stands(t, "refresh")
    /\ cache' = Refreshed(cache, thread[t].seen)
    /\ Local(t, [thread[t] EXCEPT !.pc = "check", !.seen = 0])
    /\ UNCHANGED <<clone, pulls, pull>>

Wanted(t) ==
    CASE thread[t].want = "index" -> cache.index
      [] thread[t].want = "docs" -> cache.manifest
      [] OTHER -> cache.slugs

Check(t) ==
    /\ Stands(t, "check")
    /\ Local(t, [thread[t] EXCEPT !.pc = IF Wanted(t) # None THEN "take" ELSE "load"])
    /\ UNCHANGED <<clone, pulls, pull, cache>>

\* What a call does with the index v it was given: search_body goes from the slugs to the
\* body index, the manifest and the slugs again; get_law reads the page; a cross-reference
\* is checked if its act is known.
Given(t, v) ==
    LET l == thread[t]
        hit == l.doc \in DOMAIN l.docs /\ l.doc \in DOMAIN v /\ l.doc \in DOMAIN l.index
    IN  CASE v = None -> Done(t, Failed)
          [] v # None /\ l.kind = "law" ->
               IF l.doc \in DOMAIN v THEN Local(t, [l EXCEPT !.pc = "law"]) ELSE Done(t, Unknown)
          [] v # None /\ l.kind = "reference" ->
               IF l.doc \in DOMAIN v THEN Local(t, [l EXCEPT !.pc = "look"]) ELSE Done(t, Unknown)
          [] v # None /\ l.kind = "search" /\ l.want = "slugs" ->
               Local(t, [l EXCEPT !.pc = "check", !.want = "index", !.slugs = v])
          [] v # None /\ l.kind = "search" /\ l.want = "index" ->
               Local(t, [l EXCEPT !.pc = "stat", !.want = "docs", !.index = v, !.slugs = None])
          [] v # None /\ l.kind = "search" /\ l.want = "docs" ->
               Local(t, [l EXCEPT !.pc = "stat", !.want = "slugs again", !.docs = v])
          [] OTHER -> Done(t, IF hit THEN l.index[l.doc] ELSE Unknown)

Take(t) ==
    /\ Stands(t, "take")
    /\ Given(t, Wanted(t))
    /\ UNCHANGED <<clone, pulls, pull, cache>>

\* The slugs a body index is built of were fetched before the lock was taken.
Load(t) ==
    /\ Stands(t, "load")
    /\ LET c == CASE thread[t].want = "docs" ->
                       IF cache.manifest = None /\ clone.stamp # 0
                       THEN [cache EXCEPT !.manifest = clone.manifest] ELSE cache
                  [] thread[t].want = "index" ->
                       IF cache.index = None
                       THEN [cache EXCEPT !.index = IndexOf(thread[t].slugs)] ELSE cache
                  [] OTHER -> IF cache.slugs # None THEN cache ELSE WithSlugs(cache)
       IN  /\ cache' = c
           /\ Given(t, CASE thread[t].want = "index" -> c.index
                         [] thread[t].want = "docs" -> c.manifest
                         [] OTHER -> c.slugs)
    /\ UNCHANGED <<clone, pulls, pull>>

\* get_law: the page of the record, which must be there.
ReadLaw(t) ==
    /\ Stands(t, "law")
    /\ LET text == clone.page[thread[t].doc] IN Done(t, IF text = 0 THEN Failed ELSE text)
    /\ UNCHANGED <<clone, pulls, pull, cache>>

-----------------------------------------------------------------------------
(* get_section, list_sections and the check of a cross-reference: the       *)
(* record and its epoch are read together, the page without the lock, and   *)
(* what was read of it is remembered if the epoch has not moved.            *)

\* _section_ids_for, its cache
LookIds(t) ==
    /\ Stands(t, "look")
    /\ IF thread[t].doc \in DOMAIN cache.ids
       THEN Done(t, cache.ids[thread[t].doc])
       ELSE Local(t, [thread[t] EXCEPT !.pc = "resolve"])
    /\ UNCHANGED <<clone, pulls, pull, cache>>

\* _resolve_current, and _lookup_current for a cross-reference, whose act may have no sections.
Resolve(t) ==
    /\ Stands(t, "resolve")
    /\ LET c == WithSlugs(cache)
           held == [thread[t] EXCEPT !.epoch = c.epoch]
       IN  /\ cache' = c
           /\ IF c.slugs = None THEN Done(t, Failed)
              ELSE IF thread[t].doc \in DOMAIN c.slugs THEN Local(t, [held EXCEPT !.pc = "body"])
              ELSE IF thread[t].kind = "reference" THEN Local(t, [held EXCEPT !.pc = "keep"])
              ELSE Done(t, Unknown)
    /\ UNCHANGED <<clone, pulls, pull>>

\* _body_for_record
LookBody(t) ==
    /\ Stands(t, "body")
    /\ LET d == thread[t].doc
           has(text) == Local(t, [thread[t] EXCEPT !.pc = "keep", !.body = text])
       IN  IF cache.index # None THEN has(Entry(cache.index, d))
           ELSE IF d \in DOMAIN cache.bodies THEN has(cache.bodies[d])
           ELSE Local(t, [thread[t] EXCEPT !.pc = "read"])
    /\ UNCHANGED <<clone, pulls, pull, cache>>

\* _read_stripped_body
ReadPage(t) ==
    /\ Stands(t, "read")
    /\ Local(t, [thread[t] EXCEPT !.pc = "remember", !.body = clone.page[thread[t].doc]])
    /\ UNCHANGED <<clone, pulls, pull, cache>>

\* Mutant: remembered whatever has happened since.
RememberBodyAnyway(t) ==
    /\ Stands(t, "remember")
    /\ Local(t, [thread[t] EXCEPT !.pc = "keep"])
    /\ cache' = [cache EXCEPT !.bodies = SetDefault(@, thread[t].doc, thread[t].body)]
    /\ UNCHANGED <<clone, pulls, pull>>

RememberBody(t) ==
    /\ Stands(t, "remember")
    /\ Local(t, [thread[t] EXCEPT !.pc = "keep"])
    /\ cache' = IF thread[t].epoch # cache.epoch THEN cache
                ELSE [cache EXCEPT !.bodies = SetDefault(@, thread[t].doc, thread[t].body)]
    /\ UNCHANGED <<clone, pulls, pull>>

\* _remember_section_ids; then the answer, or the check of a reference from the section to
\* another act.
RememberIds(t) ==
    /\ Stands(t, "keep")
    /\ \/ Done(t, thread[t].body)
       \/ \E d \in Doc \ {thread[t].doc} :
            /\ thread[t].kind = "section"
            /\ Local(t, [Fresh("reference", d) EXCEPT !.pc = "stat", !.quiet = thread[t].quiet])
    /\ cache' = IF thread[t].epoch # cache.epoch THEN cache
                ELSE [cache EXCEPT !.ids = SetDefault(@, thread[t].doc, thread[t].body)]
    /\ UNCHANGED <<clone, pulls, pull>>

-----------------------------------------------------------------------------
\* The server starts on a settled clone; its caches are empty.
ReaderInit ==
    /\ clone = [page |-> [d \in Doc |-> IF d \in Listed THEN 1 ELSE 0],
                manifest |-> [d \in Listed |-> 1], stamp |-> 1]
    /\ pulls = 0 /\ pull = None
    /\ cache = [stamp |-> 0, epoch |-> 0, manifest |-> None, slugs |-> None, index |-> None,
                bodies |-> Empty, ids |-> Empty]
    /\ thread = [t \in Thread |-> Fresh("law", None)]

Pull == PullBegin \/ PullManifest \/ \E d \in Doc : PullUnlink(d) \/ PullWrite(d)
Call(t) ==
    \/ \E kind \in Tool, d \in Doc : Start(t, kind, d)
    \/ Stat(t) \/ Refresh(t) \/ Check(t) \/ Take(t) \/ Load(t) \/ ReadLaw(t)
    \/ LookIds(t) \/ Resolve(t) \/ LookBody(t) \/ ReadPage(t) \/ RememberBody(t) \/ RememberIds(t)

ReaderNext == Pull \/ \E t \in Thread : Call(t)
ReaderSpec == ReaderInit /\ [][ReaderNext]_readerVars

-----------------------------------------------------------------------------
\* The clone is at rest and the caches bear the stamp of the manifest that is there.
Settled == pull = None /\ cache.stamp = clone.stamp

\* What is cached under a manifest's stamp, once its pull is over, is what that manifest and its
\* pages say: no late reader slips the text of an older corpus in.
CachesAreCurrent ==
    Settled =>
        /\ cache.manifest \in {None, clone.manifest} /\ cache.slugs \in {None, clone.manifest}
        /\ \A d \in DOMAIN cache.bodies : cache.bodies[d] = clone.page[d]
        /\ \A d \in DOMAIN cache.ids : cache.ids[d] \in {0, clone.page[d]}
        /\ cache.index # None => \A d \in DOMAIN cache.index : cache.index[d] = clone.page[d]

\* A call that no pull overlaps shows no text but the one that the corpus has now, however the
\* threads before and beside it have left the caches.
NoOldText ==
    \A t \in Thread :
        (thread[t].pc = "done" /\ thread[t].quiet /\ thread[t].answer \notin {0, Unknown, Failed}) =>
            thread[t].answer = Entry(clone.manifest, thread[t].doc)

\* CorpusReader: "drops every cache when manifest.json changes on disk so tools never serve the
\* pre-pull corpus".  A body index of the corpus that is there has every act that is listed.
IndexIsComplete ==
    (Settled /\ cache.index # None) => DOMAIN cache.index = DOMAIN clone.manifest
=============================================================================
