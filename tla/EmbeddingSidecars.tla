-------------------------- MODULE EmbeddingSidecars --------------------------
(***************************************************************************)
(* The vectors that semantic search reads beside the pages of the corpus:  *)
(* one sidecar file per current document, and in its record the stamps     *)
(* that say of which source, inputs and embedding space they are.  Keyed   *)
(* and keyless nightly runs (sync/orchestrator.py), the operator's         *)
(* commands (input_annotation.py, lspe_cutover.py, repair-embeddings) and  *)
(* the index that mcp.py builds of what they published.                    *)
(*                                                                         *)
(* What a run does to manifest and pages is SyncCorpus's; here a run is    *)
(* one step on what origin has, because a clone that is killed or refused  *)
(* before its push leaves origin alone.                                    *)
(***************************************************************************)
EXTENDS SyncCorpus

CONSTANTS
    Space,           \* embedding spaces: model, dimension and endpoint
    None,            \* no space, no stamp; the key of a keyless run
    Corrupt,         \* a sidecar that does not parse
    Sections,        \* Sections[k][v]: the sections input pipeline k finds in text v
    ReembedMin,      \* REEMBED_GUARD_MIN_DOCS
    MaxFraction,     \* reembed_guard_max_fraction, in percent
    MaxTokens,       \* reembed_guard_max_tokens, a section being one token
    Beginnings,      \* what origin may have at the start
    FirstListings,   \* what upstream may list at the start
    MaxEdits         \* bound on upstream edits

ASSUME SidecarAssumption ==
    /\ None \notin Space /\ {ReembedMin, MaxFraction, MaxTokens, MaxEdits} \subseteq Nat
    /\ FirstListings \subseteq [Doc -> Version \cup {Absent}]
    /\ \A e \in 1..2 : \A v \in Version : BaseSlug[e][v] \in Seq(Range(BaseSlug[e][v]))

\* What no inputs and no sidecar are.
ASSUME TokenAssumption ==
    \A v \in Version, e \in 1..2, k \in 1..2 :
        \A i \in {[text |-> v, look |-> Rendering[v][Renderer[e]], sections |-> Sections[k][v]]} :
            /\ None # i
            /\ \A s \in Space, h \in Space \cup {None} :
                  Corrupt # [inputs |-> i, space |-> s, header |-> h]

VARIABLES
    listing,   \* what upstream lists, and how often it was edited
    tools,     \* the engine installed, its input pipeline, and lspe_writer_version
    held,      \* manifest and tree of the corpus on origin
    bins,      \* its sidecars, by slug
    stamps,    \* the embedding fields of its current records
    vouched,   \* the documents whose input hash was stamped without embedding them
    last       \* the space of the keyed run that ended just now

sidecarVars == <<listing, tools, held, bins, stamps, vouched, last>>

NoStamp == [of |-> None, space |-> None, inputs |-> None]

\* build_embedding_inputs, of a page without its front matter.
Inputs(page) ==
    [text |-> page.text, look |-> page.look, sections |-> Sections[tools.pipeline][page.text]]
PageOf(d) == held.tree[held.manifest[d].slug]
HasPage(d) == held.manifest[d].slug \in DOMAIN held.tree
HasSidecar(d) == held.manifest[d].slug \in DOMAIN bins
SidecarOf(d) == bins[held.manifest[d].slug]
Parses(d) == HasSidecar(d) /\ SidecarOf(d) # Corrupt
Present == Current(held.manifest)

\* _write_embeddings_for_doc
Sidecar(page, space) ==
    [inputs |-> Inputs(page), space |-> space,
     header |-> IF tools.writer = 2 THEN space ELSE None]

\* Mutant: a record written without a key keeps the embedding fields it had.
StampKept(d, page, space) ==
    IF space = None THEN IF d \in DOMAIN stamps THEN stamps[d] ELSE NoStamp
    ELSE [of |-> page.text, space |-> space, inputs |-> Inputs(page)]

\* The embedding fields _write_one gives the record of d.
StampOf(d, page, space) ==
    IF space = None THEN NoStamp
    ELSE [of |-> page.text, space |-> space, inputs |-> Inputs(page)]

-----------------------------------------------------------------------------
(* A nightly run: it repairs the sidecars of what is published and then      *)
(* embeds what it writes, or writes without a key.                           *)

\* Mutant: a sidecar is taken for current whatever inputs it was made of.
StaleButForInputs(d, target) ==
    \/ stamps[d].of # held.manifest[d].text
    \/ ~Parses(d)
    \/ stamps[d].space \notin {None, target}

\* _embedding_is_stale, for a run that has a target space.
StaleSidecar(d, target) ==
    \/ stamps[d].of # held.manifest[d].text
    \/ ~Parses(d)
    \/ stamps[d].space \notin {None, target}
    \/ stamps[d].inputs # Inputs(PageOf(d))

\* _select_embedding_backfill
Repairs(target) == {d \in Present : HasPage(d) /\ StaleSidecar(d, target)}

\* enforce_reembed_guard, on the pages to embed.
TooMuch(pages) ==
    LET n == Cardinality(DOMAIN pages)
        total == Cardinality(Present)
        tokens(d) == Cardinality(Inputs(pages[d]).sections)
    IN  n > 0 /\ \/ total >= ReembedMin /\ 100 * n > MaxFraction * total
                 \/ SumFunction([d \in DOMAIN pages |-> tokens(d)]) > MaxTokens

\* Sidecars b, with those of the pages by their slugs.
Embedded(b, slug, pages, space) ==
    [s \in DOMAIN b \cup {slug[d] : d \in DOMAIN pages} |->
        IF \E d \in DOMAIN pages : slug[d] = s
        THEN Sidecar(pages[CHOOSE d \in DOMAIN pages : slug[d] = s], space) ELSE b[s]]

\* What run_sync deletes of the sidecars: those of documents that moved or left, unless this
\* run wrote them.
Deserted(m, p, pages, space) ==
    {m[d].slug : d \in Removed(held, p) \cup {e \in DOMAIN pages \cap Present : m[e].slug # p.slug[e]}}
        \ (IF space = None THEN {} ELSE {p.slug[d] : d \in DOMAIN pages})

\* The audit's findings about sidecars: orphans, and missing ones unless all are.
SidecarFindings(c, b) ==
    LET owned == Slugs(c.manifest, Current(c.manifest))
    IN  (DOMAIN b \ owned)
            \cup IF owned \cap DOMAIN b = {} THEN {} ELSE (owned \cap DOMAIN c.tree) \ DOMAIN b

\* The sidecars and stamps of a run with plan p that writes these pages and leaves this corpus;
\* space is None without a key, and allow is --allow-mass-reembed.
Embed(p, pages, corpus, space, allow) ==
    LET m == held.manifest
        repairs == IF space = None THEN <<>> ELSE [d \in Repairs(space) |-> PageOf(d)]
        repaired == Embedded(bins, [d \in Present |-> m[d].slug], repairs, space)
        written == IF space = None THEN repaired ELSE Embedded(repaired, p.slug, pages, space)
    IN  /\ space # None /\ ~allow => ~TooMuch(pages) /\ ~TooMuch(repairs)
        /\ bins' = Restrict(written, DOMAIN written \ Deserted(m, p, pages, space))
        /\ SidecarFindings(corpus, bins') = {}
        /\ stamps' = [d \in Current(corpus.manifest) |->
                         IF d \in DOMAIN pages THEN StampOf(d, pages[d], space)
                         ELSE IF d \in DOMAIN repairs THEN StampOf(d, repairs[d], space)
                         ELSE stamps[d]]
        /\ vouched' = (vouched \cap Current(corpus.manifest)) \ (DOMAIN pages \cup DOMAIN repairs)

\* A run's corpus, if no guard refuses it, the attestation counts it and the audit passes.
RunOn(p) ==
    LET r == Renderer[tools.engine] IN
    /\ ~MassRemoval(held, p)
    /\ \E pages \in {[d \in Written(held, p, r) |-> Page(d, p.seen[d], r)]},
          corpus \in {[manifest |-> NextManifest(held, p, r), tree |-> NextTree(held, p, r)]} :
          /\ Sound(corpus, r)
          /\ held' = corpus
          /\ \E space \in Space \cup {None}, allow \in BOOLEAN :
                /\ space = None => ~allow
                /\ Changed(held, p) \cap (IF space = None THEN Carried(held, p, r)
                                          ELSE Failed(held, p, r)) = {}
                /\ Embed(p, pages, corpus, space, allow)
                /\ last' = space

\* The job of sync.yml, or an operator's, up to its push, with a key or without.
Nightly ==
    /\ \E slug \in {ResolveCollisions(
                       [d \in {e \in Doc : listing.has[e] # Absent} |->
                            BaseSlug[tools.engine][listing.has[d]]], Had(held.manifest))} :
       \E seen \in {[d \in {e \in DOMAIN slug : listing.has[e] \notin Notice} |-> listing.has[d]]} :
          RunOn([slug |-> slug, seen |-> seen])
    /\ UNCHANGED <<listing, tools>>

-----------------------------------------------------------------------------
(* The operator's commands, each committed on a clean clone and pushed.      *)

\* repair-embeddings: a sidecar that has no vector for a section of its page.
Undersized(d) ==
    /\ HasPage(d)
    /\ Inputs(PageOf(d)).sections \ (IF Parses(d) THEN SidecarOf(d).inputs.sections ELSE {}) # {}
RepairEmbeddings ==
    /\ \E d \in Present : Undersized(d)
    /\ stamps' = [d \in Present |->
                     IF Undersized(d) THEN [stamps[d] EXCEPT !.of = None] ELSE stamps[d]]
    /\ last' = None
    /\ UNCHANGED <<listing, tools, held, bins, vouched>>

\* annotate-input-identity: the input hash of each page, on the word of the operator that the
\* sidecar was made of it; every sidecar must parse.
Annotate ==
    /\ \A d \in Present : HasPage(d) /\ Parses(d)
    /\ stamps' = [d \in Present |-> [stamps[d] EXCEPT !.inputs = Inputs(PageOf(d))]]
    /\ vouched' = vouched \cup {d \in Present : stamps'[d] # stamps[d]}
    /\ last' = None
    /\ UNCHANGED <<listing, tools, held, bins>>

\* migrate-lspe-v2: every header carries the space of the record, which it must have.
Cutover ==
    /\ \A d \in Present :
          /\ stamps[d].space # None /\ Parses(d)
          /\ SidecarOf(d).header \in {None, stamps[d].space}
    /\ bins' = [s \in DOMAIN bins |->
                   IF \E d \in Present : held.manifest[d].slug = s
                   THEN LET d == CHOOSE d \in Present : held.manifest[d].slug = s
                        IN  [bins[s] EXCEPT !.header = stamps[d].space]
                   ELSE bins[s]]
    /\ last' = None
    /\ UNCHANGED <<listing, tools, held, stamps, vouched>>

\* lspe_writer_version goes to 2 only after the cutover has landed.
FlipWriter ==
    /\ tools.writer = 1 /\ Present # {} /\ \A d \in Present : Parses(d) /\ SidecarOf(d).header # None
    /\ tools' = [tools EXCEPT !.writer = 2]
    /\ last' = None
    /\ UNCHANGED <<listing, held, bins, stamps, vouched>>

\* Lovdata publishes, changes or withdraws a document.
Publish ==
    /\ listing.edits < MaxEdits
    /\ \E d \in Doc : \E v \in (Version \cup {Absent}) \ {listing.has[d]} :
          listing' = [has |-> [listing.has EXCEPT ![d] = v], edits |-> listing.edits + 1]
    /\ last' = None
    /\ UNCHANGED <<tools, held, bins, stamps, vouched>>

\* An engine release: another renderer, or another way to cut a page into sections.
Release ==
    /\ \/ tools.engine = 1 /\ tools' = [tools EXCEPT !.engine = 2]
       \/ tools.pipeline = 1 /\ tools' = [tools EXCEPT !.pipeline = 2]
    /\ last' = None
    /\ UNCHANGED <<listing, held, bins, stamps, vouched>>

SidecarInit ==
    /\ listing \in [has : FirstListings, edits : {0}]
    /\ tools = [engine |-> 1, pipeline |-> 1, writer |-> 1]
    /\ \E b \in Beginnings : held = b.corpus /\ bins = b.bins /\ stamps = b.stamps
    /\ vouched = {} /\ last = None

SidecarNext ==
    \/ Nightly
    \/ RepairEmbeddings \/ Annotate \/ Cutover \/ FlipWriter \/ Publish \/ Release
SidecarSpec == SidecarInit /\ [][SidecarNext]_sidecarVars

-----------------------------------------------------------------------------
\* _load_embedding_index, of a server whose embedder makes vectors of space s: it asks for the
\* space of the record and for a sidecar that parses, and for no hash.
Indexed(d, s) == stamps[d].space = s /\ Parses(d)

\* Whatever runs had a key and which, and in what order texts, renderers, pipelines and spaces
\* changed, semantic search ranks the text that its page shows, by vectors of the space it
\* embeds the query in; and no header makes it refuse.
SearchIsOfThePage ==
    \A s \in Space, d \in Present :
        Indexed(d, s) =>
            /\ SidecarOf(d).space = s /\ SidecarOf(d).header \in {None, s}
            /\ HasPage(d)
            /\ SidecarOf(d).inputs.text = PageOf(d).text /\ SidecarOf(d).inputs.look = PageOf(d).look

\* A keyed run that reaches origin leaves every current document searchable in its space, by
\* the inputs that its pipeline takes of the page, but for what an operator vouched for.
KeyedRunRepairs ==
    last # None =>
        \A d \in Present \ vouched : Indexed(d, last) /\ SidecarOf(d).inputs = Inputs(PageOf(d))

\* A sidecar, against the stamp of a record and the page: a stamped space is the one of its
\* vectors, and then they are of the page's text and look.
Fits(sidecar, stamp, page) ==
    stamp.space # None =>
        /\ sidecar = [inputs |-> sidecar.inputs, space |-> stamp.space, header |-> sidecar.header]
        /\ sidecar.header \in {None, stamp.space}
        /\ sidecar.inputs.text = page.text /\ sidecar.inputs.look = page.look

\* An input hash that a run stamped is of what it embedded, in the space it stamped with it.
Earned(sidecar, stamp) == stamp.inputs # None => stamp.space # None /\ sidecar.inputs = stamp.inputs

\* What origin starts from is a corpus of either renderer, with such sidecars or none.
ASSUME BeginningsAssumption ==
    \A b \in Beginnings :
        /\ b.corpus \in Published
        /\ DOMAIN b.stamps = Current(b.corpus.manifest)
        /\ \A d \in Current(b.corpus.manifest) :
              LET rec == b.corpus.manifest[d]
                  stamp == b.stamps[d]
              IN  /\ rec.stamp \in {Renderer[1], Renderer[2]}
                  /\ stamp = [of |-> stamp.of, space |-> stamp.space, inputs |-> stamp.inputs]
                  /\ stamp.space \in Space \cup {None}
                  /\ stamp.inputs # None => stamp.space # None
                  /\ rec.slug \in DOMAIN b.bins /\ b.bins[rec.slug] # Corrupt =>
                        /\ Fits(b.bins[rec.slug], stamp, b.corpus.tree[rec.slug])
                        /\ Earned(b.bins[rec.slug], stamp)

\* What search reads is of the page it shows, and a keyed run leaves nothing out of it.
SidecarsAreTrue == SearchIsOfThePage /\ KeyedRunRepairs
==============================================================================
