----------------------------- MODULE SyncCorpus -----------------------------
(***************************************************************************)
(* src/lovspor/sync/: the nightly run that brings the corpus repository to *)
(* what upstream lists, and the workflow that audits and pushes it.        *)
(*                                                                         *)
(* A corpus is a manifest and a tree of rendered pages.  It exists three   *)
(* times: published on origin, committed at the local HEAD, and in the     *)
(* worktree.  One dataset is modelled; slugs, removals and ownership are   *)
(* per dataset in the code.  An upstream version stands for the bytes of   *)
(* one XML file, and so for its hash, its title and what it renders to.    *)
(***************************************************************************)
EXTENDS SlugOwnership

CONSTANTS
    Doc,             \* document ids, numbers in their lexical order
    Version,         \* versions of upstream XML
    Notice,          \* the versions that are an error notice instead of a text
    Absent,          \* not listed upstream
    BaseSlug,        \* BaseSlug[e][v]: the bare slug engine e derives from v's title
    Renderer,        \* RENDERER_VERSION of an engine
    Parser,          \* TEMPORAL_PARSER_VERSION of an engine
    Rendering,       \* Rendering[v][r]: what renderer r makes of v, Failure if it cannot
    Failure,
    Published,       \* the corpora origin may start from
    Listings,        \* what upstream may list at the start
    GuardMin,        \* _REMOVAL_GUARD_MIN_DOCS
    MaxRemoval,      \* max_removal_ratio, in percent
    Setups           \* the installations: one checkout that lives on (kept) or a clone per run,
                     \* and git_commit_mode = "single" (single) or a commit per document;
                     \* with bounds on upstream edits (edits) and engine releases (engines)

ASSUME SyncAssumption ==
    /\ Doc \subseteq Nat /\ IsFiniteSet(Doc)
    /\ Notice \subseteq Version /\ Absent \notin Version
    /\ Setups \subseteq [kept : BOOLEAN, single : BOOLEAN, edits : Nat, engines : Nat \ {0}]
    /\ Listings \subseteq [Doc -> Version \cup {Absent}]
    /\ \A s \in Setups : \A e \in 1..s.engines :
          Renderer[e] \in Nat /\ \A v \in Version : BaseSlug[e][v] \in Seq(Range(BaseSlug[e][v]))
    /\ GuardMin \in Nat /\ MaxRemoval \in Nat

VARIABLES
    setup,      \* which installation runs
    upstream,   \* Doc -> Version or Absent
    engine,     \* the engine release installed
    edits,      \* how often upstream changed
    origin,     \* the published corpus and the attestation notes of its commit
    head,       \* the corpus committed in the checkout
    notes,      \* the parser versions HEAD is attested under, in the checkout
    sent,       \* ... and on origin
    ahead,      \* HEAD is not the commit origin has
    work,       \* the corpus in the worktree
    job         \* the run in progress

checkout == <<head, notes, sent, ahead, work>>
vars == <<setup, upstream, engine, edits, origin, checkout, job>>

Step == {"idle", "classify", "commit", "manifest", "attest", "audit", "notes", "push"}
Idle == [step |-> "idle"]

\* A record of the manifest; a tombstone has no renderer stamp.
Current(m) == {d \in DOMAIN m : m[d].status = "current"}
CurrentRecord(slug, v, r) == [status |-> "current", slug |-> slug, text |-> v, stamp |-> r]
\* _tombstone
Tombstone(old) == [status |-> "removed", slug |-> old.slug, text |-> old.text, stamp |-> 0]

Renders(v, r) == Rendering[v][r] # Failure
Page(d, v, r) == [doc |-> d, text |-> v, look |-> Rendering[v][r]]

-----------------------------------------------------------------------------
(* What one run decides: c is the corpus it starts from, p its plan so far, *)
(* which holds what it listed and the slug of each listed document, and r   *)
(* its renderer.                                                            *)

\* detect_changes, _identify_renames and stale_render_changeset; seen leaves the notices out.
New(c, p) == DOMAIN p.seen \ Current(c.manifest)
Removed(c, p) == Current(c.manifest) \ DOMAIN p.seen
Kept(c, p) == Current(c.manifest) \cap DOMAIN p.seen
Changed(c, p) == {d \in Kept(c, p) : p.seen[d] # c.manifest[d].text}
Renamed(c, p) == {d \in Kept(c, p) \ Changed(c, p) : p.slug[d] # c.manifest[d].slug}
Stale(c, p, r) ==
    {d \in Kept(c, p) \ (Changed(c, p) \cup Renamed(c, p)) : c.manifest[d].stamp # r}

\* Mutant: any document the new renderer still renders is taken for unchanged output.
UnchangedIfRendered(c, p, r) == {d \in Stale(c, p, r) : Renders(p.seen[d], r)}

\* _rerender_is_noop: the stale documents whose page would not change.
Unaffected(c, p, r) ==
    {d \in Stale(c, p, r) :
        /\ p.slug[d] \in DOMAIN c.tree
        /\ Renders(p.seen[d], r)
        /\ c.tree[p.slug[d]] = Page(d, p.seen[d], r)}

\* The documents to write, and the ones among them that are written.
Wanted(c, p, r) == New(c, p) \cup Changed(c, p) \cup Renamed(c, p)
                     \cup (Stale(c, p, r) \ Unaffected(c, p, r))
Written(c, p, r) == {d \in Wanted(c, p, r) : Renders(p.seen[d], r)}
Failed(c, p, r) == Wanted(c, p, r) \ (Written(c, p, r) \cup New(c, p))

WrittenSlugs(c, p, r) == {p.slug[d] : d \in Written(c, p, r)}

\* Mutant: nothing protects a page another document has just been written to.
DroppedAll(c, p, r) ==
    {c.manifest[d].slug : d \in (Written(c, p, r) \ New(c, p)) \cup Removed(c, p)}

\* The pages a move or a removal leaves behind, but for those another action wrote.
Dropped(c, p, r) ==
    {c.manifest[d].slug : d \in (Written(c, p, r) \ New(c, p)) \cup Removed(c, p)}
        \ WrittenSlugs(c, p, r)

\* The document a slug in WrittenSlugs was written for.
Writer(c, p, r, s) == CHOOSE d \in Written(c, p, r) : p.slug[d] = s

NextTree(c, p, r) ==
    [s \in (DOMAIN c.tree \cup WrittenSlugs(c, p, r)) \ Dropped(c, p, r) |->
        IF s \in WrittenSlugs(c, p, r)
        THEN LET d == Writer(c, p, r, s) IN Page(d, p.seen[d], r)
        ELSE c.tree[s]]

\* Mutant: a document that failed is carried even where its page was taken over.
CarryAll(c, p, r) == Failed(c, p, r)

\* A document that failed keeps its record unless another took its page.
Carried(c, p, r) == {d \in Failed(c, p, r) : c.manifest[d].slug \notin WrittenSlugs(c, p, r)}

\* _carry_tombstones
Tombstones(c, p) == DOMAIN c.manifest \ (Current(c.manifest) \cup DOMAIN p.seen)

\* _write_one, _tombstone, _noop_rerender_record and the carries: a document's new record.
NextRecord(c, p, r, d) ==
    IF d \in Written(c, p, r) THEN CurrentRecord(p.slug[d], p.seen[d], r)
    ELSE IF d \in Removed(c, p) THEN Tombstone(c.manifest[d])
    ELSE IF d \in Unaffected(c, p, r) THEN [c.manifest[d] EXCEPT !.stamp = r]
    ELSE c.manifest[d]

NextManifest(c, p, r) ==
    LET unchanged == Kept(c, p) \ Wanted(c, p, r)
    IN  [d \in Written(c, p, r) \cup Removed(c, p) \cup unchanged \cup Carried(c, p, r)
              \cup Tombstones(c, p) |-> NextRecord(c, p, r, d)]

-----------------------------------------------------------------------------
(* The commits of one run, each a set of paths. *)

\* The paths of a document's action: where it was and where it is; a removal leaves a page
\* that another action wrote alone.
Paths(c, p, r, d) ==
    IF d \in New(c, p) THEN {p.slug[d]}
    ELSE IF d \in Removed(c, p) THEN {c.manifest[d].slug} \ WrittenSlugs(c, p, r)
    ELSE {c.manifest[d].slug, p.slug[d]}

Acting(c, p, r) == Written(c, p, r) \cup Removed(c, p)

\* _has_rename_path_overlap
Overlap(c, p, r) ==
    \E d \in Acting(c, p, r), e \in Acting(c, p, r) :
        d # e /\ Paths(c, p, r, d) \cap Paths(c, p, r, e) # {}

\* detect_changes sorts what it lists.
InOrder(S) ==
    CHOOSE seq \in [1..Cardinality(S) -> S] : \A i, j \in DOMAIN seq : i < j => seq[i] < seq[j]

\* _commit_with_history: re-rendered documents first, in one commit; then each document by
\* itself, additions first and removals last, or all together with the manifest.
Commits(c, p, r) ==
    LET group(S) == IF S = {} THEN <<>> ELSE << UNION {Paths(c, p, r, d) : d \in S} >>
        alone(S) == [i \in 1..Cardinality(S) |-> Paths(c, p, r, InOrder(S)[i])]
        of(S) == S \cap Written(c, p, r)
        rerendered == of(Stale(c, p, r))
        others == Acting(c, p, r) \ rerendered
    IN  [queue |-> group(rerendered) \o
                   IF setup.single \/ Overlap(c, p, r) THEN <<>>
                   ELSE alone(of(New(c, p))) \o alone(of(Changed(c, p)))
                            \o alone(of(Renamed(c, p))) \o alone(Removed(c, p)),
         last |-> IF setup.single \/ Overlap(c, p, r)
                  THEN UNION {Paths(c, p, r, d) : d \in others} ELSE {}]

\* git add: the worktree's state of these paths over what is committed.
Staged(paths) ==
    [s \in (DOMAIN head.tree \ paths) \cup (DOMAIN work.tree \cap paths) |->
        IF s \in paths THEN work.tree[s] ELSE head.tree[s]]

\* Mutant: a removal larger than the threshold is accepted.
UnguardedRemoval(c, p) == FALSE

\* _guard_mass_removal
MassRemoval(c, p) ==
    LET total == Cardinality(Current(c.manifest))
    IN  total >= GuardMin /\ 100 * Cardinality(Removed(c, p)) > MaxRemoval * total

-----------------------------------------------------------------------------
(* The checkout.  Unless setup.kept it is a clone that lives for one run, *)
(* so that between runs it shows what origin has.                            *)

Clone(o) ==
    /\ head' = o.corpus
    /\ work' = o.corpus
    /\ notes' = o.notes
    /\ sent' = o.notes
    /\ ahead' = FALSE

\* The run ends without a push.
Leave ==
    /\ job' = Idle
    /\ IF setup.kept THEN UNCHANGED checkout ELSE Clone(origin)
    /\ UNCHANGED <<setup, upstream, engine, edits, origin>>

\* What a commit of c does; it makes a HEAD nothing attests.
Commit(c) ==
    IF c = head THEN UNCHANGED <<head, notes, sent, ahead>>
    ELSE head' = c /\ notes' = {} /\ sent' = {} /\ ahead' = TRUE

Init ==
    /\ setup \in Setups
    /\ upstream \in Listings
    /\ engine = 1
    /\ edits = 0
    /\ \E c \in Published :
          /\ origin = [corpus |-> c, notes |-> {Parser[1]}]
          /\ head = c
          /\ work = c
    /\ notes = origin.notes
    /\ sent = origin.notes
    /\ ahead = FALSE
    /\ job = Idle

Listed == {d \in Doc : upstream[d] # Absent}

\* Mutant: tombstones release their slugs.
HadCurrent(m) == [d \in Current(m) |-> m[d].slug]

\* The slugs of every record, current and removed.
Had(m) == [d \in DOMAIN m |-> m[d].slug]

\* _ensure_clean_corpus
Clean == work = head

\* run_sync up to _collect_upstream and _withhold_content_placeholders: every listed document
\* gets a slug, and the notices are then withheld.
Begin ==
    /\ job = Idle
    /\ Clean
    /\ \E slug \in {ResolveCollisions([d \in Listed |-> BaseSlug[engine][upstream[d]]],
                                       Had(work.manifest))} :
          job' = [step |-> "classify", slug |-> slug,
                  seen |-> [d \in {x \in Listed : upstream[x] \notin Notice} |-> upstream[d]]]
    /\ UNCHANGED <<setup, upstream, engine, edits, origin, checkout>>

Refuse ==
    /\ job.step = "classify"
    /\ MassRemoval(work, job)
    /\ Leave

\* The writes and deletes, and the records and commits they call for.
Write ==
    /\ job.step = "classify"
    /\ ~MassRemoval(work, job)
    /\ \E records \in {NextManifest(work, job, Renderer[engine])},
          commits \in {Commits(work, job, Renderer[engine])} :
          job' = [step |-> IF records = work.manifest /\ Acting(work, job, Renderer[engine]) = {}
                           THEN "attest" ELSE "commit",
                  seen |-> job.seen, records |-> records,
                  queue |-> commits.queue, last |-> commits.last]
    /\ work' = [work EXCEPT !.tree = NextTree(work, job, Renderer[engine])]
    /\ UNCHANGED <<setup, upstream, engine, edits, origin, head, notes, sent, ahead>>

\* One commit of documents.
CommitPaths ==
    /\ job.step = "commit" /\ job.queue # <<>>
    /\ Commit([head EXCEPT !.tree = Staged(Head(job.queue))])
    /\ job' = [job EXCEPT !.queue = Tail(@)]
    /\ UNCHANGED <<setup, upstream, engine, edits, origin, work>>

WriteManifest ==
    /\ job.step = "commit" /\ job.queue = <<>>
    /\ work' = [work EXCEPT !.manifest = job.records]
    /\ job' = [job EXCEPT !.step = "manifest"]
    /\ UNCHANGED <<setup, upstream, engine, edits, origin, head, notes, sent, ahead>>

\* Its generated_at makes the manifest differ, so there is always something to commit.
CommitManifest ==
    /\ job.step = "manifest"
    /\ head' = [manifest |-> work.manifest, tree |-> Staged(job.last)]
    /\ notes' = {} /\ sent' = {} /\ ahead' = TRUE
    /\ job' = [job EXCEPT !.step = "attest"]
    /\ UNCHANGED <<setup, upstream, engine, edits, origin, work>>

\* _attest_temporal_conformance: the preconditions of counting a record against its source.
Conforms(records, seen) ==
    \A d \in Current(records) :
        /\ d \in DOMAIN seen
        /\ seen[d] = records[d].text
        /\ records[d].slug \in DOMAIN work.tree

\* _ensure_head_attested
Attest ==
    /\ job.step = "attest"
    /\ Parser[engine] \in notes \/ Conforms(job.records, job.seen)
    /\ notes' = notes \cup {Parser[engine]}
    /\ job' = [step |-> "audit"]
    /\ UNCHANGED <<setup, upstream, engine, edits, origin, head, sent, ahead, work>>

NotAttested ==
    /\ job.step = "attest"
    /\ Parser[engine] \notin notes /\ ~Conforms(job.records, job.seen)
    /\ Leave

\* audit_corpus: where a corpus contradicts itself, and which pages an old renderer made.
Slugs(m, S) == {m[d].slug : d \in S}
Contradictions(c) ==
    LET m == c.manifest
        pages == DOMAIN c.tree
        current == Current(m)
    IN  {x \in {<<"duplicate_path_ownership", d>> : d \in DOMAIN m} :
            \E e \in DOMAIN m \ {x[2]} : m[e].slug = m[x[2]].slug}
        \cup {<<"identity_mismatch", d>> : d \in
                {e \in current : m[e].slug \in pages /\ c.tree[m[e].slug].doc # e}}
        \cup {<<"missing_document", d>> : d \in {e \in current : m[e].slug \notin pages}}
        \cup {<<"tombstoned_but_present", d>> : d \in
                {e \in DOMAIN m \ current : m[e].slug \in pages \ Slugs(m, current)}}
        \cup {<<"orphan_document", s>> : s \in pages \ Slugs(m, DOMAIN m)}
OldRenders(m, r) == {d \in Current(m) : m[d].stamp < r}

Sound(c, r) == Contradictions(c) = {} /\ OldRenders(c.manifest, r) = {}

AuditPasses ==
    /\ job.step = "audit"
    /\ Sound(work, Renderer[engine])
    /\ job' = [step |-> "notes"]
    /\ UNCHANGED <<setup, upstream, engine, edits, origin, checkout>>

AuditFails ==
    /\ job.step = "audit"
    /\ ~Sound(work, Renderer[engine])
    /\ Leave

\* Mutant: the branch is pushed without the notes.
PushNoNotes ==
    /\ job.step = "notes"
    /\ job' = [step |-> "push"]
    /\ UNCHANGED <<setup, upstream, engine, edits, origin, checkout>>

\* The notes go first, and whether or not main is ahead.
PushNotes ==
    /\ job.step = "notes"
    /\ sent' = notes
    /\ origin' = IF ahead THEN origin ELSE [origin EXCEPT !.notes = notes]
    /\ job' = [step |-> "push"]
    /\ UNCHANGED <<setup, upstream, engine, edits, head, notes, ahead, work>>

PushMain ==
    /\ job.step = "push"
    /\ origin' = IF ahead THEN [corpus |-> head, notes |-> sent] ELSE origin
    /\ ahead' = FALSE
    /\ job' = Idle
    /\ UNCHANGED <<setup, upstream, engine, edits, head, notes, sent, work>>

\* The operator's git reset --hard and git clean over what a killed run left.
Reset ==
    /\ setup.kept /\ job = Idle
    /\ work # head
    /\ work' = head
    /\ UNCHANGED <<setup, upstream, engine, edits, origin, head, notes, sent, ahead, job>>

\* Lovdata publishes, changes, withdraws or breaks a document.
Edit ==
    /\ edits < setup.edits
    /\ \E d \in Doc : \E v \in (Version \cup {Absent}) \ {upstream[d]} :
          upstream' = [upstream EXCEPT ![d] = v]
    /\ edits' = edits + 1
    /\ UNCHANGED <<setup, engine, origin, checkout, job>>

\* A new engine release, between runs.
Upgrade ==
    /\ engine < setup.engines /\ job = Idle
    /\ engine' = engine + 1
    /\ UNCHANGED <<setup, upstream, edits, origin, checkout, job>>

\* The run is killed, or its git, its download or its renderer fails, between two steps.
Crash == job # Idle /\ Leave

Run == Begin \/ Refuse \/ Write \/ CommitPaths \/ WriteManifest \/ CommitManifest \/ Attest
         \/ NotAttested \/ AuditPasses \/ AuditFails \/ PushNotes \/ PushMain \/ Reset
Next == Run \/ Edit \/ Upgrade \/ Crash

Spec == Init /\ [][Next]_vars
\* The schedule starts a run every night, and the runner carries it on.
FairSpec == Spec /\ WF_vars(Run)

-----------------------------------------------------------------------------
\* Whatever was listed, failed, moved or was taken over, a run leaves the audit before the
\* push no contradiction of manifest and pages that origin has not already, and no page behind
\* the renderer but of a document whose text this renderer fails on.
AuditFindsNothingNew ==
    job.step = "attest" =>
        /\ Contradictions(work) \subseteq Contradictions(origin.corpus)
        /\ \A d \in OldRenders(work.manifest, Renderer[engine]) :
                d \in DOMAIN job.seen /\ ~Renders(job.seen[d], Renderer[engine])

\* What the manifest says of a page is what is in it: its document, its source and the
\* renderer that would make the same of it.  Neither the audit nor the change detector
\* compares this.
PageIsWhatItsRecordSays(c) ==
    \A d \in Current(c.manifest) :
        LET rec == c.manifest[d] IN
        rec.slug \in DOMAIN c.tree /\ c.tree[rec.slug] = Page(d, rec.text, rec.stamp)
PublishedPagesAreTrue == PageIsWhatItsRecordSays(origin.corpus)

\* What a tombstone has left is gone, unless a current document has it.
NothingIsLeft(c) ==
    \A d \in DOMAIN c.manifest \ Current(c.manifest) :
        c.manifest[d].slug \in DOMAIN c.tree => c.manifest[d].slug \in Slugs(c.manifest, Current(c.manifest))

\* What origin starts from is such a corpus, of the documents there are.
ASSUME PublishedAssumption ==
    \A c \in Published :
        /\ c = [manifest |-> c.manifest, tree |-> [s \in DOMAIN c.tree |-> c.tree[s]]]
        /\ DOMAIN c.manifest \subseteq Doc
        /\ \A d \in DOMAIN c.manifest :
              c.manifest[d] \in [status : {"current", "removed"}, text : Version, stamp : Nat,
                                slug : Seq(Range(c.manifest[d].slug))]
        /\ PageIsWhatItsRecordSays(c) /\ NothingIsLeft(c)

\* No reader of origin sees a commit the gate ran on without the note that attests it.
PushedIsAttested ==
    [][origin'.corpus # origin.corpus => Parser[engine] \in origin'.notes]_vars

\* No push passes a slug from one document to another, tombstones included, unless the two
\* shared it already; and, however often runs are killed, none removes more of a corpus than
\* the guard allows.
HandsNothingOver(was, is) ==
    \A d \in DOMAIN was, e \in DOMAIN is :
        was[d].slug = is[e].slug => d = e \/ (e \in DOMAIN was /\ was[e].slug = was[d].slug)
WipesNothing(was, is) ==
    Cardinality(was) >= GuardMin => 100 * Cardinality(was \ is) <= MaxRemoval * Cardinality(was)
PushesDoNoHarm ==
    [][LET was == origin.corpus.manifest
           is == origin'.corpus.manifest
       IN  HandsNothingOver(was, is) /\ WipesNothing(Current(was), Current(is))]_vars

\* Origin shows upstream: every listed text at its version, made by this renderer, and
\* nothing else current; and this parser attests it.
Shown == {d \in Listed : upstream[d] \notin Notice}
AllRender == \A d \in Shown : Renders(upstream[d], Renderer[engine])
Mirrors ==
    LET m == origin.corpus.manifest IN
    /\ Current(m) = Shown
    /\ \A d \in Shown : m[d].text = upstream[d] /\ m[d].stamp = Renderer[engine]
    /\ Parser[engine] \in origin.notes

\* Once the faults end and every listed text renders, origin comes to show upstream.
Converges == (<>[][Run]_vars /\ <>[]AllRender) => <>[]Mirrors

\* git_commit.add: what a killed run leaves in a checkout heals in the passes that follow.
ResidueHeals == <>[][Run]_vars => <>[](Contradictions(head) = {})
=============================================================================
