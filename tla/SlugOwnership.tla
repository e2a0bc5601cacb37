--------------------------- MODULE SlugOwnership ---------------------------
(***************************************************************************)
(* src/lovspor/rendering/slug.py: how the documents one upstream listing   *)
(* holds are given their file names, against the slugs the prior manifest  *)
(* already gives to documents.  A slug is its base followed by the         *)
(* suffixes appended to it; document ids are numbers in their lexical      *)
(* order.                                                                  *)
(***************************************************************************)
EXTENDS Integers, FiniteSets, SequencesExt, Functions

CONSTANT RefDate   \* the <<year, full date>> a document id embeds

Bare(title) == << <<title, 0>> >>
Numbered(slug, n) == IF n = 1 THEN slug ELSE Append(slug, <<"-", n>>)

\* _identity_candidates: the suffixes that come from the document's identity.
IdentityCandidates(slug, d) ==
    << Append(slug, <<"year", RefDate[d][1]>>), Append(slug, <<"date", RefDate[d][2]>>),
       Append(slug, <<"id", d>>) >>

\* _prior_slug_ownership: had gives every record's slug, of current and removed documents;
\* where two agree the smallest id owns it.
Owners(had, slug) == {d \in DOMAIN had : had[d] = slug}
Owns(had, slug, d) == d \in Owners(had, slug) /\ \A e \in Owners(had, slug) : d <= e
FreeFor(had, slug, d) == Owners(had, slug) = {} \/ Owns(had, slug, d)

\* The preferred slug, the document's own, then the ones derived from its identity.
ClaimSlug(preferred, d, had) ==
    LET own == IF d \in DOMAIN had THEN <<had[d]>> ELSE <<>>
        candidates == <<preferred>> \o own \o IdentityCandidates(preferred, d)
        free(i) == FreeFor(had, candidates[i], d)
    IN  IF \E i \in DOMAIN candidates : free(i)
        THEN candidates[CHOOSE i \in DOMAIN candidates : free(i) /\ \A j \in 1..(i - 1) : ~free(j)]
        ELSE Last(candidates)

\* The order documents are served in: owners of what they claim go first, so that no
\* sibling numbers them away.
Before(d, e, claimed, had) ==
    LET owns(x) == Owns(had, claimed[x], x)
    IN  IF owns(d) = owns(e) THEN d < e ELSE owns(d)

\* Mutant: a number may make a slug that another document claims by itself.
FirstUntaken(slug, d, taken, claimed, had) ==
    CHOOSE s \in {Numbered(slug, n) : n \in 1..Cardinality(taken) + 1} : s \notin taken

\* Mutant: a document's own slug is taken like any other.
FirstUnowned(slug, d, taken, claimed, had) ==
    LET free(n) == Numbered(slug, n) \notin taken /\ Owners(had, Numbered(slug, n)) = {}
        bound == 2 * Cardinality(DOMAIN claimed) + Cardinality(DOMAIN had) + 1
    IN  Numbered(slug, CHOOSE n \in 1..bound : free(n) /\ \A m \in 1..(n - 1) : ~free(m))

\* The least number that makes a slug nobody has been given, claims by itself, or owns.
FirstFree(slug, d, taken, claimed, had) ==
    LET free(n) == LET s == Numbered(slug, n) IN
                   /\ s \notin taken
                   /\ n = 1 \/ \A e \in DOMAIN claimed : claimed[e] # s
                   /\ FreeFor(had, s, d)
        bound == 2 * Cardinality(DOMAIN claimed) + Cardinality(DOMAIN had) + 1
    IN  Numbered(slug, CHOOSE n \in 1..bound : free(n) /\ \A m \in 1..(n - 1) : ~free(m))

\* The slug of every listed document.
ResolveCollisions(preferred, had) ==
    LET claimed == [d \in DOMAIN preferred |-> ClaimSlug(preferred[d], d, had)]
        slug[d \in DOMAIN preferred] ==
            FirstFree(claimed[d], d,
                      {slug[e] : e \in {x \in DOMAIN preferred : Before(x, d, claimed, had)}},
                      claimed, had)
    IN  slug
=============================================================================
