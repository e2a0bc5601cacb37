--------------------------- MODULE SlugResolution ---------------------------
(***************************************************************************)
(* resolve_collisions asked again and again: any listing against any prior *)
(* manifest, and then the same listing against the manifest it leaves.     *)
(***************************************************************************)
EXTENDS SlugOwnership

CONSTANTS Sibling, Preferred, Owned, Unasked

ASSUME SiblingAssumption ==
    /\ Sibling \subseteq Nat /\ IsFiniteSet(Sibling)
    /\ \A slug \in Preferred \cup Owned : slug \in Seq(Range(slug))

VARIABLES
    asked,    \* the bare slug each listed document prefers
    had,      \* the slug each document of the prior manifest has
    given     \* what ResolveCollisions answers, Unasked until it is asked

slugVars == <<asked, had, given>>

Partial(range) == UNION {[S -> range] : S \in SUBSET Sibling}

\* Any listing against any manifest in which no two records share a slug.
SlugInit ==
    /\ asked \in Partial(Preferred)
    /\ had \in {h \in Partial(Owned) : IsInjective(h)}
    /\ given = Unasked

Resolve ==
    /\ given = Unasked
    /\ given' = ResolveCollisions(asked, had)
    /\ UNCHANGED <<asked, had>>

\* The next sync of the same listing, over the manifest this one leaves: a document that
\* is listed has its new slug, one that is not keeps the record it had.
Republish ==
    /\ given # Unasked
    /\ had' = [d \in DOMAIN had \cup DOMAIN asked |-> IF d \in DOMAIN given THEN given[d] ELSE had[d]]
    /\ given' = ResolveCollisions(asked, had')
    /\ UNCHANGED asked

SlugNext == Resolve \/ Republish
SlugSpec == SlugInit /\ [][SlugNext]_slugVars

-----------------------------------------------------------------------------
\* Two documents never get one file, and none gets a file the prior manifest gives to
\* another document, current or removed: resolve_collisions against a fused history.
OneOwner ==
    given # Unasked =>
        /\ DOMAIN given = DOMAIN asked
        /\ IsInjective(given)
        /\ \A d \in DOMAIN given, e \in DOMAIN had : given[d] = had[e] => d = e

\* A document that still prefers the slug it has keeps it, whoever is listed beside it.
OwnerKeepsItsSlug ==
    given # Unasked =>
        \A d \in DOMAIN asked \cap DOMAIN had : asked[d] = had[d] => given[d] = had[d]

\* What resolve_collisions owes the documents that have files already.
FilesAreOwned == OneOwner /\ OwnerKeepsItsSlug

\* An unchanged listing is renamed at most so often: the sync settles.
Settles == <>[][UNCHANGED given]_slugVars
=============================================================================
