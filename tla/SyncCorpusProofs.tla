-------------------------- MODULE SyncCorpusProofs --------------------------
(***************************************************************************)
(* Proofs about the naming of documents and about the nightly run, for any *)
(* documents, versions, renderers, histories and listings.                 *)
(*                                                                         *)
(* The library's induction theorems cannot be instantiated here; what is   *)
(* said of finite sets rests on MinimalSubset instead: a family of subsets *)
(* of a finite set has a least one.                                        *)
(***************************************************************************)
EXTENDS EmbeddingSidecars, SlugResolution, FiniteSetTheorems, TLAPS

-----------------------------------------------------------------------------
(* Finite sets *)

LEMMA MinimalSubset ==
    ASSUME NEW S, IsFiniteSet(S), NEW T \in SUBSET SUBSET S, T # {}
    PROVE  \E x \in T : \A y \in T : y \subseteq x => y = x
<1> DEFINE R == StrictSubsetOrdering(S)
           U == SUBSET S
<1>1. IsWellFoundedOn(R, U) /\ T \subseteq U
  BY FS_StrictSubsetOrderingWellFounded, FS_FiniteSubsetsOfFinite
<1> HIDE DEF R, U
<1>2. PICK x \in T : \A y \in T : <<y, x>> \notin R
  BY <1>1, WFMin
<1> QED
  BY <1>2 DEF StrictSubsetOrdering, R

LEMMA LeastNumber ==
    ASSUME NEW n \in Nat, NEW A \in SUBSET (1..n), A # {}
    PROVE  \E k \in A : \A m \in 1..(k - 1) : m \notin A
<1> DEFINE T == {1..k : k \in A}
           N == 1..n
<1>1. T \in SUBSET SUBSET N /\ T # {}
  <2>1. \A k \in A : 1..k \subseteq N /\ 1..k \in T
    OBVIOUS
  <2>2. \A y \in T : \E k \in A : y = 1..k
    OBVIOUS
  <2> HIDE DEF T, N
  <2> QED
    BY <2>1, <2>2
<1>2. IsFiniteSet(N)
  BY FS_Interval
<1> HIDE DEF T, N
<1>3. PICK x \in T : \A y \in T : y \subseteq x => y = x
  BY <1>1, <1>2, MinimalSubset
<1>4. PICK k \in A : x = 1..k
  BY <1>3 DEF T
<1>5. ASSUME NEW m \in 1..(k - 1), m \in A
      PROVE  FALSE
  <2>1. 1..m \in T /\ 1..m \subseteq 1..k /\ k \in 1..k /\ k \notin 1..m
    BY <1>5 DEF T
  <2> QED
    BY <1>3, <1>4, <2>1
<1> QED
  BY <1>5

\* A finite set with an order has an element that nothing comes after.
LEMMA LastElement ==
    ASSUME NEW X, IsFiniteSet(X), X # {}, NEW R,
           \A a \in X : <<a, a>> \notin R,
           \A a, b, c \in X : <<a, b>> \in R /\ <<b, c>> \in R => <<a, c>> \in R
    PROVE  \E m \in X : \A y \in X : <<m, y>> \notin R
<1> DEFINE After(a) == {y \in X : <<a, y>> \in R}
           T == {After(a) : a \in X}
<1>1. T \in SUBSET SUBSET X /\ T # {}
  <2>1. \A a \in X : After(a) \in T
    OBVIOUS
  <2>2. \A y \in T : y \subseteq X
    OBVIOUS
  <2> HIDE DEF T
  <2> QED
    BY <2>1, <2>2
<1> HIDE DEF T
<1>2. PICK x \in T : \A y \in T : y \subseteq x => y = x
  BY <1>1, MinimalSubset
<1>3. PICK m \in X : x = After(m)
  BY <1>2 DEF T
<1>4. ASSUME NEW y \in X, <<m, y>> \in R
      PROVE  FALSE
  <2>1. After(y) \in T /\ After(y) \subseteq After(m) /\ y \in After(m) /\ y \notin After(y)
    BY <1>4 DEF T
  <2> QED
    BY <1>2, <1>3, <2>1
<1> QED
  BY <1>4

LEMMA ImageSize ==
    ASSUME NEW f, NEW S, IsFiniteSet(S)
    PROVE  LET I == {f[x] : x \in S} IN
           IsFiniteSet(I) /\ Cardinality(I) \in Nat /\ Cardinality(I) <= Cardinality(S)
<1> DEFINE I == {f[x] : x \in S}
           g == [x \in S |-> f[x]]
<1>1. g \in Surjection(S, I)
  BY DEF Surjection
<1> HIDE DEF g, I
<1>2. IsFiniteSet(I) /\ Cardinality(I) <= Cardinality(S)
  BY <1>1, FS_Surjection
<1>3. Cardinality(I) \in Nat
  BY <1>2, FS_CardinalityType
<1> QED
  BY <1>2, <1>3 DEF I

LEMMA UnionSize ==
    ASSUME NEW S, NEW T, IsFiniteSet(S), IsFiniteSet(T)
    PROVE  /\ IsFiniteSet(S \cup T) /\ Cardinality(S \cup T) \in Nat
           /\ Cardinality(S \cup T) <= Cardinality(S) + Cardinality(T)
<1>1. IsFiniteSet(S \cup T) /\ IsFiniteSet(S \cap T)
      /\ Cardinality(S \cup T) = Cardinality(S) + Cardinality(T) - Cardinality(S \cap T)
  BY FS_Union, FS_Intersection
<1>2. Cardinality(S) \in Nat /\ Cardinality(T) \in Nat /\ Cardinality(S \cap T) \in Nat
      /\ Cardinality(S \cup T) \in Nat
  BY <1>1, FS_CardinalityType
<1> QED
  BY <1>1, <1>2

-----------------------------------------------------------------------------
(* resolve_collisions *)

Sequence(s) == \E S : s \in Seq(S)

\* What is asked of it: documents that are numbers, and slugs that are sequences.
Asking(f) == IsFiniteSet(DOMAIN f) /\ DOMAIN f \subseteq Nat /\ \A d \in DOMAIN f : Sequence(f[d])

Claims(preferred, h) == [d \in DOMAIN preferred |-> ClaimSlug(preferred[d], d, h)]

\* f serves the documents of X, each after those before it.
Serves(f, X, claimed, h) ==
    f = [d \in X |-> FirstFree(claimed[d], d,
                               {f[e] : e \in {x \in DOMAIN claimed : Before(x, d, claimed, h)}},
                               claimed, h)]

LEMMA ServingOrder ==
    ASSUME NEW claimed, NEW h, DOMAIN claimed \subseteq Nat
    PROVE  /\ \A d \in DOMAIN claimed : ~Before(d, d, claimed, h)
           /\ \A d, e \in DOMAIN claimed : d = e \/ Before(d, e, claimed, h) \/ Before(e, d, claimed, h)
           /\ \A d, e, f \in DOMAIN claimed :
                Before(d, e, claimed, h) /\ Before(e, f, claimed, h) => Before(d, f, claimed, h)
<1> DEFINE owns(x) == Owns(h, claimed[x], x)
<1>1. \A x : owns(x) \in BOOLEAN
  BY DEF Owns
<1>2. ASSUME NEW d, NEW e
      PROVE  /\ owns(d) /\ ~owns(e) => Before(d, e, claimed, h)
             /\ ~owns(d) /\ owns(e) => ~Before(d, e, claimed, h)
             /\ (owns(d) <=> owns(e)) => (Before(d, e, claimed, h) <=> d < e)
  <2>1. Before(d, e, claimed, h) = IF owns(d) = owns(e) THEN d < e ELSE owns(d)
    BY DEF Before
  <2> HIDE DEF owns
  <2> QED
    BY <1>1, <2>1
<1> HIDE DEF owns
<1>3. \A d \in DOMAIN claimed : ~Before(d, d, claimed, h)
  BY <1>2
<1>4. \A d, e \in DOMAIN claimed : d = e \/ Before(d, e, claimed, h) \/ Before(e, d, claimed, h)
  BY <1>2
<1>5. ASSUME NEW d \in DOMAIN claimed, NEW e \in DOMAIN claimed, NEW f \in DOMAIN claimed,
             Before(d, e, claimed, h), Before(e, f, claimed, h)
      PROVE  Before(d, f, claimed, h)
  <2>1. d \in Nat /\ e \in Nat /\ f \in Nat
    OBVIOUS
  <2> QED
    BY <1>2, <1>5, <2>1
<1> QED
  BY <1>3, <1>4, <1>5

LEMMA ResolvedIsServed ==
    ASSUME NEW preferred, NEW h, \E f : Serves(f, DOMAIN preferred, Claims(preferred, h), h)
    PROVE  Serves(ResolveCollisions(preferred, h), DOMAIN preferred, Claims(preferred, h), h)
<1>1. ResolveCollisions(preferred, h)
        = CHOOSE f : Serves(f, DOMAIN preferred, Claims(preferred, h), h)
  BY DEF ResolveCollisions, Serves, Claims
<1> QED
  BY <1>1

\* Serving can be done: were there a first part of the documents that it cannot, there would be
\* a smallest one, and the last document of that can be served after the others.
LEMMA ServingExists ==
    ASSUME NEW claimed, NEW h, IsFiniteSet(DOMAIN claimed), DOMAIN claimed \subseteq Nat
    PROVE  \E f : Serves(f, DOMAIN claimed, claimed, h)
<1> DEFINE D == DOMAIN claimed
           Ahead(d) == {x \in DOMAIN claimed : Before(x, d, claimed, h)}
           Turn(d, f) == FirstFree(claimed[d], d, {f[e] : e \in Ahead(d)}, claimed, h)
           Closed(X) == \A d \in X : Ahead(d) \subseteq X
           T == {X \in SUBSET D : Closed(X) /\ ~\E f : Serves(f, X, claimed, h)}
           R == {p \in D \X D : Before(p[1], p[2], claimed, h)}
<1>1. \A X, f : Serves(f, X, claimed, h) <=> f = [d \in X |-> Turn(d, f)]
  BY DEF Serves
<1>2. /\ \A d \in D : d \notin Ahead(d)
      /\ \A d, e, f \in D : d \in Ahead(e) /\ e \in Ahead(f) => d \in Ahead(f)
  BY ServingOrder
<1>3. \A d, e \in D : <<d, e>> \in R <=> d \in Ahead(e)
  OBVIOUS
<1>4. T \in SUBSET SUBSET D
  OBVIOUS
<1>5. \A d : Ahead(d) \subseteq D
  OBVIOUS
<1> SUFFICES ASSUME T # {}
             PROVE  FALSE
  <2>1. D \in SUBSET D /\ Closed(D)
    BY <1>5
  <2> QED
    BY <2>1
<1>6. \A X : X \in T <=> X \in SUBSET D /\ Closed(X) /\ ~\E f : Serves(f, X, claimed, h)
  OBVIOUS
<1> HIDE DEF T, R, D, Turn
<1>7. IsFiniteSet(D)
  BY DEF D
<1>8. PICK X \in T : \A Y \in T : Y \subseteq X => Y = X
  BY <1>4, <1>7, MinimalSubset
<1>9. X \subseteq D /\ Closed(X)
  BY <1>6, <1>8
<1>10. X # {}
  <2>1. ASSUME X = {}
        PROVE  \E f : f = [d \in X |-> Turn(d, f)]
    <3> WITNESS [d \in {} |-> d]
    <3> QED
      BY <2>1
  <2> QED
    BY <1>1, <1>6, <1>8, <2>1
<1>11. PICK m \in X : \A y \in X : <<m, y>> \notin R
  <2>1. /\ \A a \in X : <<a, a>> \notin R
        /\ \A a, b, c \in X : <<a, b>> \in R /\ <<b, c>> \in R => <<a, c>> \in R
    <3> HIDE DEF Ahead
    <3> QED
      BY <1>2, <1>3, <1>9
  <2>2. IsFiniteSet(X)
    BY <1>7, <1>9, FS_Subset
  <2> QED
    BY <1>10, <2>1, <2>2, LastElement
<1> DEFINE Y == X \ {m}
<1> HIDE DEF Ahead
<1>12. \A d \in X : m \notin Ahead(d) /\ Ahead(d) \subseteq Y
  BY <1>2, <1>3, <1>9, <1>11
<1>13. Closed(Y) /\ Y \subseteq D /\ Y # X
  BY <1>9, <1>12
<1>14. PICK g : g = [d \in Y |-> Turn(d, g)]
  <2>1. Y \notin T
    BY <1>8, <1>13
  <2> HIDE DEF Closed
  <2> QED
    BY <1>1, <1>6, <1>13, <2>1
<1> DEFINE f == [d \in X |-> IF d = m THEN Turn(m, g) ELSE g[d]]
<1>15. \A e \in Y : f[e] = g[e]
  OBVIOUS
<1>16. f[m] = Turn(m, g)
  OBVIOUS
<1>17. f = [d \in X |-> f[d]]
  OBVIOUS
<1> HIDE DEF f
<1>18. ASSUME NEW d \in X
       PROVE  f[d] = Turn(d, f)
  <2>1. {f[e] : e \in Ahead(d)} = {g[e] : e \in Ahead(d)}
    BY <1>12, <1>15
  <2>2. Turn(d, f) = Turn(d, g)
    BY <2>1 DEF Turn
  <2>3. CASE d = m
    BY <1>16, <2>2, <2>3
  <2>4. CASE d # m
    <3>1. f[d] = g[d] /\ d \in Y
      BY <1>15, <2>4
    <3>2. g[d] = Turn(d, g)
      BY <1>14, <3>1
    <3> QED
      BY <2>2, <3>1, <3>2
  <2> QED
    BY <2>3, <2>4
<1>19. f = [d \in X |-> Turn(d, f)]
  BY <1>17, <1>18
<1> QED
  BY <1>1, <1>6, <1>8, <1>19

LEMMA Longer ==
    ASSUME NEW s, Sequence(s), NEW x
    PROVE  Sequence(Append(s, x)) /\ Len(Append(s, x)) = Len(s) + 1 /\ Len(s) \in Nat
           /\ Append(s, x)[Len(s) + 1] = x
<1>1. PICK S : s \in Seq(S)
  BY DEF Sequence
<1> DEFINE T == S \cup {x}
<1>2. s \in Seq(T)
  BY <1>1
<1>3. x \in T
  OBVIOUS
<1> HIDE DEF T
<1>4. Append(s, x) \in Seq(T) /\ Len(Append(s, x)) = Len(s) + 1 /\ Len(s) \in Nat
      /\ Append(s, x)[Len(s) + 1] = x
  BY <1>2, <1>3
<1> QED
  BY <1>4 DEF Sequence

LEMMA NumberedApart ==
    ASSUME NEW s, Sequence(s)
    PROVE  /\ \A n \in Nat \ {0} : Sequence(Numbered(s, n))
           /\ \A m, n \in Nat \ {0} : Numbered(s, m) = Numbered(s, n) => m = n
<1>1. \A n \in Nat \ {0} : n # 1 =>
        /\ Sequence(Append(s, <<"-", n>>)) /\ Len(Append(s, <<"-", n>>)) = Len(s) + 1
        /\ Len(s) \in Nat /\ Append(s, <<"-", n>>)[Len(s) + 1] = <<"-", n>>
  BY Longer
<1>2. \A n \in Nat \ {0} : Sequence(Numbered(s, n))
  BY <1>1 DEF Numbered
<1>3. ASSUME NEW m \in Nat \ {0}, NEW n \in Nat \ {0}, Numbered(s, m) = Numbered(s, n)
      PROVE  m = n
  <2>1. CASE m = 1 /\ n # 1
    BY <1>1, <1>3, <2>1 DEF Numbered
  <2>2. CASE m # 1 /\ n = 1
    BY <1>1, <1>3, <2>2 DEF Numbered
  <2>3. CASE m # 1 /\ n # 1
    <3>1. <<"-", m>> = <<"-", n>>
      BY <1>1, <1>3, <2>3 DEF Numbered
    <3> QED
      BY <3>1
  <2> QED
    BY <2>1, <2>2, <2>3
<1> QED
  BY <1>2, <1>3

\* There is a free number within the bound: each slug that is taken, claimed or had rules out
\* one number at most.
LEMMA FirstFreeIsFree ==
    ASSUME NEW claimed, NEW h, Asking(claimed), Asking(h), NEW d \in DOMAIN claimed,
           NEW taken, IsFiniteSet(taken), Cardinality(taken) <= Cardinality(DOMAIN claimed)
    PROVE  LET s == FirstFree(claimed[d], d, taken, claimed, h) IN
           /\ s \notin taken /\ FreeFor(h, s, d) /\ Sequence(s)
           /\ claimed[d] \notin taken /\ FreeFor(h, claimed[d], d) => s = claimed[d]
<1> DEFINE slug == claimed[d]
           number(n) == Numbered(slug, n)
           free(n) == /\ number(n) \notin taken
                      /\ n = 1 \/ \A e \in DOMAIN claimed : claimed[e] # number(n)
                      /\ FreeFor(h, number(n), d)
           bound == 2 * Cardinality(DOMAIN claimed) + Cardinality(DOMAIN h) + 1
           claims == {claimed[e] : e \in DOMAIN claimed}
           had_ == {h[e] : e \in DOMAIN h}
           barred == taken \cup claims \cup had_
           n == CHOOSE n \in 1..bound : free(n) /\ \A m \in 1..(n - 1) : ~free(m)
<1>1. FirstFree(slug, d, taken, claimed, h) = number(n)
  BY DEF FirstFree
<1>2. \A k : number(k) \notin barred => free(k)
  BY DEF FreeFor, Owners
<1>3. free(1) <=> slug \notin taken /\ FreeFor(h, slug, d)
  BY DEF Numbered
<1>4. number(1) = slug
  BY DEF Numbered
<1>5. \A k : free(k) => number(k) \notin taken /\ FreeFor(h, number(k), d)
  OBVIOUS
<1>6. Sequence(slug)
  BY DEF Asking
<1>7. /\ \A k \in Nat \ {0} : Sequence(number(k))
      /\ \A k, l \in Nat \ {0} : number(k) = number(l) => k = l
  BY <1>6, NumberedApart
<1>8. IsFiniteSet(barred) /\ bound \in Nat /\ Cardinality(barred) < bound /\ Cardinality(barred) \in Nat
  <2>1. IsFiniteSet(DOMAIN claimed) /\ IsFiniteSet(DOMAIN h)
    BY DEF Asking
  <2>2. /\ Cardinality(DOMAIN claimed) \in Nat /\ Cardinality(DOMAIN h) \in Nat
        /\ Cardinality(taken) \in Nat
    BY <2>1, FS_CardinalityType
  <2>3. /\ IsFiniteSet(claims) /\ Cardinality(claims) \in Nat
        /\ Cardinality(claims) <= Cardinality(DOMAIN claimed)
    BY <2>1, ImageSize
  <2>4. IsFiniteSet(had_) /\ Cardinality(had_) \in Nat /\ Cardinality(had_) <= Cardinality(DOMAIN h)
    BY <2>1, ImageSize
  <2> HIDE DEF claims, had_
  <2>5. /\ IsFiniteSet(taken \cup claims) /\ Cardinality(taken \cup claims) \in Nat
        /\ Cardinality(taken \cup claims) <= Cardinality(taken) + Cardinality(claims)
    BY <2>3, UnionSize
  <2>6. /\ IsFiniteSet(barred) /\ Cardinality(barred) \in Nat
        /\ Cardinality(barred) <= Cardinality(taken \cup claims) + Cardinality(had_)
    BY <2>4, <2>5, UnionSize
  <2> HIDE DEF barred
  <2> QED
    BY <2>2, <2>3, <2>4, <2>5, <2>6
<1> HIDE DEF number, free, bound, barred, slug
<1>9. \E k \in 1..bound : free(k)
  <2> SUFFICES ASSUME \A k \in 1..bound : ~free(k)
               PROVE  FALSE
    OBVIOUS
  <2> DEFINE f == [k \in 1..bound |-> number(k)]
             K == 1..bound
  <2>1. f \in [K -> barred]
    BY <1>2
  <2>2. IsFiniteSet(K) /\ Cardinality(K) = bound
    BY <1>8, FS_Interval
  <2>3. \A k \in K : f[k] = number(k) /\ k \in Nat \ {0}
    BY <1>8
  <2> HIDE DEF f, K
  <2>4. PICK k \in K, l \in K : k # l /\ f[k] = f[l]
    BY <1>8, <2>1, <2>2, FS_PigeonHole
  <2> QED
    BY <1>7, <2>3, <2>4
<1>10. \E k \in 1..bound : free(k) /\ \A m \in 1..(k - 1) : ~free(m)
  <2> DEFINE A == {k \in 1..bound : free(k)}
  <2>1. A \in SUBSET (1..bound) /\ A # {}
    BY <1>9
  <2>2. \A k : k \in A <=> k \in 1..bound /\ free(k)
    OBVIOUS
  <2> HIDE DEF A
  <2>3. PICK k \in A : \A m \in 1..(k - 1) : m \notin A
    BY <1>8, <2>1, LeastNumber
  <2>4. \A m \in 1..(k - 1) : m \in 1..bound
    BY <1>8, <2>1, <2>2
  <2> QED
    BY <2>2, <2>3, <2>4
<1>11. n \in 1..bound /\ free(n) /\ \A m \in 1..(n - 1) : ~free(m)
  BY <1>10
<1> HIDE DEF n
<1>12. n \in Nat \ {0}
  BY <1>8, <1>11
<1>13. free(1) => n = 1
  <2>1. n # 1 => 1 \in 1..(n - 1)
    BY <1>12
  <2> QED
    BY <1>11, <2>1
<1> QED
  BY <1>1, <1>3, <1>4, <1>5, <1>7, <1>11, <1>12, <1>13 DEF slug

LEMMA ClaimIsSequence ==
    ASSUME NEW preferred, Sequence(preferred), NEW d, NEW h, \A e \in DOMAIN h : Sequence(h[e])
    PROVE  /\ Sequence(ClaimSlug(preferred, d, h))
           /\ FreeFor(h, preferred, d) => ClaimSlug(preferred, d, h) = preferred
<1> DEFINE own == IF d \in DOMAIN h THEN <<h[d]>> ELSE <<>>
           candidates == <<preferred>> \o own \o IdentityCandidates(preferred, d)
           free(i) == FreeFor(h, candidates[i], d)
           Slug == {s \in {preferred, h[d], Append(preferred, <<"year", RefDate[d][1]>>),
                           Append(preferred, <<"date", RefDate[d][2]>>),
                           Append(preferred, <<"id", d>>)} : Sequence(s)}
<1>1. ClaimSlug(preferred, d, h) =
        IF \E i \in DOMAIN candidates : free(i)
        THEN candidates[CHOOSE i \in DOMAIN candidates : free(i) /\ \A j \in 1..(i - 1) : ~free(j)]
        ELSE Last(candidates)
  BY DEF ClaimSlug
<1>2. \A s \in Slug : Sequence(s)
  OBVIOUS
<1>3. <<preferred>> \in Seq(Slug)
  OBVIOUS
<1>4. own \in Seq(Slug)
  <2>1. d \in DOMAIN h => h[d] \in Slug
    OBVIOUS
  <2> HIDE DEF Slug
  <2>2. CASE d \in DOMAIN h
    BY <2>1, <2>2
  <2>3. CASE d \notin DOMAIN h
    BY <2>3
  <2> QED
    BY <2>2, <2>3
<1>5. IdentityCandidates(preferred, d) \in Seq(Slug)
  <2>1. /\ Append(preferred, <<"year", RefDate[d][1]>>) \in Slug
        /\ Append(preferred, <<"date", RefDate[d][2]>>) \in Slug
        /\ Append(preferred, <<"id", d>>) \in Slug
    BY Longer
  <2> HIDE DEF Slug
  <2> QED
    BY <2>1 DEF IdentityCandidates
<1> HIDE DEF own, Slug
<1>6. candidates \in Seq(Slug) /\ Len(candidates) >= 1 /\ candidates[1] = preferred
  BY <1>3, <1>4, <1>5
<1> HIDE DEF candidates
<1>7. /\ DOMAIN candidates = 1..Len(candidates) /\ Len(candidates) \in Nat
      /\ \A i \in DOMAIN candidates : candidates[i] \in Slug
  BY <1>6
<1> HIDE DEF free
<1>8. ASSUME \E i \in DOMAIN candidates : free(i)
      PROVE  \E i \in DOMAIN candidates : free(i) /\ \A j \in 1..(i - 1) : ~free(j)
  <2> DEFINE A == {i \in 1..Len(candidates) : free(i)}
  <2>1. \A i : i \in A <=> i \in 1..Len(candidates) /\ free(i)
    OBVIOUS
  <2>2. A \in SUBSET (1..Len(candidates)) /\ A # {}
    BY <1>7, <1>8
  <2> HIDE DEF A
  <2>3. PICK k \in A : \A m \in 1..(k - 1) : m \notin A
    BY <1>7, <2>2, LeastNumber
  <2>4. \A m \in 1..(k - 1) : m \in 1..Len(candidates)
    BY <1>7, <2>1
  <2> QED
    BY <1>7, <2>1, <2>3, <2>4
<1>9. Last(candidates) \in Slug
  BY <1>6, <1>7 DEF Last
<1>10. Sequence(ClaimSlug(preferred, d, h))
  BY <1>1, <1>2, <1>7, <1>8, <1>9
<1>11. ASSUME FreeFor(h, preferred, d)
       PROVE  ClaimSlug(preferred, d, h) = preferred
  <2> DEFINE i == CHOOSE i \in DOMAIN candidates : free(i) /\ \A j \in 1..(i - 1) : ~free(j)
  <2>1. free(1) /\ 1 \in DOMAIN candidates
    BY <1>6, <1>7, <1>11 DEF free
  <2>2. i \in DOMAIN candidates /\ free(i) /\ \A j \in 1..(i - 1) : ~free(j)
    BY <1>8, <2>1
  <2>3. ClaimSlug(preferred, d, h) = candidates[i]
    BY <1>1, <2>1
  <2> HIDE DEF i
  <2>4. i \in Nat /\ i >= 1
    BY <1>7, <2>2
  <2>5. i # 1 => 1 \in 1..(i - 1)
    BY <2>4
  <2> QED
    BY <1>6, <2>1, <2>2, <2>3, <2>5
<1> QED
  BY <1>10, <1>11

\* rendering/slug.py, resolve_collisions: every listed document gets a slug, no two the same,
\* and none that a record of another document owns.
LEMMA ResolvedIsOwned ==
    ASSUME NEW preferred, NEW h, Asking(preferred), Asking(h)
    PROVE  LET slug == ResolveCollisions(preferred, h) IN
           /\ slug = [d \in DOMAIN preferred |-> slug[d]]
           /\ Asking(slug)
           /\ IsInjective(slug)
           /\ \A d \in DOMAIN preferred : FreeFor(h, slug[d], d)
           /\ \A d \in DOMAIN preferred :
                 /\ FreeFor(h, preferred[d], d)
                 /\ \A e \in DOMAIN preferred \ {d} : ~FreeFor(h, preferred[d], e)
                 => slug[d] = preferred[d]
<1> DEFINE slug == ResolveCollisions(preferred, h)
           D == DOMAIN preferred
           claimed == Claims(preferred, h)
           prior(d) == {x \in DOMAIN claimed : Before(x, d, claimed, h)}
           taken(d) == {slug[e] : e \in prior(d)}
<1>1. DOMAIN claimed = D /\ \A d \in D : claimed[d] = ClaimSlug(preferred[d], d, h)
  BY DEF Claims
<1>2. \A d \in D : Sequence(claimed[d]) /\ (FreeFor(h, preferred[d], d) => claimed[d] = preferred[d])
  BY <1>1, ClaimIsSequence DEF Asking
<1>3. Asking(claimed)
  BY <1>1, <1>2 DEF Asking
<1> HIDE DEF claimed
<1>4. \E f : Serves(f, D, claimed, h)
  BY <1>1, <1>3, ServingExists DEF Asking
<1>5. Serves(slug, D, claimed, h)
  BY <1>4, ResolvedIsServed DEF claimed
<1> HIDE DEF slug
<1>6. /\ slug = [d \in D |-> slug[d]]
      /\ \A d \in D : slug[d] = FirstFree(claimed[d], d, taken(d), claimed, h)
  BY <1>5 DEF Serves
<1>7. ASSUME NEW d \in D
      PROVE  /\ slug[d] \notin taken(d) /\ FreeFor(h, slug[d], d) /\ Sequence(slug[d])
             /\ claimed[d] \notin taken(d) /\ FreeFor(h, claimed[d], d) => slug[d] = claimed[d]
  <2> DEFINE A == prior(d)
             I == {slug[e] : e \in A}
  <2>1. IsFiniteSet(D) /\ A \in SUBSET D
    BY <1>1 DEF Asking
  <2> HIDE DEF A
  <2>2. IsFiniteSet(A) /\ Cardinality(A) <= Cardinality(D)
    BY <2>1, FS_Subset
  <2>3. Cardinality(A) \in Nat /\ Cardinality(D) \in Nat
    BY <2>1, <2>2, FS_CardinalityType
  <2>4. IsFiniteSet(I) /\ Cardinality(I) \in Nat /\ Cardinality(I) <= Cardinality(A)
    BY <2>2, ImageSize
  <2> HIDE DEF I
  <2>5. /\ FirstFree(claimed[d], d, I, claimed, h) \notin I
        /\ FreeFor(h, FirstFree(claimed[d], d, I, claimed, h), d)
        /\ Sequence(FirstFree(claimed[d], d, I, claimed, h))
        /\ claimed[d] \notin I /\ FreeFor(h, claimed[d], d)
             => FirstFree(claimed[d], d, I, claimed, h) = claimed[d]
    <3>1. Cardinality(I) <= Cardinality(DOMAIN claimed)
      BY <1>1, <2>2, <2>3, <2>4
    <3> QED
      BY <1>1, <1>3, <2>4, <3>1, FirstFreeIsFree
  <2>6. I = taken(d)
    BY DEF I, A
  <2> QED
    BY <1>6, <2>5, <2>6
<1>8. \A d, e \in D : d = e \/ d \in prior(e) \/ e \in prior(d)
  <2>1. \A d, e \in DOMAIN claimed : d = e \/ Before(d, e, claimed, h) \/ Before(e, d, claimed, h)
    BY <1>3, ServingOrder DEF Asking
  <2> QED
    BY <1>1, <2>1
<1>9. \A d, e : e \in prior(d) => slug[e] \in taken(d)
  OBVIOUS
<1>10. \A d : \A s \in taken(d) : \E e \in prior(d) : s = slug[e]
  OBVIOUS
<1>11. \A d : \A e \in prior(d) : e \in D /\ Before(e, d, claimed, h)
  BY <1>1
<1>12. \A d \in D : d \notin prior(d)
  BY <1>1, <1>3, ServingOrder DEF Asking
<1> HIDE DEF prior, taken
<1>13. IsInjective(slug)
  BY <1>6, <1>7, <1>8, <1>9 DEF IsInjective
<1>14. Asking(slug)
  BY <1>6, <1>7 DEF Asking
<1>15. ASSUME NEW d \in D, FreeFor(h, preferred[d], d),
              \A e \in D \ {d} : ~FreeFor(h, preferred[d], e)
       PROVE  slug[d] = preferred[d]
  <2>1. claimed[d] = preferred[d]
    BY <1>2, <1>15
  <2>2. ASSUME claimed[d] \in taken(d)
        PROVE  FALSE
    <3>1. PICK e \in prior(d) : claimed[d] = slug[e]
      BY <1>10, <2>2
    <3> QED
      BY <1>7, <1>11, <1>12, <1>15, <2>1, <3>1
  <2> QED
    BY <1>7, <1>15, <2>1, <2>2
<1> QED
  BY <1>6, <1>7, <1>13, <1>14, <1>15 DEF slug

-----------------------------------------------------------------------------
(* The naming asked again and again *)

SlugInv ==
    /\ Asking(asked) /\ Asking(had) /\ IsInjective(had)
    /\ given = Unasked \/ given = ResolveCollisions(asked, had)

\* Where no two records share a slug, a slug that is free for a document is its own or nobody's.
LEMMA FreeIsOwn ==
    ASSUME NEW h, Asking(h), IsInjective(h), NEW d, NEW e \in DOMAIN h
    PROVE  FreeFor(h, h[e], d) <=> d = e
<1>1. Owners(h, h[e]) = {e}
  BY DEF Owners, IsInjective
<1>2. e \in Nat
  BY DEF Asking
<1> QED
  BY <1>1, <1>2 DEF FreeFor, Owns

LEMMA SlugInitHolds == SlugInit => SlugInv
<1> SUFFICES ASSUME SlugInit PROVE SlugInv
  OBVIOUS
<1>1. \A S \in SUBSET Sibling : IsFiniteSet(S) /\ S \subseteq Nat
  BY SiblingAssumption, FS_Subset
<1>2. \A slug \in Preferred \cup Owned : Sequence(slug)
  BY SiblingAssumption DEF Sequence
<1>3. \E S \in SUBSET Sibling : asked \in [S -> Preferred]
  BY DEF SlugInit, Partial
<1>4. (\E S \in SUBSET Sibling : had \in [S -> Owned]) /\ IsInjective(had)
  BY DEF SlugInit, Partial
<1>5. Asking(asked) /\ Asking(had)
  BY <1>1, <1>2, <1>3, <1>4 DEF Asking
<1> QED
  BY <1>4, <1>5 DEF SlugInv, SlugInit

LEMMA RepublishKeeps == SlugInv /\ Republish => SlugInv'
<1> SUFFICES ASSUME SlugInv, Republish PROVE SlugInv'
  OBVIOUS
<1>1. given = ResolveCollisions(asked, had) /\ asked' = asked /\ given' = ResolveCollisions(asked, had')
  BY DEF SlugInv, Republish
<1>2. had' = [d \in DOMAIN had \cup DOMAIN asked |-> IF d \in DOMAIN given THEN given[d] ELSE had[d]]
  BY DEF Republish
<1>3. Asking(asked) /\ Asking(had) /\ IsInjective(had)
  BY DEF SlugInv
<1>4. /\ DOMAIN given = DOMAIN asked /\ Asking(given) /\ IsInjective(given)
      /\ \A d \in DOMAIN asked : FreeFor(had, given[d], d)
  BY <1>1, <1>3, ResolvedIsOwned
<1>5. IsFiniteSet(DOMAIN had \cup DOMAIN asked)
  BY <1>3, UnionSize DEF Asking
<1>6. Asking(had')
  BY <1>2, <1>3, <1>4, <1>5 DEF Asking
<1>7. \A d \in DOMAIN asked, e \in DOMAIN had : given[d] = had[e] => d = e
  BY <1>3, <1>4, FreeIsOwn
<1>8. IsInjective(had')
  BY <1>2, <1>3, <1>4, <1>7 DEF IsInjective
<1> QED
  BY <1>1, <1>3, <1>6, <1>8 DEF SlugInv

\* rendering/slug.py: whatever is listed against whatever manifest, and however often a listing
\* is synced again, two documents never get one file, none gets another's, and a document
\* that prefers the slug it has keeps it.
THEOREM FilesStayOwned == SlugSpec => []FilesAreOwned
<1>1. SlugInv /\ [SlugNext]_slugVars => SlugInv'
  <2> SUFFICES ASSUME SlugInv, [SlugNext]_slugVars PROVE SlugInv'
    OBVIOUS
  <2>1. CASE Resolve
    BY <2>1 DEF Resolve, SlugInv
  <2>2. CASE Republish
    BY <2>2, RepublishKeeps
  <2>3. CASE UNCHANGED slugVars
    BY <2>3 DEF slugVars, SlugInv
  <2> QED
    BY <2>1, <2>2, <2>3 DEF SlugNext
<1>2. SlugInv => FilesAreOwned
  <2> SUFFICES ASSUME SlugInv, given # Unasked PROVE FilesAreOwned
    BY DEF FilesAreOwned, OneOwner, OwnerKeepsItsSlug
  <2>1. given = ResolveCollisions(asked, had) /\ Asking(asked) /\ Asking(had) /\ IsInjective(had)
    BY DEF SlugInv
  <2>2. /\ DOMAIN given = DOMAIN asked /\ IsInjective(given)
        /\ \A d \in DOMAIN asked : FreeFor(had, given[d], d)
        /\ \A d \in DOMAIN asked :
              /\ FreeFor(had, asked[d], d)
              /\ \A e \in DOMAIN asked \ {d} : ~FreeFor(had, asked[d], e)
              => given[d] = asked[d]
    BY <2>1, ResolvedIsOwned
  <2>3. OneOwner
    BY <2>1, <2>2, FreeIsOwn DEF OneOwner
  <2>4. OwnerKeepsItsSlug
    BY <2>1, <2>2, FreeIsOwn DEF OwnerKeepsItsSlug
  <2> QED
    BY <2>3, <2>4 DEF FilesAreOwned
<1> QED
  BY <1>1, <1>2, SlugInitHolds, PTL DEF SlugSpec

-----------------------------------------------------------------------------
(* What is pushed is attested *)

\* A run that is past its attestation holds this parser's note, and one that has pushed the
\* notes has sent it; a release waits for the run to end.
Noted ==
    /\ job.step \in {"audit", "notes"} => Parser[engine] \in notes
    /\ job.step = "push" => Parser[engine] \in sent

\* The workflow: no reader of origin sees a commit that the gate ran on without the note of
\* the parser that attests it.
THEOREM PushesAreAttested == Spec => PushedIsAttested
<1>1. Init => Noted
  BY DEF Init, Noted, Idle
<1>2. Noted /\ [Next]_vars => Noted'
  <2> SUFFICES ASSUME Noted, [Next]_vars PROVE Noted'
    OBVIOUS
  <2>1. CASE Leave
    BY <2>1 DEF Leave, Idle, Noted
  <2>2. CASE Begin
    BY <2>2 DEF Begin, Noted
  <2>3. CASE Write
    BY <2>3 DEF Write, Noted
  <2>4. CASE CommitPaths
    <3>1. job'.step = "commit"
      BY <2>4 DEF CommitPaths
    <3> QED
      BY <3>1 DEF Noted
  <2>5. CASE WriteManifest
    <3>1. job'.step \in {"manifest", "commit"}
      BY <2>5 DEF WriteManifest
    <3> QED
      BY <3>1 DEF Noted
  <2>6. CASE CommitManifest
    <3>1. job'.step \in {"attest", "manifest"}
      BY <2>6 DEF CommitManifest
    <3> QED
      BY <3>1 DEF Noted
  <2>7. CASE Attest
    BY <2>7 DEF Attest, Noted
  <2>8. CASE AuditPasses
    BY <2>8 DEF AuditPasses, checkout, Noted
  <2>9. CASE PushNotes
    BY <2>9 DEF PushNotes, Noted
  <2>10. CASE PushMain
    BY <2>10 DEF PushMain, Idle, Noted
  <2>11. CASE Reset
    BY <2>11 DEF Reset, Noted
  <2>12. CASE Edit
    BY <2>12 DEF Edit, checkout, Noted
  <2>13. CASE Upgrade
    BY <2>13 DEF Upgrade, Idle, checkout, Noted
  <2>14. CASE UNCHANGED vars
    BY <2>14 DEF vars, checkout, Noted
  <2> QED
    BY <2>1, <2>2, <2>3, <2>4, <2>5, <2>6, <2>7, <2>8, <2>9, <2>10, <2>11, <2>12, <2>13, <2>14
       DEF Next, Run, Refuse, NotAttested, AuditFails, Crash
<1>3. Noted /\ [Next]_vars
        => [origin'.corpus # origin.corpus => Parser[engine] \in origin'.notes]_vars
  <2> SUFFICES ASSUME Noted, [Next]_vars, origin'.corpus # origin.corpus
               PROVE  Parser[engine] \in origin'.notes
    OBVIOUS
  <2>1. origin' = origin \/ PushNotes \/ PushMain
    BY DEF Next, Run, vars, checkout, Leave, Begin, Refuse, Write, CommitPaths, WriteManifest,
           CommitManifest, Attest, NotAttested, AuditPasses, AuditFails, Reset, Edit, Upgrade, Crash
  <2>2. CASE PushNotes
    BY <2>2 DEF PushNotes
  <2>3. CASE PushMain
    BY <2>3 DEF PushMain, Noted
  <2> QED
    BY <2>1, <2>2, <2>3
<1> QED
  BY <1>1, <1>2, <1>3, PTL DEF Spec, PushedIsAttested

-----------------------------------------------------------------------------
(* What a run decides *)

\* A corpus that is true to itself.
Tidy(c) ==
    LET m == c.manifest IN
    /\ c = [manifest |-> m, tree |-> [s \in DOMAIN c.tree |-> c.tree[s]]]
    /\ \A d \in DOMAIN m :
          /\ m[d] = [status |-> m[d].status, slug |-> m[d].slug, text |-> m[d].text,
                     stamp |-> m[d].stamp]
          /\ m[d].status \in {"current", "removed"}
    /\ Asking(Had(m))
    /\ PageIsWhatItsRecordSays(c) /\ NothingIsLeft(c)

\* A plan for it: what is listed, named by resolve_collisions.
Plan(p, c) ==
    /\ Asking(p.slug) /\ IsInjective(p.slug)
    /\ \A d \in DOMAIN p.slug : FreeFor(Had(c.manifest), p.slug[d], d)
    /\ DOMAIN p.seen \subseteq DOMAIN p.slug

Unchanged(c, p, r) == Kept(c, p) \ Wanted(c, p, r)

LEMMA Roles ==
    ASSUME NEW c, NEW p, NEW r
    PROVE  LET m == c.manifest IN
           /\ DOMAIN NextManifest(c, p, r)
                = Written(c, p, r) \cup Removed(c, p) \cup Unchanged(c, p, r) \cup Carried(c, p, r)
                    \cup Tombstones(c, p)
           /\ Current(m) \subseteq DOMAIN m
           /\ Written(c, p, r) \subseteq DOMAIN p.seen
           /\ New(c, p) = DOMAIN p.seen \ Current(m)
           /\ Removed(c, p) = Current(m) \ DOMAIN p.seen
           /\ Unchanged(c, p, r) \subseteq (Current(m) \cap DOMAIN p.seen) \ Written(c, p, r)
           /\ Failed(c, p, r) \subseteq (Current(m) \cap DOMAIN p.seen) \ Written(c, p, r)
           /\ Carried(c, p, r)
                = {d \in Failed(c, p, r) : m[d].slug \notin WrittenSlugs(c, p, r)}
           /\ Tombstones(c, p) = DOMAIN m \ (Current(m) \cup DOMAIN p.seen)
           /\ Current(m) \subseteq Written(c, p, r) \cup Removed(c, p) \cup Unchanged(c, p, r)
                                      \cup Failed(c, p, r)
           /\ \A d \in Failed(c, p, r) : ~Renders(p.seen[d], r)
<1>1. DOMAIN NextManifest(c, p, r)
        = Written(c, p, r) \cup Removed(c, p) \cup Unchanged(c, p, r) \cup Carried(c, p, r)
            \cup Tombstones(c, p)
  BY DEF NextManifest, Unchanged
<1>2. Wanted(c, p, r) \subseteq DOMAIN p.seen /\ New(c, p) \cap Current(c.manifest) = {}
      /\ New(c, p) \subseteq Wanted(c, p, r)
      /\ Wanted(c, p, r) \subseteq Current(c.manifest) \cup New(c, p)
  BY DEF Wanted, New, Changed, Renamed, Stale, Kept
<1>3. Current(c.manifest) \subseteq DOMAIN c.manifest
  BY DEF Current
<1> QED
  BY <1>1, <1>2, <1>3 DEF Written, New, Removed, Unchanged, Failed, Carried, Tombstones, Kept

LEMMA Slugged ==
    ASSUME NEW c, NEW p, NEW r
    PROVE  /\ \A d \in Written(c, p, r) : p.slug[d] \in WrittenSlugs(c, p, r)
           /\ \A s \in WrittenSlugs(c, p, r) : \E d \in Written(c, p, r) : s = p.slug[d]
           /\ \A d \in (Written(c, p, r) \cap Current(c.manifest)) \cup Removed(c, p) :
                 c.manifest[d].slug \in Dropped(c, p, r) \cup WrittenSlugs(c, p, r)
           /\ \A s \in Dropped(c, p, r) :
                 /\ s \notin WrittenSlugs(c, p, r)
                 /\ \E d \in (Written(c, p, r) \cap Current(c.manifest)) \cup Removed(c, p) :
                       s = c.manifest[d].slug
<1>1. Written(c, p, r) \ New(c, p) = Written(c, p, r) \cap Current(c.manifest)
  BY Roles DEF New
<1> QED
  BY <1>1 DEF WrittenSlugs, Dropped

\* The new record of each document, by what became of it.
LEMMA Records ==
    ASSUME NEW c, NEW p, NEW r, Tidy(c)
    PROVE  LET m == c.manifest
               n == NextManifest(c, p, r)
           IN
           /\ \A d \in Written(c, p, r) : n[d] = CurrentRecord(p.slug[d], p.seen[d], r)
           /\ \A d \in Removed(c, p) : n[d] = Tombstone(m[d])
           /\ \A d \in Unchanged(c, p, r) :
                 /\ n[d] = CurrentRecord(m[d].slug, m[d].text, r)
                 /\ p.slug[d] = m[d].slug
                 /\ m[d].slug \in DOMAIN c.tree /\ c.tree[m[d].slug] = Page(d, m[d].text, r)
           /\ \A d \in Carried(c, p, r) \cup Tombstones(c, p) : n[d] = m[d]
<1> DEFINE m == c.manifest
           n == NextManifest(c, p, r)
<1>1. \A d \in DOMAIN n : n[d] = NextRecord(c, p, r, d)
  BY Zenon DEF NextManifest
<1>2. /\ DOMAIN n = Written(c, p, r) \cup Removed(c, p) \cup Unchanged(c, p, r)
                      \cup Carried(c, p, r) \cup Tombstones(c, p)
      /\ Written(c, p, r) \cap (Removed(c, p) \cup Unchanged(c, p, r) \cup Carried(c, p, r)
                                   \cup Tombstones(c, p)) = {}
      /\ Removed(c, p) \cap (Unchanged(c, p, r) \cup Carried(c, p, r) \cup Tombstones(c, p)) = {}
      /\ Tombstones(c, p) \cap Unchanged(c, p, r) = {}
      /\ Unchanged(c, p, r) \subseteq Current(m) /\ Current(m) \subseteq DOMAIN m
  <2> HIDE DEF n
  <2>1. DOMAIN n = Written(c, p, r) \cup Removed(c, p) \cup Unchanged(c, p, r)
                      \cup Carried(c, p, r) \cup Tombstones(c, p)
    BY Roles DEF n
  <2>2. /\ Written(c, p, r) \subseteq DOMAIN p.seen
        /\ Removed(c, p) = Current(m) \ DOMAIN p.seen
        /\ Unchanged(c, p, r) \subseteq (Current(m) \cap DOMAIN p.seen) \ Written(c, p, r)
        /\ Failed(c, p, r) \subseteq (Current(m) \cap DOMAIN p.seen) \ Written(c, p, r)
        /\ Tombstones(c, p) = DOMAIN m \ (Current(m) \cup DOMAIN p.seen)
        /\ Current(m) \subseteq DOMAIN m
    BY Roles
  <2>3. Carried(c, p, r) \subseteq Failed(c, p, r)
    BY DEF Carried
  <2> QED
    BY <2>1, <2>2, <2>3
<1> HIDE DEF n
<1>3. /\ \A d \in Written(c, p, r) : n[d] = CurrentRecord(p.slug[d], p.seen[d], r)
      /\ \A d \in Removed(c, p) : n[d] = Tombstone(m[d])
  BY <1>1, <1>2 DEF NextRecord
<1>4. Unaffected(c, p, r) \subseteq Unchanged(c, p, r)
  BY DEF Unaffected, Unchanged, Wanted, Stale, New, Changed, Renamed, Kept
<1>5. \A d \in Carried(c, p, r) \cup Tombstones(c, p) : n[d] = m[d]
  <2>1. (Carried(c, p, r) \cup Tombstones(c, p)) \cap Unaffected(c, p, r) = {}
    <3>1. Carried(c, p, r) \subseteq Wanted(c, p, r)
      BY DEF Carried, Failed
    <3> QED
      BY <1>2, <1>4, <3>1 DEF Unchanged
  <2> QED
    BY <1>1, <1>2, <2>1 DEF NextRecord
<1>6. ASSUME NEW d \in Unchanged(c, p, r)
      PROVE  /\ n[d] = CurrentRecord(m[d].slug, m[d].text, r)
             /\ p.slug[d] = m[d].slug
             /\ m[d].slug \in DOMAIN c.tree /\ c.tree[m[d].slug] = Page(d, m[d].text, r)
  <2>1. d \in Kept(c, p) /\ d \notin Changed(c, p) /\ d \notin Renamed(c, p)
        /\ (d \in Stale(c, p, r) => d \in Unaffected(c, p, r))
    BY <1>6 DEF Unchanged, Wanted
  <2>2. p.seen[d] = m[d].text /\ p.slug[d] = m[d].slug
        /\ (m[d].stamp = r \/ d \in Unaffected(c, p, r))
    BY <2>1 DEF Changed, Renamed, Stale
  <2>3. d \in Current(m) /\ d \notin Written(c, p, r) /\ d \notin Removed(c, p) /\ d \in DOMAIN n
        /\ d \in DOMAIN m
    BY <1>2, <1>6
  <2>4. m[d].status = "current"
    BY <2>3 DEF Current
  <2>5. m[d] = [status |-> m[d].status, slug |-> m[d].slug, text |-> m[d].text,
                stamp |-> m[d].stamp]
    BY <2>3 DEF Tidy
  <2>6. m[d].slug \in DOMAIN c.tree /\ c.tree[m[d].slug] = Page(d, m[d].text, m[d].stamp)
    BY <2>3 DEF Tidy, PageIsWhatItsRecordSays
  <2>7. n[d] = NextRecord(c, p, r, d)
    BY <1>1, <2>3
  <2>8. CASE d \in Unaffected(c, p, r)
    <3>1. c.tree[p.slug[d]] = Page(d, p.seen[d], r)
      BY <2>8 DEF Unaffected
    <3>2. n[d] = [m[d] EXCEPT !.stamp = r]
      BY <2>3, <2>7, <2>8 DEF NextRecord
    <3>3. n[d] = CurrentRecord(m[d].slug, m[d].text, r)
      BY <2>4, <2>5, <3>2 DEF CurrentRecord
    <3> QED
      BY <2>2, <2>6, <3>1, <3>3
  <2>9. CASE d \notin Unaffected(c, p, r)
    <3>1. n[d] = m[d]
      BY <2>3, <2>7, <2>9 DEF NextRecord
    <3>2. n[d] = CurrentRecord(m[d].slug, m[d].text, r)
      BY <2>2, <2>4, <2>5, <2>9, <3>1 DEF CurrentRecord
    <3> QED
      BY <2>2, <2>6, <2>9, <3>2
  <2> QED
    BY <2>8, <2>9
<1> QED
  BY <1>3, <1>5, <1>6 DEF n

LEMMA NewSlugs ==
    ASSUME NEW c, NEW p, NEW r, Tidy(c)
    PROVE  LET m == c.manifest
               n == NextManifest(c, p, r)
           IN
           /\ Current(n) = Written(c, p, r) \cup Unchanged(c, p, r) \cup Carried(c, p, r)
           /\ \A d \in Written(c, p, r) : n[d].slug = p.slug[d]
           /\ \A d \in DOMAIN n \ Written(c, p, r) : d \in DOMAIN m /\ n[d].slug = m[d].slug
           /\ \A d \in DOMAIN n \ Current(n) : d \in Removed(c, p) \cup Tombstones(c, p)
<1> DEFINE m == c.manifest
           n == NextManifest(c, p, r)
<1>1. /\ \A d \in Written(c, p, r) : n[d] = CurrentRecord(p.slug[d], p.seen[d], r)
      /\ \A d \in Removed(c, p) : n[d] = Tombstone(m[d])
      /\ \A d \in Unchanged(c, p, r) : n[d] = CurrentRecord(m[d].slug, m[d].text, r)
      /\ \A d \in Carried(c, p, r) \cup Tombstones(c, p) : n[d] = m[d]
  <2> HIDE DEF n
  <2> QED
    BY Records DEF n
<1>2. DOMAIN n = Written(c, p, r) \cup Removed(c, p) \cup Unchanged(c, p, r)
                    \cup Carried(c, p, r) \cup Tombstones(c, p)
  <2> HIDE DEF n
  <2> QED
    BY Roles DEF n
<1> HIDE DEF n
<1>3. /\ Removed(c, p) = Current(m) \ DOMAIN p.seen
      /\ Unchanged(c, p, r) \subseteq (Current(m) \cap DOMAIN p.seen) \ Written(c, p, r)
      /\ Carried(c, p, r) \subseteq (Current(m) \cap DOMAIN p.seen) \ Written(c, p, r)
      /\ Tombstones(c, p) = DOMAIN m \ (Current(m) \cup DOMAIN p.seen)
      /\ Current(m) \subseteq DOMAIN m
  <2>1. Carried(c, p, r) \subseteq Failed(c, p, r)
    BY DEF Carried
  <2> QED
    BY <2>1, Roles
<1>4. /\ \A d \in Written(c, p, r) : n[d].status = "current" /\ n[d].slug = p.slug[d]
      /\ \A d \in Removed(c, p) : n[d].status = "removed" /\ n[d].slug = m[d].slug
      /\ \A d \in Unchanged(c, p, r) : n[d].status = "current" /\ n[d].slug = m[d].slug
  <2>1. \A slug, v : /\ CurrentRecord(slug, v, r).status = "current"
                     /\ CurrentRecord(slug, v, r).slug = slug
    BY DEF CurrentRecord
  <2>2. \A old : Tombstone(old).status = "removed" /\ Tombstone(old).slug = old.slug
    BY DEF Tombstone
  <2> HIDE DEF m
  <2> QED
    BY <1>1, <2>1, <2>2
<1>5. /\ \A d \in Carried(c, p, r) : n[d].status = "current" /\ n[d].slug = m[d].slug
      /\ \A d \in Tombstones(c, p) : n[d].status # "current" /\ n[d].slug = m[d].slug
  BY <1>1, <1>3 DEF Current
<1>6. \A d : d \in Current(n) <=> d \in DOMAIN n /\ n[d].status = "current"
  BY DEF Current
<1>7. Current(n) = Written(c, p, r) \cup Unchanged(c, p, r) \cup Carried(c, p, r)
  BY <1>2, <1>4, <1>5, <1>6
<1>8. \A d \in DOMAIN n \ Written(c, p, r) : d \in DOMAIN m /\ n[d].slug = m[d].slug
  BY <1>2, <1>3, <1>4, <1>5
<1>9. \A d \in DOMAIN n \ Current(n) : d \in Removed(c, p) \cup Tombstones(c, p)
  BY <1>2, <1>7
<1> QED
  BY <1>4, <1>7, <1>8, <1>9 DEF n

\* No two current documents of a tidy corpus share a page.
LEMMA PagesApart ==
    ASSUME NEW c, Tidy(c), NEW d \in Current(c.manifest), NEW e \in Current(c.manifest),
           c.manifest[d].slug = c.manifest[e].slug
    PROVE  d = e
<1>1. /\ c.tree[c.manifest[d].slug] = Page(d, c.manifest[d].text, c.manifest[d].stamp)
      /\ c.tree[c.manifest[e].slug] = Page(e, c.manifest[e].text, c.manifest[e].stamp)
  BY DEF Tidy, PageIsWhatItsRecordSays
<1> QED
  BY <1>1 DEF Page

\* A document that keeps its file shares it with none that is written, moves or leaves.
LEMMA KeptApart ==
    ASSUME NEW c, NEW p, NEW r, Tidy(c), Plan(p, c),
           NEW d \in Unchanged(c, p, r) \cup Carried(c, p, r)
    PROVE  LET m == c.manifest IN
           /\ d \in Current(m) /\ d \notin Written(c, p, r) /\ d \notin Removed(c, p)
           /\ m[d].slug \notin WrittenSlugs(c, p, r)
           /\ \A e \in Current(m) : m[e].slug = m[d].slug => e = d
<1> DEFINE m == c.manifest
           s == m[d].slug
<1>1. d \in Current(m) /\ d \notin Written(c, p, r) /\ d \notin Removed(c, p) /\ d \in DOMAIN p.seen
  <2>1. Carried(c, p, r) \subseteq Failed(c, p, r)
    BY DEF Carried
  <2>2. Removed(c, p) = Current(m) \ DOMAIN p.seen
    BY Roles
  <2>3. Unchanged(c, p, r) \subseteq (Current(m) \cap DOMAIN p.seen) \ Written(c, p, r)
    BY Roles
  <2>4. Failed(c, p, r) \subseteq (Current(m) \cap DOMAIN p.seen) \ Written(c, p, r)
    BY Roles
  <2> QED
    BY <2>1, <2>2, <2>3, <2>4
<1>2. s \notin WrittenSlugs(c, p, r)
  <2>1. CASE d \in Carried(c, p, r)
    BY <2>1 DEF Carried
  <2>2. CASE d \in Unchanged(c, p, r)
    <3> SUFFICES ASSUME s \in WrittenSlugs(c, p, r) PROVE FALSE
      OBVIOUS
    <3>1. PICK e \in Written(c, p, r) : s = p.slug[e]
      BY DEF WrittenSlugs
    <3>2. p.slug[d] = s
      BY <2>2, Records
    <3>3. e \in DOMAIN p.slug /\ d \in DOMAIN p.slug
      BY <1>1, Roles DEF Plan
    <3>4. e = d
      BY <3>1, <3>2, <3>3 DEF Plan, IsInjective
    <3> QED
      BY <1>1, <3>4
  <2> QED
    BY <2>1, <2>2
<1>3. \A e \in Current(m) : m[e].slug = s => e = d
  BY <1>1, PagesApart
<1> QED
  BY <1>1, <1>2, <1>3

\* A document that keeps its file keeps what is in it.
LEMMA KeptPages ==
    ASSUME NEW c, NEW p, NEW r, Tidy(c), Plan(p, c),
           NEW d \in Unchanged(c, p, r) \cup Carried(c, p, r)
    PROVE  LET s == c.manifest[d].slug
               t == NextTree(c, p, r)
           IN  s \in DOMAIN c.tree /\ s \in DOMAIN t /\ t[s] = c.tree[s]
<1> DEFINE m == c.manifest
           s == m[d].slug
<1>1. /\ d \in Current(m) /\ d \notin Written(c, p, r) /\ d \notin Removed(c, p)
      /\ s \notin WrittenSlugs(c, p, r) /\ \A e \in Current(m) : m[e].slug = s => e = d
  BY KeptApart
<1>2. s \in DOMAIN c.tree
  BY <1>1 DEF Tidy, PageIsWhatItsRecordSays
<1>3. s \notin Dropped(c, p, r)
  <2> SUFFICES ASSUME s \in Dropped(c, p, r) PROVE FALSE
    OBVIOUS
  <2>1. PICK e \in (Written(c, p, r) \cap Current(m)) \cup Removed(c, p) : s = m[e].slug
    BY Slugged
  <2>2. Removed(c, p) \subseteq Current(m)
    BY DEF Removed
  <2> QED
    BY <1>1, <2>1, <2>2
<1> QED
  BY <1>1, <1>2, <1>3 DEF NextTree

LEMMA WrittenPages ==
    ASSUME NEW c, NEW p, NEW r, Plan(p, c), NEW d \in Written(c, p, r)
    PROVE  LET t == NextTree(c, p, r)
           IN  p.slug[d] \in DOMAIN t /\ t[p.slug[d]] = Page(d, p.seen[d], r)
<1> DEFINE s == p.slug[d]
<1>1. s \in WrittenSlugs(c, p, r) /\ s \notin Dropped(c, p, r)
  BY DEF WrittenSlugs, Dropped
<1>2. Writer(c, p, r, s) = d
  <2>1. \E e \in Written(c, p, r) : p.slug[e] = s
    OBVIOUS
  <2>2. Writer(c, p, r, s) \in Written(c, p, r) /\ p.slug[Writer(c, p, r, s)] = s
    BY <2>1 DEF Writer
  <2>3. Written(c, p, r) \subseteq DOMAIN p.slug
    BY Roles DEF Plan
  <2> HIDE DEF s
  <2> QED
    BY <2>2, <2>3 DEF Plan, IsInjective, s
<1> QED
  BY <1>1, <1>2 DEF NextTree

LEMMA NextPagesAreTrue ==
    ASSUME NEW c, NEW p, NEW r, Tidy(c), Plan(p, c)
    PROVE  PageIsWhatItsRecordSays([manifest |-> NextManifest(c, p, r), tree |-> NextTree(c, p, r)])
<1> DEFINE m == c.manifest
           n == NextManifest(c, p, r)
           t == NextTree(c, p, r)
<1> SUFFICES ASSUME NEW d \in Current(n)
             PROVE  n[d].slug \in DOMAIN t /\ t[n[d].slug] = Page(d, n[d].text, n[d].stamp)
  BY DEF PageIsWhatItsRecordSays
<1>1. CASE d \in Written(c, p, r)
  <2>1. n[d] = CurrentRecord(p.slug[d], p.seen[d], r)
    BY <1>1, Records
  <2>2. p.slug[d] \in DOMAIN t /\ t[p.slug[d]] = Page(d, p.seen[d], r)
    BY <1>1, WrittenPages
  <2> HIDE DEF n, t
  <2> QED
    BY <2>1, <2>2 DEF CurrentRecord
<1>2. CASE d \in Unchanged(c, p, r)
  <2>1. n[d] = CurrentRecord(m[d].slug, m[d].text, r) /\ c.tree[m[d].slug] = Page(d, m[d].text, r)
    BY <1>2, Records
  <2>2. m[d].slug \in DOMAIN t /\ t[m[d].slug] = c.tree[m[d].slug]
    BY <1>2, KeptPages
  <2> HIDE DEF n, t, m
  <2> QED
    BY <2>1, <2>2 DEF CurrentRecord
<1>3. CASE d \in Carried(c, p, r)
  <2>1. n[d] = m[d]
    BY <1>3, Records
  <2>2. m[d].slug \in DOMAIN t /\ t[m[d].slug] = c.tree[m[d].slug]
    BY <1>3, KeptPages
  <2>3. d \in Current(m)
    BY <1>3, Roles DEF Carried
  <2>4. c.tree[m[d].slug] = Page(d, m[d].text, m[d].stamp)
    BY <2>3 DEF Tidy, PageIsWhatItsRecordSays
  <2> HIDE DEF n, t, m
  <2> QED
    BY <2>1, <2>2, <2>4
<1> QED
  BY <1>1, <1>2, <1>3, NewSlugs

\* A file that stays and that some record had was, and is, a current document's.
LEMMA OldFiles ==
    ASSUME NEW c, NEW p, NEW r, Tidy(c), Plan(p, c), NEW d \in DOMAIN c.manifest,
           c.manifest[d].slug \in DOMAIN NextTree(c, p, r),
           c.manifest[d].slug \notin WrittenSlugs(c, p, r)
    PROVE  /\ d \notin Removed(c, p)
           /\ \E e \in Unchanged(c, p, r) \cup Carried(c, p, r) :
                 c.manifest[e].slug = c.manifest[d].slug
<1> DEFINE m == c.manifest
           s == m[d].slug
<1>1. s \in DOMAIN c.tree /\ s \notin Dropped(c, p, r)
  BY DEF NextTree
<1>2. d \notin Removed(c, p)
  BY <1>1, Slugged
<1>3. PICK e \in Current(m) : m[e].slug = s
  <2>1. CASE d \in Current(m)
    BY <2>1
  <2>2. CASE d \notin Current(m)
    BY <1>1, <2>2 DEF Tidy, NothingIsLeft, Slugs
  <2> QED
    BY <2>1, <2>2
<1>4. e \notin Removed(c, p) /\ e \notin Written(c, p, r)
  BY <1>1, <1>3, Slugged
<1>5. e \in Unchanged(c, p, r) \cup Failed(c, p, r)
  BY <1>4, Roles
<1>6. e \in Failed(c, p, r) => e \in Carried(c, p, r)
  BY <1>3 DEF Carried
<1> QED
  BY <1>2, <1>3, <1>5, <1>6

After(c, p, r) == [manifest |-> NextManifest(c, p, r), tree |-> NextTree(c, p, r)]

LEMMA RecordForms ==
    /\ \A slug, v, r : LET x == CurrentRecord(slug, v, r) IN
          /\ x.status = "current" /\ x.slug = slug /\ x.text = v /\ x.stamp = r
          /\ x = [status |-> x.status, slug |-> x.slug, text |-> x.text, stamp |-> x.stamp]
    /\ \A old : LET x == Tombstone(old) IN
          /\ x.status = "removed" /\ x.slug = old.slug
          /\ x = [status |-> x.status, slug |-> x.slug, text |-> x.text, stamp |-> x.stamp]
<1>1. \A slug, v, r : LET x == CurrentRecord(slug, v, r) IN
          /\ x.status = "current" /\ x.slug = slug /\ x.text = v /\ x.stamp = r
          /\ x = [status |-> x.status, slug |-> x.slug, text |-> x.text, stamp |-> x.stamp]
  BY DEF CurrentRecord
<1>2. \A old : LET x == Tombstone(old) IN
          /\ x.status = "removed" /\ x.slug = old.slug
          /\ x = [status |-> x.status, slug |-> x.slug, text |-> x.text, stamp |-> x.stamp]
  BY DEF Tombstone
<1> QED
  BY <1>1, <1>2

\* A slug that is free for a document, and that some record has, is the document's own.
LEMMA FreeIsHad ==
    ASSUME NEW m, NEW slug, NEW d, FreeFor(Had(m), slug, d), NEW e \in DOMAIN m, m[e].slug = slug
    PROVE  d \in DOMAIN m /\ m[d].slug = slug
<1>1. e \in Owners(Had(m), slug)
  BY DEF Owners, Had
<1>2. d \in Owners(Had(m), slug)
  BY <1>1 DEF FreeFor, Owns
<1> QED
  BY <1>2 DEF Owners, Had

LEMMA NextNames ==
    ASSUME NEW c, NEW p, NEW r, Tidy(c), Plan(p, c)
    PROVE  LET m == c.manifest
               n == NextManifest(c, p, r)
           IN
           /\ Asking(Had(n))
           /\ \A d \in DOMAIN n :
                 /\ n[d] = [status |-> n[d].status, slug |-> n[d].slug, text |-> n[d].text,
                            stamp |-> n[d].stamp]
                 /\ n[d].status \in {"current", "removed"}
           /\ HandsNothingOver(m, n)
           /\ \A d, e \in DOMAIN n : d # e /\ n[d].slug = n[e].slug
                => d \in DOMAIN m /\ e \in DOMAIN m /\ m[d].slug = m[e].slug
<1> DEFINE m == c.manifest
           n == NextManifest(c, p, r)
           W == Written(c, p, r)
<1>1. /\ \A d \in W : n[d].slug = p.slug[d]
      /\ \A d \in DOMAIN n \ W : d \in DOMAIN m /\ n[d].slug = m[d].slug
  <2> HIDE DEF n
  <2> QED
    BY NewSlugs DEF n
<1>2. W \subseteq DOMAIN p.slug
  BY Roles DEF Plan
<1>3. \A d \in W : FreeFor(Had(m), p.slug[d], d) /\ Sequence(p.slug[d])
  BY <1>2 DEF Plan, Asking
<1>4. \A d \in DOMAIN m : Sequence(m[d].slug)
  BY DEF Tidy, Asking, Had
<1>5. /\ \A d \in W : n[d] = CurrentRecord(p.slug[d], p.seen[d], r)
      /\ \A d \in Removed(c, p) : n[d] = Tombstone(m[d])
      /\ \A d \in Unchanged(c, p, r) : n[d] = CurrentRecord(m[d].slug, m[d].text, r)
      /\ \A d \in Carried(c, p, r) \cup Tombstones(c, p) : n[d] = m[d]
  <2> HIDE DEF n
  <2> QED
    BY Records DEF n
<1>6. DOMAIN n = W \cup Removed(c, p) \cup Unchanged(c, p, r) \cup Carried(c, p, r)
                   \cup Tombstones(c, p)
  <2> HIDE DEF n
  <2> QED
    BY Roles DEF n
<1>7. \A d \in W : \A e \in W : p.slug[d] = p.slug[e] => d = e
  BY <1>2 DEF Plan, IsInjective
<1> HIDE DEF n, W
<1>8. Asking(Had(n))
  <2>1. DOMAIN n \subseteq DOMAIN m \cup DOMAIN p.slug
    BY <1>1, <1>2
  <2>2. IsFiniteSet(DOMAIN m) /\ IsFiniteSet(DOMAIN p.slug) /\ DOMAIN m \subseteq Nat
        /\ DOMAIN p.slug \subseteq Nat
    BY DEF Tidy, Plan, Asking, Had
  <2>3. IsFiniteSet(DOMAIN n)
    BY <2>1, <2>2, UnionSize, FS_Subset
  <2>4. \A d \in DOMAIN n : Sequence(n[d].slug)
    BY <1>1, <1>3, <1>4
  <2> QED
    BY <2>1, <2>2, <2>3, <2>4 DEF Asking, Had
<1>9. ASSUME NEW d \in DOMAIN n
      PROVE  /\ n[d] = [status |-> n[d].status, slug |-> n[d].slug, text |-> n[d].text,
                        stamp |-> n[d].stamp]
             /\ n[d].status \in {"current", "removed"}
  <2>1. CASE d \in W \cup Unchanged(c, p, r)
    BY <1>5, <2>1, RecordForms
  <2>2. CASE d \in Removed(c, p)
    BY <1>5, <2>2, RecordForms
  <2>3. CASE d \in Carried(c, p, r) \cup Tombstones(c, p)
    <3>1. d \in DOMAIN m
      BY <2>3 DEF Carried, Failed, Wanted, New, Changed, Renamed, Stale, Kept, Current, Tombstones
    <3> QED
      BY <1>5, <2>3, <3>1 DEF Tidy
  <2> QED
    BY <1>6, <2>1, <2>2, <2>3
<1>10. HandsNothingOver(m, n)
  <2> SUFFICES ASSUME NEW d \in DOMAIN m, NEW e \in DOMAIN n, m[d].slug = n[e].slug
               PROVE  e \in DOMAIN m /\ m[e].slug = m[d].slug
    BY DEF HandsNothingOver
  <2>1. CASE e \in W
    BY <1>1, <1>3, <2>1, FreeIsHad
  <2>2. CASE e \notin W
    BY <1>1, <2>2
  <2> QED
    BY <2>1, <2>2
<1>11. ASSUME NEW d \in DOMAIN n, NEW e \in DOMAIN n, d # e, n[d].slug = n[e].slug
       PROVE  d \in DOMAIN m /\ e \in DOMAIN m /\ m[d].slug = m[e].slug
  <2>1. CASE d \in W /\ e \notin W
    BY <1>1, <1>3, <1>11, <2>1, FreeIsHad
  <2>2. CASE d \notin W /\ e \in W
    BY <1>1, <1>3, <1>11, <2>2, FreeIsHad
  <2>3. CASE d \notin W /\ e \notin W
    BY <1>1, <1>11, <2>3
  <2>4. ~(d \in W /\ e \in W)
    BY <1>1, <1>7, <1>11
  <2> QED
    BY <2>1, <2>2, <2>3, <2>4
<1> QED
  BY <1>8, <1>9, <1>10, <1>11 DEF n

LEMMA NextIsTidy ==
    ASSUME NEW c, NEW p, NEW r, Tidy(c), Plan(p, c)
    PROVE  Tidy(After(c, p, r))
<1> DEFINE m == c.manifest
           n == NextManifest(c, p, r)
           t == NextTree(c, p, r)
           a == After(c, p, r)
<1>1. a.manifest = n /\ a.tree = t /\ a = [manifest |-> n, tree |-> t]
  BY DEF After
<1>2. t = [s \in DOMAIN t |-> t[s]]
  BY Zenon DEF NextTree
<1>3. NothingIsLeft([manifest |-> n, tree |-> t])
  <2> SUFFICES ASSUME NEW d \in DOMAIN n \ Current(n), n[d].slug \in DOMAIN t
               PROVE  n[d].slug \in Slugs(n, Current(n))
    BY DEF NothingIsLeft
  <2>1. d \notin Written(c, p, r) /\ d \in DOMAIN n
        /\ Current(n) = Written(c, p, r) \cup Unchanged(c, p, r) \cup Carried(c, p, r)
    <3> HIDE DEF n
    <3> QED
      BY NewSlugs DEF n
  <2>2. d \in DOMAIN m /\ n[d].slug = m[d].slug
    BY <2>1, NewSlugs
  <2>3. \A e \in Unchanged(c, p, r) \cup Carried(c, p, r) : n[e].slug = m[e].slug
    <3>1. \A e \in Unchanged(c, p, r) \cup Carried(c, p, r) :
             e \in DOMAIN n \ Written(c, p, r)
      <4>1. Unchanged(c, p, r) \subseteq (Current(m) \cap DOMAIN p.seen) \ Written(c, p, r)
        BY Roles
      <4>2. Failed(c, p, r) \subseteq (Current(m) \cap DOMAIN p.seen) \ Written(c, p, r)
        BY Roles
      <4>3. Current(n) \subseteq DOMAIN n
        BY DEF Current
      <4> HIDE DEF n
      <4> QED
        BY <2>1, <4>1, <4>2, <4>3 DEF Carried
    <3> QED
      BY <3>1, NewSlugs
  <2>4. \A e \in Written(c, p, r) : n[e].slug = p.slug[e]
    BY NewSlugs
  <2>5. CASE m[d].slug \in WrittenSlugs(c, p, r)
    <3>1. PICK e \in Written(c, p, r) : m[d].slug = p.slug[e]
      BY <2>5, Slugged
    <3> HIDE DEF n, m
    <3> QED
      BY <2>1, <2>2, <2>4, <3>1 DEF Slugs
  <2>6. CASE m[d].slug \notin WrittenSlugs(c, p, r)
    <3>1. PICK e \in Unchanged(c, p, r) \cup Carried(c, p, r) : m[e].slug = m[d].slug
      BY <2>2, <2>6, OldFiles
    <3> HIDE DEF n, m
    <3> QED
      BY <2>1, <2>2, <2>3, <3>1 DEF Slugs
  <2> QED
    BY <2>5, <2>6
<1>4. PageIsWhatItsRecordSays([manifest |-> n, tree |-> t])
  BY NextPagesAreTrue
<1>5. Asking(Had(n)) /\ \A d \in DOMAIN n :
          /\ n[d] = [status |-> n[d].status, slug |-> n[d].slug, text |-> n[d].text,
                     stamp |-> n[d].stamp]
          /\ n[d].status \in {"current", "removed"}
  BY NextNames
<1> HIDE DEF n, t, a
<1> QED
  BY <1>1, <1>2, <1>3, <1>4, <1>5 DEF Tidy, a

Duplicated(m) == {d \in DOMAIN m : \E e \in DOMAIN m \ {d} : m[e].slug = m[d].slug}
Orphaned(c) == DOMAIN c.tree \ Slugs(c.manifest, DOMAIN c.manifest)

\* In a tidy corpus nothing is left to contradict but a shared name and a page of no record.
LEMMA TidyContradictions ==
    ASSUME NEW c, Tidy(c)
    PROVE  Contradictions(c) = {<<"duplicate_path_ownership", d>> : d \in Duplicated(c.manifest)}
                                 \cup {<<"orphan_document", s>> : s \in Orphaned(c)}
<1> DEFINE m == c.manifest
           current == Current(m)
           duplicates == {x \in {<<"duplicate_path_ownership", d>> : d \in DOMAIN m} :
                             \E e \in DOMAIN m \ {x[2]} : m[e].slug = m[x[2]].slug}
<1>1. \A d \in current : m[d].slug \in DOMAIN c.tree /\ c.tree[m[d].slug].doc = d
  <2>1. \A d, v, r : Page(d, v, r).doc = d
    BY DEF Page
  <2> QED
    BY <2>1 DEF Tidy, PageIsWhatItsRecordSays
<1>2. {e \in current : m[e].slug \in DOMAIN c.tree /\ c.tree[m[e].slug].doc # e} = {}
  BY <1>1
<1>3. {e \in current : m[e].slug \notin DOMAIN c.tree} = {}
  BY <1>1
<1>4. {e \in DOMAIN m \ current : m[e].slug \in DOMAIN c.tree \ Slugs(m, current)} = {}
  BY DEF Tidy, NothingIsLeft
<1>5. duplicates = {<<"duplicate_path_ownership", d>> : d \in Duplicated(m)}
  BY DEF Duplicated
<1>6. Contradictions(c) =
        duplicates
        \cup {<<"identity_mismatch", d>> : d \in
                {e \in current : m[e].slug \in DOMAIN c.tree /\ c.tree[m[e].slug].doc # e}}
        \cup {<<"missing_document", d>> : d \in {e \in current : m[e].slug \notin DOMAIN c.tree}}
        \cup {<<"tombstoned_but_present", d>> : d \in
                {e \in DOMAIN m \ current : m[e].slug \in DOMAIN c.tree \ Slugs(m, current)}}
        \cup {<<"orphan_document", s>> : s \in Orphaned(c)}
  BY Zenon DEF Contradictions, Orphaned
<1> HIDE DEF duplicates, current, m
<1>7. /\ {<<"identity_mismatch", d>> : d \in {}} = {} /\ {<<"missing_document", d>> : d \in {}} = {}
      /\ {<<"tombstoned_but_present", d>> : d \in {}} = {}
  OBVIOUS
<1>8. Contradictions(c) = duplicates \cup {<<"orphan_document", s>> : s \in Orphaned(c)}
  BY <1>2, <1>3, <1>4, <1>6, <1>7, Zenon
<1> QED
  BY <1>5, <1>8 DEF m

\* corpus_audit.py: what a run leaves contradicts nothing that it did not contradict before.
LEMMA NothingContradicts ==
    ASSUME NEW c, NEW p, NEW r, Tidy(c), Plan(p, c)
    PROVE  Contradictions(After(c, p, r)) \subseteq Contradictions(c)
<1> DEFINE m == c.manifest
           n == NextManifest(c, p, r)
           t == NextTree(c, p, r)
           a == After(c, p, r)
<1>1. a.manifest = n /\ a.tree = t
  BY DEF After
<1>2. Duplicated(n) \subseteq Duplicated(m)
  <2> SUFFICES ASSUME NEW d \in Duplicated(n) PROVE d \in Duplicated(m)
    OBVIOUS
  <2>1. PICK e \in DOMAIN n : e # d /\ n[e].slug = n[d].slug
    BY DEF Duplicated
  <2>2. d \in DOMAIN n
    BY DEF Duplicated
  <2>3. d \in DOMAIN m /\ e \in DOMAIN m /\ m[d].slug = m[e].slug
    BY <2>1, <2>2, NextNames
  <2> QED
    BY <2>1, <2>3 DEF Duplicated
<1>3. ASSUME NEW s \in Orphaned(a)
      PROVE  s \in Orphaned(c)
  <2>1. s \in DOMAIN t /\ \A d \in DOMAIN n : n[d].slug # s
    BY <1>1, <1>3 DEF Orphaned, Slugs
  <2>2. s \notin WrittenSlugs(c, p, r)
    <3>1. \A d \in Written(c, p, r) : d \in DOMAIN n /\ n[d].slug = p.slug[d]
      <4>1. \A d \in Written(c, p, r) : n[d].slug = p.slug[d]
        BY NewSlugs
      <4>2. DOMAIN n = Written(c, p, r) \cup Removed(c, p) \cup Unchanged(c, p, r)
                          \cup Carried(c, p, r) \cup Tombstones(c, p)
        <5> HIDE DEF n
        <5> QED
          BY Roles DEF n
      <4> HIDE DEF n
      <4> QED
        BY <4>1, <4>2
    <3>2. \A x \in WrittenSlugs(c, p, r) : \E d \in Written(c, p, r) : x = p.slug[d]
      BY Slugged
    <3> QED
      BY <2>1, <3>1, <3>2
  <2>3. s \in DOMAIN c.tree
    BY <2>1, <2>2 DEF NextTree
  <2>4. ASSUME NEW d \in DOMAIN m, m[d].slug = s
        PROVE  FALSE
    <3>1. PICK e \in Unchanged(c, p, r) \cup Carried(c, p, r) : m[e].slug = s
      BY <2>1, <2>2, <2>4, OldFiles
    <3>2. e \in DOMAIN n /\ e \notin Written(c, p, r)
      <4>1. Current(n) = Written(c, p, r) \cup Unchanged(c, p, r) \cup Carried(c, p, r)
        BY NewSlugs
      <4>2. Unchanged(c, p, r) \subseteq (Current(m) \cap DOMAIN p.seen) \ Written(c, p, r)
        BY Roles
      <4>3. Failed(c, p, r) \subseteq (Current(m) \cap DOMAIN p.seen) \ Written(c, p, r)
        BY Roles
      <4>4. Current(n) \subseteq DOMAIN n
        BY DEF Current
      <4> HIDE DEF n
      <4> QED
        BY <3>1, <4>1, <4>2, <4>3, <4>4 DEF Carried
    <3>3. n[e].slug = m[e].slug
      BY <3>2, NewSlugs
    <3> QED
      BY <2>1, <3>1, <3>2, <3>3
  <2> QED
    BY <2>3, <2>4 DEF Orphaned, Slugs
<1>4. Tidy(a)
  BY NextIsTidy
<1>5. /\ Contradictions(a) = {<<"duplicate_path_ownership", d>> : d \in Duplicated(n)}
                              \cup {<<"orphan_document", s>> : s \in Orphaned(a)}
      /\ Contradictions(c) = {<<"duplicate_path_ownership", d>> : d \in Duplicated(m)}
                              \cup {<<"orphan_document", s>> : s \in Orphaned(c)}
  <2> HIDE DEF a, n, m
  <2> QED
    BY <1>1, <1>4, TidyContradictions DEF m
<1> HIDE DEF a, n, m
<1>6. Contradictions(a) \subseteq Contradictions(c)
  BY <1>2, <1>3, <1>5
<1> QED
  BY <1>6 DEF a

\* _guard_mass_removal: where no two records shared a slug, the documents that go are those
\* that upstream withdrew.
LEMMA NothingIsWiped ==
    ASSUME NEW c, NEW p, NEW r, Tidy(c), Plan(p, c), ~MassRemoval(c, p),
           IsInjective(Had(c.manifest))
    PROVE  LET n == NextManifest(c, p, r) IN
           IsInjective(Had(n)) /\ WipesNothing(Current(c.manifest), Current(n))
<1> DEFINE m == c.manifest
           n == NextManifest(c, p, r)
<1>1. IsInjective(Had(n))
  <2>1. \A d, e \in DOMAIN n : d # e /\ n[d].slug = n[e].slug
          => d \in DOMAIN m /\ e \in DOMAIN m /\ m[d].slug = m[e].slug
    BY NextNames
  <2> HIDE DEF n
  <2> QED
    BY <2>1 DEF IsInjective, Had
<1>2. Current(m) \ Current(n) \subseteq Removed(c, p)
  <2> SUFFICES ASSUME NEW d \in Current(m), d \notin Current(n), d \notin Removed(c, p)
               PROVE  FALSE
    OBVIOUS
  <2>1. Current(n) = Written(c, p, r) \cup Unchanged(c, p, r) \cup Carried(c, p, r)
    BY NewSlugs
  <2>2. Current(m) \subseteq Written(c, p, r) \cup Removed(c, p) \cup Unchanged(c, p, r)
                                      \cup Failed(c, p, r)
    BY Roles
  <2>3. d \in Failed(c, p, r) /\ m[d].slug \in WrittenSlugs(c, p, r) /\ d \notin Written(c, p, r)
    <3> HIDE DEF n
    <3> QED
      BY <2>1, <2>2 DEF Carried
  <2>4. PICK e \in Written(c, p, r) : m[d].slug = p.slug[e]
    BY <2>3, Slugged
  <2>5. FreeFor(Had(m), p.slug[e], e) /\ d \in DOMAIN m
    <3>1. Written(c, p, r) \subseteq DOMAIN p.slug
      BY Roles DEF Plan
    <3> QED
      BY <3>1 DEF Plan, Current
  <2>6. e \in DOMAIN m /\ m[e].slug = m[d].slug
    BY <2>4, <2>5, FreeIsHad
  <2>7. e = d
    BY <2>5, <2>6 DEF IsInjective, Had
  <2> QED
    BY <2>3, <2>7
<1>3. WipesNothing(Current(m), Current(n))
  <2> DEFINE S == Current(m)
             L == S \ Current(n)
             R == Removed(c, p)
  <2>1. IsFiniteSet(S)
    <3>1. IsFiniteSet(DOMAIN m) /\ Current(m) \in SUBSET DOMAIN m
      BY DEF Tidy, Asking, Had, Current
    <3> QED
      BY <3>1, FS_Subset
  <2>2. R \subseteq S /\ L \subseteq R
    BY <1>2 DEF Removed
  <2>3. Cardinality(S) >= GuardMin => ~(100 * Cardinality(R) > MaxRemoval * Cardinality(S))
    BY DEF MassRemoval
  <2>4. WipesNothing(S, Current(n))
          <=> (Cardinality(S) >= GuardMin => 100 * Cardinality(L) <= MaxRemoval * Cardinality(S))
    BY DEF WipesNothing
  <2> HIDE DEF S, L, R
  <2>5. IsFiniteSet(R) /\ IsFiniteSet(L) /\ Cardinality(L) <= Cardinality(R)
    BY <2>1, <2>2, FS_Subset
  <2>6. Cardinality(S) \in Nat /\ Cardinality(R) \in Nat /\ Cardinality(L) \in Nat
    BY <2>1, <2>5, FS_CardinalityType
  <2> DEFINE x == MaxRemoval * Cardinality(S)
  <2>7. x \in Nat
    BY <2>6, SyncAssumption
  <2> HIDE DEF x
  <2>8. Cardinality(S) >= GuardMin => 100 * Cardinality(L) <= x
    <3>1. Cardinality(S) >= GuardMin => ~(100 * Cardinality(R) > x)
      BY <2>3 DEF x
    <3> QED
      BY <2>5, <2>6, <2>7, <3>1
  <2> QED
    BY <2>4, <2>8 DEF S, x
<1> QED
  BY <1>1, <1>3

\* What an old renderer made is a page that this one fails on.
LEMMA OldOnesFail ==
    ASSUME NEW c, NEW p, NEW r \in Nat, Tidy(c), NEW d \in OldRenders(NextManifest(c, p, r), r)
    PROVE  d \in DOMAIN p.seen /\ ~Renders(p.seen[d], r)
<1> DEFINE n == NextManifest(c, p, r)
<1>1. d \in Current(n) /\ n[d].stamp < r
  BY DEF OldRenders
<1>2. Current(n) = Written(c, p, r) \cup Unchanged(c, p, r) \cup Carried(c, p, r)
  BY NewSlugs
<1>3. /\ \A x \in Written(c, p, r) : n[x] = CurrentRecord(p.slug[x], p.seen[x], r)
      /\ \A x \in Unchanged(c, p, r) :
            n[x] = CurrentRecord(c.manifest[x].slug, c.manifest[x].text, r)
  BY Records
<1> HIDE DEF n
<1>4. \A x \in Written(c, p, r) \cup Unchanged(c, p, r) : n[x].stamp = r
  BY <1>3, RecordForms
<1>5. d \in Carried(c, p, r)
  BY <1>1, <1>2, <1>4
<1> QED
  BY <1>5, Roles DEF Carried

-----------------------------------------------------------------------------
(* What a run commits *)

\* Every finite set of numbers can be listed in its order.
LEMMA OrderExists ==
    ASSUME NEW S, IsFiniteSet(S), \A x \in S : x \in Nat
    PROVE  \E n \in Nat : \E f \in [1..n -> S] :
              (\A i, j \in 1..n : i < j => f[i] < f[j]) /\ (\A x \in S : \E i \in 1..n : f[i] = x)
<1> DEFINE Lists(X, n, f) == /\ f \in [1..n -> X]
                             /\ \A i, j \in 1..n : i < j => f[i] < f[j]
                             /\ \A x \in X : \E i \in 1..n : f[i] = x
           T == {X \in SUBSET S : ~\E n \in Nat : \E f : Lists(X, n, f)}
<1> SUFFICES ASSUME T # {} PROVE FALSE
  <2> SUFFICES ASSUME T = {}
               PROVE  \E n \in Nat : \E f : Lists(S, n, f)
    BY Zenon
  <2> HIDE DEF Lists
  <2> QED
    OBVIOUS
<1>1. T \in SUBSET SUBSET S
  OBVIOUS
<1>2. \A X : X \in T <=> X \in SUBSET S /\ ~\E n \in Nat : \E f : Lists(X, n, f)
  OBVIOUS
<1> HIDE DEF T
<1>3. PICK X \in T : \A Y \in T : Y \subseteq X => Y = X
  BY <1>1, MinimalSubset
<1>4. X # {}
  <2> SUFFICES ASSUME X = {} PROVE FALSE
    OBVIOUS
  <2>1. Lists({}, 0, [i \in {} |-> i])
    BY SMT
  <2> HIDE DEF Lists
  <2> QED
    BY <1>2, <1>3, <2>1
<1>5. IsFiniteSet(X) /\ \A x \in X : x \in Nat
  BY <1>2, <1>3, FS_Subset
<1> DEFINE R == {p \in X \X X : p[1] < p[2]}
<1>6. \A a, b : <<a, b>> \in R <=> a \in X /\ b \in X /\ a < b
  OBVIOUS
<1> HIDE DEF R
<1>7. PICK m \in X : \A y \in X : <<m, y>> \notin R
  <2>1. /\ \A a \in X : <<a, a>> \notin R
        /\ \A a, b, c \in X : <<a, b>> \in R /\ <<b, c>> \in R => <<a, c>> \in R
    BY <1>5, <1>6
  <2> QED
    BY <1>4, <1>5, <2>1, LastElement
<1>8. \A y \in X : y <= m
  <2> SUFFICES ASSUME NEW y \in X PROVE y <= m
    OBVIOUS
  <2>1. ~(m < y)
    BY <1>6, <1>7
  <2>2. y \in Nat /\ m \in Nat
    BY <1>5
  <2> QED
    BY <2>1, <2>2
<1> DEFINE Y == X \ {m}
<1>9. PICK n \in Nat : \E f : Lists(Y, n, f)
  <2>1. Y \subseteq X /\ Y # X /\ Y \in SUBSET S
    BY <1>2, <1>3
  <2> HIDE DEF Lists, Y
  <2>2. Y \notin T
    BY <1>3, <2>1
  <2> QED
    BY <1>2, <2>1, <2>2
<1>10. PICK f : Lists(Y, n, f)
  BY <1>9
<1> DEFINE g == [i \in 1..(n + 1) |-> IF i = n + 1 THEN m ELSE f[i]]
<1>11. f \in [1..n -> Y] /\ (\A i, j \in 1..n : i < j => f[i] < f[j])
       /\ \A x \in Y : \E i \in 1..n : f[i] = x
  BY <1>10
<1>12. \A i \in 1..(n + 1) : i = n + 1 \/ i \in 1..n
  OBVIOUS
<1>13. g \in [1..(n + 1) -> X]
  BY <1>11, <1>12
<1>14. g[n + 1] = m /\ (\A i \in 1..n : i \in 1..(n + 1) /\ g[i] = f[i])
  OBVIOUS
<1> HIDE DEF g
<1>15. \A i, j \in 1..(n + 1) : i < j => g[i] < g[j]
  <2> SUFFICES ASSUME NEW i \in 1..(n + 1), NEW j \in 1..(n + 1), i < j PROVE g[i] < g[j]
    OBVIOUS
  <2>1. i \in 1..n /\ g[i] = f[i] /\ f[i] \in X /\ f[i] # m
    BY <1>11, <1>12, <1>14
  <2>2. CASE j = n + 1
    <3>1. f[i] <= m /\ f[i] \in Nat /\ m \in Nat
      BY <1>5, <1>8, <2>1
    <3> QED
      BY <1>14, <2>1, <2>2, <3>1
  <2>3. CASE j \in 1..n
    BY <1>11, <1>14, <2>1, <2>3
  <2> QED
    BY <1>12, <2>2, <2>3
<1>16. \A x \in X : \E i \in 1..(n + 1) : g[i] = x
  <2> SUFFICES ASSUME NEW x \in X PROVE \E i \in 1..(n + 1) : g[i] = x
    OBVIOUS
  <2>1. CASE x = m
    BY <1>14, <2>1
  <2>2. CASE x \in Y
    BY <1>11, <1>14, <2>2
  <2> QED
    BY <2>1, <2>2
<1>17. n + 1 \in Nat /\ Lists(X, n + 1, g)
  BY <1>13, <1>15, <1>16
<1> HIDE DEF Lists
<1> QED
  BY <1>2, <1>3, <1>17

\* No document is left out of its list.
LEMMA OrderIsWhole ==
    ASSUME NEW S, IsFiniteSet(S), \A x \in S : x \in Nat
    PROVE  /\ Cardinality(S) \in Nat
           /\ \A i \in 1..Cardinality(S) : InOrder(S)[i] \in S
           /\ \A x \in S : \E i \in 1..Cardinality(S) : InOrder(S)[i] = x
<1>1. Cardinality(S) \in Nat
  BY FS_CardinalityType
<1>2. PICK n \in Nat : \E f \in [1..n -> S] :
          (\A i, j \in 1..n : i < j => f[i] < f[j]) /\ (\A x \in S : \E i \in 1..n : f[i] = x)
  BY OrderExists
<1>3. PICK f \in [1..n -> S] :
          (\A i, j \in 1..n : i < j => f[i] < f[j]) /\ (\A x \in S : \E i \in 1..n : f[i] = x)
  BY <1>2
<1> DEFINE N == Cardinality(S)
           Sorted(q) == \A i, j \in DOMAIN q : i < j => q[i] < q[j]
<1>4. n = N
  <2>1. \A i, j \in 1..n : f[i] = f[j] => i = j
    <3> SUFFICES ASSUME NEW i \in 1..n, NEW j \in 1..n, i # j, f[i] = f[j] PROVE FALSE
      OBVIOUS
    <3>1. i < j \/ j < i
      OBVIOUS
    <3>2. f[i] < f[j] \/ f[j] < f[i]
      BY <1>3, <3>1
    <3>3. f[i] \in Nat
      OBVIOUS
    <3> QED
      BY <3>2, <3>3
  <2>2. f \in Bijection(1..n, S)
    BY <1>3, <2>1 DEF Bijection, Injection, Surjection, IsInjective
  <2> QED
    BY <2>2, FS_CountingElements DEF ExistsBijection
<1>5. InOrder(S) = CHOOSE q \in [1..N -> S] : Sorted(q)
  BY DEF InOrder
<1>6. Sorted(f) /\ f \in [1..N -> S]
  BY <1>3, <1>4
<1> DEFINE q == InOrder(S)
<1>7. q \in [1..N -> S] /\ Sorted(q)
  <2> HIDE DEF Sorted, N
  <2> QED
    BY <1>5, <1>6
<1> HIDE DEF q
<1>8. q \in Injection(1..N, S)
  <2> SUFFICES ASSUME NEW i \in 1..N, NEW j \in 1..N, i # j, q[i] = q[j] PROVE FALSE
    BY <1>7 DEF Injection, IsInjective
  <2>1. i < j \/ j < i
    BY <1>1
  <2>2. q[i] < q[j] \/ q[j] < q[i]
    BY <1>7, <2>1
  <2>3. q[i] \in Nat
    BY <1>7
  <2> QED
    BY <2>2, <2>3
<1>9. IsFiniteSet(1..N) /\ Cardinality(1..N) = N
  BY <1>1, FS_Interval
<1>10. q \in Surjection(1..N, S)
  BY <1>8, <1>9, FS_Injection
<1>11. \A x \in S : \E i \in 1..N : q[i] = x
  BY <1>10 DEF Surjection
<1> QED
  BY <1>1, <1>7, <1>11 DEF q

\* The paths that are still to be committed.
Todo(queue, final) == (UNION Range(queue)) \cup final

LEMMA Joined ==
    ASSUME NEW T, NEW a \in Seq(T), NEW b \in Seq(T)
    PROVE  a \o b \in Seq(T) /\ Range(a) \subseteq Range(a \o b) /\ Range(b) \subseteq Range(a \o b)
<1> DEFINE q == a \o b
<1>1. q \in Seq(T) /\ Len(q) = Len(a) + Len(b) /\ Len(a) \in Nat /\ Len(b) \in Nat
  OBVIOUS
<1>2. DOMAIN a = 1..Len(a) /\ DOMAIN b = 1..Len(b) /\ DOMAIN q = 1..Len(q)
  OBVIOUS
<1>3. \A i \in 1..Len(a) : q[i] = a[i]
  OBVIOUS
<1>4. \A i \in 1..Len(b) : q[Len(a) + i] = b[i]
  OBVIOUS
<1> HIDE DEF q
<1>5. \A i \in 1..Len(a) : i \in 1..Len(q)
  BY <1>1
<1>6. \A i \in 1..Len(b) : Len(a) + i \in 1..Len(q)
  BY <1>1
<1>7. Range(a) \subseteq Range(q)
  BY <1>2, <1>3, <1>5 DEF Range
<1>8. Range(b) \subseteq Range(q)
  BY <1>2, <1>4, <1>6 DEF Range
<1> QED
  BY <1>1, <1>7, <1>8 DEF q

LEMMA FirstAndRest ==
    ASSUME NEW T, NEW q \in Seq(T), q # <<>>
    PROVE  Tail(q) \in Seq(T) /\ Range(q) \subseteq {Head(q)} \cup Range(Tail(q))
<1> DEFINE t == Tail(q)
<1>1. t \in Seq(T) /\ Len(t) = Len(q) - 1 /\ Len(q) \in Nat /\ DOMAIN q = 1..Len(q)
      /\ DOMAIN t = 1..Len(t) /\ Head(q) = q[1]
  OBVIOUS
<1>2. \A i \in 1..Len(t) : t[i] = q[i + 1]
  OBVIOUS
<1> HIDE DEF t
<1>3. ASSUME NEW i \in 1..Len(q)
      PROVE  q[i] \in {Head(q)} \cup Range(t)
  <2>1. CASE i = 1
    BY <1>1, <2>1
  <2>2. CASE i # 1
    <3>1. i - 1 \in 1..Len(t) /\ (i - 1) + 1 = i
      BY <1>1, <2>2
    <3>2. t[i - 1] = q[i]
      BY <1>2, <3>1
    <3> QED
      BY <1>1, <3>1, <3>2 DEF Range
  <2> QED
    BY <2>1, <2>2
<1>4. Range(q) \subseteq {Head(q)} \cup Range(t)
  BY <1>1, <1>3 DEF Range
<1> QED
  BY <1>1, <1>4 DEF t

Group(c, p, r, S) == IF S = {} THEN <<>> ELSE << UNION {Paths(c, p, r, d) : d \in S} >>
Alone(c, p, r, S) == [i \in 1..Cardinality(S) |-> Paths(c, p, r, InOrder(S)[i])]
Bundles(c, p, r) == SUBSET UNION {Paths(c, p, r, d) : d \in Acting(c, p, r)}

LEMMA AloneIsWhole ==
    ASSUME NEW c, NEW p, NEW r, NEW S \in SUBSET Acting(c, p, r), IsFiniteSet(S),
           \A d \in S : d \in Nat
    PROVE  /\ Alone(c, p, r, S) \in Seq(Bundles(c, p, r))
           /\ \A d \in S : Paths(c, p, r, d) \in Range(Alone(c, p, r, S))
<1>1. /\ Cardinality(S) \in Nat
      /\ \A i \in 1..Cardinality(S) : InOrder(S)[i] \in S
      /\ \A x \in S : \E i \in 1..Cardinality(S) : InOrder(S)[i] = x
  BY OrderIsWhole
<1>2. \A d \in Acting(c, p, r) : Paths(c, p, r, d) \in Bundles(c, p, r)
  BY DEF Bundles
<1> DEFINE N == Cardinality(S)
           a == Alone(c, p, r, S)
<1>3. a = [i \in 1..N |-> Paths(c, p, r, InOrder(S)[i])]
  BY DEF Alone
<1> HIDE DEF N, a
<1>4. \A i \in 1..N : Paths(c, p, r, InOrder(S)[i]) \in Bundles(c, p, r)
  BY <1>1, <1>2 DEF N
<1>5. a \in [1..N -> Bundles(c, p, r)]
  BY <1>3, <1>4
<1>6. N \in Nat
  BY <1>1 DEF N
<1>7. a \in Seq(Bundles(c, p, r))
  BY <1>5, <1>6
<1>8. ASSUME NEW d \in S
      PROVE  Paths(c, p, r, d) \in Range(a)
  <2>1. PICK i \in 1..N : InOrder(S)[i] = d
    BY <1>1 DEF N
  <2>2. i \in DOMAIN a /\ a[i] = Paths(c, p, r, d)
    BY <1>3, <2>1
  <2> QED
    BY <2>2 DEF Range
<1> QED
  BY <1>7, <1>8 DEF a

LEMMA GroupIsWhole ==
    ASSUME NEW c, NEW p, NEW r, NEW S \in SUBSET Acting(c, p, r)
    PROVE  /\ Group(c, p, r, S) \in Seq(Bundles(c, p, r))
           /\ \A d \in S : Paths(c, p, r, d) \subseteq UNION Range(Group(c, p, r, S))
<1> DEFINE all == UNION {Paths(c, p, r, d) : d \in S}
<1>1. all \in Bundles(c, p, r)
  BY DEF Bundles
<1>2. \A d \in S : Paths(c, p, r, d) \subseteq all
  OBVIOUS
<1> HIDE DEF all
<1>3. <<all>> \in Seq(Bundles(c, p, r)) /\ Range(<<all>>) = {all}
  BY <1>1 DEF Range
<1>4. <<>> \in Seq(Bundles(c, p, r))
  OBVIOUS
<1>5. CASE S = {}
  BY <1>4, <1>5 DEF Group
<1>6. CASE S # {}
  <2>1. Group(c, p, r, S) = <<all>>
    BY <1>6 DEF Group, all
  <2> QED
    BY <1>2, <1>3, <2>1
<1> QED
  BY <1>5, <1>6

\* _commit_with_history: the commits of a run hold every path that its documents touch.
LEMMA CommitsAreWhole ==
    ASSUME NEW c, NEW p, NEW r, Tidy(c), Plan(p, c)
    PROVE  LET commits == Commits(c, p, r) IN
           /\ commits = [queue |-> commits.queue, last |-> commits.last]
           /\ commits.queue \in Seq(Bundles(c, p, r))
           /\ \A d \in Acting(c, p, r) :
                 Paths(c, p, r, d) \subseteq Todo(commits.queue, commits.last)
<1> DEFINE A == Acting(c, p, r)
           W == Written(c, p, r)
           re == Stale(c, p, r) \cap W
           others == A \ re
           B == Bundles(c, p, r)
           bulk == setup.single \/ Overlap(c, p, r)
           a1 == Alone(c, p, r, New(c, p) \cap W)
           a2 == Alone(c, p, r, Changed(c, p) \cap W)
           a3 == Alone(c, p, r, Renamed(c, p) \cap W)
           a4 == Alone(c, p, r, Removed(c, p))
           apart == ((a1 \o a2) \o a3) \o a4
           first == Group(c, p, r, re)
           rest == IF bulk THEN <<>> ELSE apart
           final == IF bulk THEN UNION {Paths(c, p, r, d) : d \in others} ELSE {}
           commits == Commits(c, p, r)
<1>1. commits = [queue |-> first \o rest, last |-> final]
  BY DEF Commits, Group, Alone
<1>2. W \subseteq New(c, p) \cup Changed(c, p) \cup Renamed(c, p) \cup Stale(c, p, r)
      /\ W \subseteq DOMAIN p.slug
  <2>1. W \subseteq DOMAIN p.seen
    BY Roles
  <2> QED
    BY <2>1 DEF Written, Wanted, Plan
<1>3. Removed(c, p) \subseteq DOMAIN c.manifest
  BY DEF Removed, Current
<1>4. A = W \cup Removed(c, p)
  BY DEF Acting
<1>5. IsFiniteSet(A) /\ \A d \in A : d \in Nat
  <2>1. IsFiniteSet(DOMAIN c.manifest) /\ IsFiniteSet(DOMAIN p.slug)
    BY DEF Tidy, Plan, Asking, Had
  <2>2. A \subseteq DOMAIN c.manifest \cup DOMAIN p.slug
    BY <1>2, <1>3, <1>4
  <2>3. \A d \in DOMAIN c.manifest \cup DOMAIN p.slug : d \in Nat
    BY DEF Tidy, Plan, Asking, Had
  <2> HIDE DEF A
  <2>4. IsFiniteSet(A)
    BY <2>1, <2>2, UnionSize, FS_Subset
  <2> QED
    BY <2>2, <2>3, <2>4
<1>6. ASSUME NEW S \in SUBSET A
      PROVE  Alone(c, p, r, S) \in Seq(B) /\ \A d \in S : Paths(c, p, r, d) \in Range(Alone(c, p, r, S))
  <2>1. IsFiniteSet(S) /\ \A d \in S : d \in Nat
    <3> HIDE DEF A
    <3> QED
      BY <1>5, FS_Subset
  <2> QED
    BY <2>1, AloneIsWhole
<1>7. /\ New(c, p) \cap W \in SUBSET A /\ Changed(c, p) \cap W \in SUBSET A
      /\ Renamed(c, p) \cap W \in SUBSET A /\ Removed(c, p) \in SUBSET A
      /\ re \in SUBSET A
  BY <1>4
<1>8. first \in Seq(B) /\ \A d \in re : Paths(c, p, r, d) \subseteq UNION Range(first)
  BY <1>7, GroupIsWhole
<1>9. /\ a1 \in Seq(B) /\ \A d \in New(c, p) \cap W : Paths(c, p, r, d) \in Range(a1)
      /\ a2 \in Seq(B) /\ \A d \in Changed(c, p) \cap W : Paths(c, p, r, d) \in Range(a2)
      /\ a3 \in Seq(B) /\ \A d \in Renamed(c, p) \cap W : Paths(c, p, r, d) \in Range(a3)
      /\ a4 \in Seq(B) /\ \A d \in Removed(c, p) : Paths(c, p, r, d) \in Range(a4)
  BY <1>6, <1>7
<1> HIDE DEF a1, a2, a3, a4, first, B, A, W, re, bulk, commits
<1>10. apart \in Seq(B) /\ Range(a1) \subseteq Range(apart) /\ Range(a2) \subseteq Range(apart)
       /\ Range(a3) \subseteq Range(apart) /\ Range(a4) \subseteq Range(apart)
  <2> DEFINE b == a1 \o a2
             e == b \o a3
  <2>1. b \in Seq(B) /\ Range(a1) \subseteq Range(b) /\ Range(a2) \subseteq Range(b)
    BY <1>9, Joined
  <2> HIDE DEF b
  <2>2. e \in Seq(B) /\ Range(b) \subseteq Range(e) /\ Range(a3) \subseteq Range(e)
    BY <1>9, <2>1, Joined
  <2> HIDE DEF e
  <2>3. e \o a4 \in Seq(B) /\ Range(e) \subseteq Range(e \o a4) /\ Range(a4) \subseteq Range(e \o a4)
    BY <1>9, <2>2, Joined
  <2>4. apart = e \o a4
    BY DEF e, b
  <2> HIDE DEF apart
  <2> QED
    BY <2>1, <2>2, <2>3, <2>4
<1> HIDE DEF apart
<1>11. rest \in Seq(B) /\ (~bulk => rest = apart)
  BY <1>10
<1> HIDE DEF rest
<1>12. first \o rest \in Seq(B) /\ Range(first) \subseteq Range(first \o rest)
       /\ Range(rest) \subseteq Range(first \o rest)
  BY <1>8, <1>11, Joined
<1> DEFINE queue == first \o rest
<1> HIDE DEF queue
<1>13. commits = [queue |-> queue, last |-> final] /\ queue \in Seq(B)
       /\ Range(first) \subseteq Range(queue) /\ Range(rest) \subseteq Range(queue)
  BY <1>1, <1>12 DEF queue
<1>14. ASSUME NEW d \in A
       PROVE  Paths(c, p, r, d) \subseteq Todo(queue, final)
  <2>1. CASE d \in re
    BY <1>8, <1>13, <2>1 DEF Todo
  <2>2. CASE d \notin re /\ bulk
    <3>1. d \in others /\ final = UNION {Paths(c, p, r, x) : x \in others}
      BY <2>2
    <3> HIDE DEF final, others
    <3>2. Paths(c, p, r, d) \subseteq final
      BY <3>1
    <3>3. final \subseteq Todo(queue, final)
      BY DEF Todo
    <3> QED
      BY <3>2, <3>3
  <2>3. CASE d \notin re /\ ~bulk
    <3>1. \/ d \in New(c, p) \cap W \/ d \in Changed(c, p) \cap W \/ d \in Renamed(c, p) \cap W
          \/ d \in Removed(c, p)
      BY <1>2, <1>4, <2>3 DEF re
    <3>2. Paths(c, p, r, d) \in Range(apart)
      BY <1>9, <1>10, <3>1
    <3>3. Paths(c, p, r, d) \in Range(queue)
      BY <1>11, <1>13, <2>3, <3>2
    <3> QED
      BY <3>3 DEF Todo
  <2> QED
    BY <2>1, <2>2, <2>3
<1> HIDE DEF final
<1>15. commits.queue = queue /\ commits.last = final
  BY <1>13
<1> QED
  BY <1>13, <1>14, <1>15 DEF commits, A, B

\* What the tree of a run changes lies on the paths of the documents that it acts on.
LEMMA ChangesArePaths ==
    ASSUME NEW c, NEW p, NEW r, NEW s,
           \A d \in Acting(c, p, r) : s \notin Paths(c, p, r, d)
    PROVE  /\ s \in DOMAIN NextTree(c, p, r) <=> s \in DOMAIN c.tree
           /\ s \in DOMAIN c.tree => NextTree(c, p, r)[s] = c.tree[s]
<1>1. s \notin WrittenSlugs(c, p, r)
  <2> SUFFICES ASSUME NEW d \in Written(c, p, r), s = p.slug[d] PROVE FALSE
    BY DEF WrittenSlugs
  <2>1. d \in Acting(c, p, r) /\ d \notin Removed(c, p)
    BY Roles DEF Acting, Removed
  <2> QED
    BY <2>1 DEF Paths
<1>2. s \notin Dropped(c, p, r)
  <2> SUFFICES ASSUME s \in Dropped(c, p, r) PROVE FALSE
    OBVIOUS
  <2>1. PICK d \in (Written(c, p, r) \cap Current(c.manifest)) \cup Removed(c, p) :
            s = c.manifest[d].slug
    BY Slugged
  <2>2. d \in Acting(c, p, r) /\ d \notin New(c, p)
    BY <2>1 DEF Acting, New, Removed
  <2> QED
    BY <1>1, <2>1, <2>2 DEF Paths
<1> QED
  BY <1>1, <1>2 DEF NextTree

-----------------------------------------------------------------------------
(* What reaches origin, from clones that live for one run *)

\* What a run makes of a corpus, and what its records owe to the listing it saw.
Improved(was, is) ==
    /\ Tidy(is)
    /\ HandsNothingOver(was.manifest, is.manifest)
    /\ Contradictions(is) \subseteq Contradictions(was)
    /\ IsInjective(Had(was.manifest)) =>
          /\ IsInjective(Had(is.manifest))
          /\ WipesNothing(Current(was.manifest), Current(is.manifest))
OldOnesFailed(m, seen, r) == \A d \in OldRenders(m, r) : d \in DOMAIN seen /\ ~Renders(seen[d], r)

\* Two trees differ on these paths at most.
AgreeBeside(paths, t, u) ==
    \A s : s \notin paths => /\ s \in DOMAIN t <=> s \in DOMAIN u
                             /\ s \in DOMAIN t => t[s] = u[s]

Installed ==
    /\ setup \in Setups /\ engine \in 1..setup.engines
    /\ upstream \in [Doc -> Version \cup {Absent}]
    /\ origin = [corpus |-> origin.corpus, notes |-> origin.notes]
    /\ Tidy(origin.corpus)
    /\ job.step \in Step

Committing ==
    /\ job = [step |-> job.step, seen |-> job.seen, records |-> job.records,
              queue |-> job.queue, last |-> job.last]
    /\ Improved(origin.corpus, [manifest |-> job.records, tree |-> work.tree])
    /\ OldOnesFailed(job.records, job.seen, Renderer[engine])
    /\ head = [manifest |-> head.manifest, tree |-> head.tree]
    /\ work = [manifest |-> work.manifest, tree |-> work.tree]

\* How far the run has come, against the corpus on origin that it started from.
Progress ==
    /\ ~ahead => head = origin.corpus
    /\ job.step \in {"idle", "classify"} => ~ahead /\ work = head
    /\ job.step = "classify" => Plan(job, work)
    /\ job.step = "commit" =>
          /\ Committing /\ Sequence(job.queue)
          /\ AgreeBeside(Todo(job.queue, job.last), head.tree, work.tree)
    /\ job.step = "manifest" =>
          /\ Committing /\ work.manifest = job.records
          /\ AgreeBeside(job.last, head.tree, work.tree)
    /\ job.step \in {"attest", "audit", "notes", "push"} =>
          work = head /\ Improved(origin.corpus, head)
    /\ job.step = "attest" => OldOnesFailed(head.manifest, job.seen, Renderer[engine])

CloneInv == Installed /\ Progress

LEMMA PublishedIsTidy == \A c \in Published : Tidy(c)
<1> SUFFICES ASSUME NEW c \in Published PROVE Tidy(c)
  OBVIOUS
<1> DEFINE m == c.manifest
<1>1. /\ c = [manifest |-> m, tree |-> [s \in DOMAIN c.tree |-> c.tree[s]]]
      /\ DOMAIN m \subseteq Doc
      /\ PageIsWhatItsRecordSays(c) /\ NothingIsLeft(c)
  BY PublishedAssumption
<1>2. \A d \in DOMAIN m : m[d] \in [status : {"current", "removed"}, text : Version, stamp : Nat,
                                    slug : Seq(Range(m[d].slug))]
  BY PublishedAssumption
<1>3. IsFiniteSet(Doc) /\ \A d \in Doc : d \in Nat
  BY SyncAssumption
<1> HIDE DEF m
<1>4. \A d \in DOMAIN m :
          /\ m[d] = [status |-> m[d].status, slug |-> m[d].slug, text |-> m[d].text,
                     stamp |-> m[d].stamp]
          /\ m[d].status \in {"current", "removed"}
          /\ m[d].slug \in Seq(Range(m[d].slug))
  BY <1>2
<1>5. IsFiniteSet(DOMAIN m) /\ DOMAIN m \subseteq Nat
  BY <1>1, <1>3, FS_Subset
<1>6. Asking(Had(m))
  BY <1>4, <1>5 DEF Asking, Had, Sequence
<1> QED
  BY <1>1, <1>4, <1>6 DEF Tidy, m

LEMMA CloneInit == Init => CloneInv
<1> SUFFICES ASSUME Init PROVE CloneInv
  OBVIOUS
<1>1. PICK c \in Published :
          origin = [corpus |-> c, notes |-> {Parser[1]}] /\ head = c /\ work = c
  BY DEF Init
<1>2. Tidy(c)
  BY <1>1, PublishedIsTidy
<1>3. setup \in Setups /\ engine = 1 /\ upstream \in Listings /\ ahead = FALSE /\ job.step = "idle"
  BY DEF Init, Idle
<1>4. setup.engines \in Nat \ {0} /\ upstream \in [Doc -> Version \cup {Absent}]
  BY <1>3, SyncAssumption
<1>5. engine \in 1..setup.engines
  BY <1>3, <1>4
<1> QED
  BY <1>1, <1>2, <1>3, <1>4, <1>5 DEF CloneInv, Installed, Progress, Step

LEMMA LeaveStep == CloneInv /\ ~setup.kept /\ Leave => CloneInv'
<1> SUFFICES ASSUME CloneInv, ~setup.kept, Leave PROVE CloneInv'
  OBVIOUS
<1>1. /\ job' = Idle /\ head' = origin.corpus /\ work' = origin.corpus /\ ahead' = FALSE
      /\ UNCHANGED <<setup, upstream, engine, edits, origin>>
  BY DEF Leave, Clone
<1>2. job'.step = "idle"
  BY <1>1 DEF Idle
<1> QED
  BY <1>1, <1>2 DEF CloneInv, Installed, Progress, Step

LEMMA BeginStep == CloneInv /\ Begin => CloneInv'
<1> SUFFICES ASSUME CloneInv, Begin PROVE CloneInv'
  OBVIOUS
<1> DEFINE asked_ == [d \in Listed |-> BaseSlug[engine][upstream[d]]]
           h == Had(work.manifest)
           slug == ResolveCollisions(asked_, h)
           seen == [d \in {x \in Listed : upstream[x] \notin Notice} |-> upstream[d]]
<1>1. job' = [step |-> "classify", slug |-> slug, seen |-> seen] /\ job = Idle
      /\ UNCHANGED <<setup, upstream, engine, edits, origin, checkout>>
  BY DEF Begin
<1>2. job.step = "idle" /\ job'.step = "classify" /\ job'.slug = slug /\ job'.seen = seen
  BY <1>1 DEF Idle
<1>3. work = head /\ head = origin.corpus /\ ~ahead /\ Tidy(work)
  BY <1>2 DEF CloneInv, Installed, Progress
<1>4. Asking(h)
  BY <1>3 DEF Tidy
<1>5. Asking(asked_)
  <2>1. IsFiniteSet(Doc) /\ Listed \in SUBSET Doc /\ \A d \in Doc : d \in Nat
    BY SyncAssumption DEF Listed
  <2>2. IsFiniteSet(Listed)
    BY <2>1, FS_Subset
  <2>3. \A d \in Listed : upstream[d] \in Version
    BY DEF Listed, CloneInv, Installed
  <2>4. \A v \in Version : Sequence(BaseSlug[engine][v])
    BY SyncAssumption DEF CloneInv, Installed, Sequence
  <2> QED
    BY <2>1, <2>2, <2>3, <2>4 DEF Asking
<1> HIDE DEF asked_, h
<1>6. /\ DOMAIN slug = DOMAIN asked_ /\ Asking(slug) /\ IsInjective(slug)
      /\ \A d \in DOMAIN asked_ : FreeFor(h, slug[d], d)
  BY <1>4, <1>5, ResolvedIsOwned
<1> HIDE DEF slug
<1>7. DOMAIN asked_ = Listed /\ DOMAIN seen \subseteq Listed
  BY DEF asked_
<1> HIDE DEF seen
<1>8. Plan(job', work)
  BY <1>2, <1>6, <1>7 DEF Plan, h
<1>9. work' = work /\ head' = head /\ ahead' = ahead
  BY <1>1 DEF checkout
<1> QED
  BY <1>1, <1>2, <1>3, <1>8, <1>9 DEF CloneInv, Installed, Progress, Step

LEMMA RunImproves ==
    ASSUME NEW c, NEW p, NEW r, Tidy(c), Plan(p, c), ~MassRemoval(c, p)
    PROVE  Improved(c, After(c, p, r))
<1> DEFINE a == After(c, p, r)
<1>1. a.manifest = NextManifest(c, p, r)
  BY DEF After
<1>2. Tidy(a) /\ Contradictions(a) \subseteq Contradictions(c)
  BY NextIsTidy, NothingContradicts
<1>3. HandsNothingOver(c.manifest, NextManifest(c, p, r))
  BY NextNames
<1>4. IsInjective(Had(c.manifest)) =>
         /\ IsInjective(Had(NextManifest(c, p, r)))
         /\ WipesNothing(Current(c.manifest), Current(NextManifest(c, p, r)))
  BY NothingIsWiped
<1> HIDE DEF a
<1> QED
  BY <1>1, <1>2, <1>3, <1>4 DEF Improved, a

LEMMA WriteStep == CloneInv /\ Write => CloneInv'
<1> SUFFICES ASSUME CloneInv, Write PROVE CloneInv'
  OBVIOUS
<1> DEFINE r == Renderer[engine]
           records == NextManifest(work, job, r)
           tree == NextTree(work, job, r)
           commits == Commits(work, job, r)
           idle == records = work.manifest /\ Acting(work, job, r) = {}
<1>1. /\ job.step = "classify" /\ ~MassRemoval(work, job)
      /\ job' = [step |-> IF idle THEN "attest" ELSE "commit", seen |-> job.seen,
                 records |-> records, queue |-> commits.queue, last |-> commits.last]
      /\ work' = [work EXCEPT !.tree = tree]
      /\ UNCHANGED <<setup, upstream, engine, edits, origin, head, notes, sent, ahead>>
  BY DEF Write
<1>2. /\ ~ahead /\ work = head /\ head = origin.corpus /\ Tidy(work) /\ Plan(job, work)
  BY <1>1 DEF CloneInv, Installed, Progress
<1>3. r \in Nat
  BY SyncAssumption DEF CloneInv, Installed
<1>4. Improved(work, [manifest |-> records, tree |-> tree])
  BY <1>1, <1>2, RunImproves DEF After
<1>5. OldOnesFailed(records, job.seen, r)
  BY <1>2, <1>3, OldOnesFail DEF OldOnesFailed
<1>6. /\ commits.queue \in Seq(Bundles(work, job, r))
      /\ \A d \in Acting(work, job, r) :
            Paths(work, job, r, d) \subseteq Todo(commits.queue, commits.last)
  BY <1>2, CommitsAreWhole
<1>7. AgreeBeside(Todo(commits.queue, commits.last), work.tree, tree)
  <2> SUFFICES ASSUME NEW s, s \notin Todo(commits.queue, commits.last)
               PROVE  /\ s \in DOMAIN work.tree <=> s \in DOMAIN tree
                      /\ s \in DOMAIN work.tree => work.tree[s] = tree[s]
    BY DEF AgreeBeside
  <2>1. \A d \in Acting(work, job, r) : s \notin Paths(work, job, r, d)
    BY <1>6
  <2> QED
    BY <2>1, ChangesArePaths
<1>8. work = [manifest |-> work.manifest, tree |-> [s \in DOMAIN work.tree |-> work.tree[s]]]
  BY <1>2 DEF Tidy
<1>9. idle => tree = work.tree
  <2> SUFFICES ASSUME Acting(work, job, r) = {} PROVE tree = work.tree
    OBVIOUS
  <2>1. \A s : (s \in DOMAIN tree <=> s \in DOMAIN work.tree)
               /\ (s \in DOMAIN work.tree => tree[s] = work.tree[s])
    BY ChangesArePaths
  <2>2. tree = [s \in DOMAIN tree |-> tree[s]]
    BY Zenon DEF NextTree
  <2>3. work.tree = [s \in DOMAIN work.tree |-> work.tree[s]]
    BY <1>8
  <2> HIDE DEF tree
  <2>4. DOMAIN tree = DOMAIN work.tree
    BY <2>1
  <2> QED
    BY <2>1, <2>2, <2>3, <2>4
<1> HIDE DEF records, tree, commits
<1>10. work' = [manifest |-> work.manifest, tree |-> tree]
  BY <1>1, <1>8
<1>11. /\ work'.tree = tree /\ work'.manifest = work.manifest /\ head' = head /\ ahead' = ahead
       /\ origin' = origin /\ Renderer[engine]' = r
  BY <1>1, <1>10
<1>12. /\ job'.seen = job.seen /\ job'.records = records /\ job'.queue = commits.queue
       /\ job'.last = commits.last /\ job'.step = (IF idle THEN "attest" ELSE "commit")
       /\ job' = [step |-> job'.step, seen |-> job'.seen, records |-> job'.records,
                  queue |-> job'.queue, last |-> job'.last]
  BY <1>1
<1>13. Installed'
  BY <1>1, <1>12 DEF CloneInv, Installed, Step
<1>14. CASE idle
  <2>1. work' = head' /\ head' = [manifest |-> records, tree |-> tree]
        /\ head'.manifest = records /\ job'.step = "attest"
    BY <1>2, <1>8, <1>9, <1>10, <1>11, <1>12, <1>14
  <2>2. Improved(origin'.corpus, head') /\ OldOnesFailed(head'.manifest, job'.seen, Renderer[engine]')
    BY <1>2, <1>4, <1>5, <1>11, <1>12, <2>1
  <2> QED
    BY <1>2, <1>11, <1>13, <2>1, <2>2 DEF CloneInv, Progress
<1>15. CASE ~idle
  <2>1. job'.step = "commit"
    BY <1>12, <1>15
  <2>2. Improved(origin'.corpus, [manifest |-> job'.records, tree |-> work'.tree])
    BY <1>2, <1>4, <1>11, <1>12
  <2>3. OldOnesFailed(job'.records, job'.seen, Renderer[engine]')
    BY <1>5, <1>11, <1>12
  <2>4. head' = [manifest |-> head'.manifest, tree |-> head'.tree]
        /\ work' = [manifest |-> work'.manifest, tree |-> work'.tree]
    BY <1>2, <1>8, <1>10, <1>11
  <2>5. Committing'
    BY <1>12, <2>2, <2>3, <2>4 DEF Committing
  <2>6. AgreeBeside(Todo(job'.queue, job'.last), head'.tree, work'.tree)
    BY <1>2, <1>7, <1>11, <1>12
  <2>7. Sequence(job'.queue)
    BY <1>6, <1>12 DEF Sequence
  <2> QED
    BY <1>2, <1>11, <1>13, <2>1, <2>5, <2>6, <2>7 DEF CloneInv, Progress
<1> QED
  BY <1>14, <1>15

LEMMA CommitPathsStep == CloneInv /\ CommitPaths => CloneInv'
<1> SUFFICES ASSUME CloneInv, CommitPaths PROVE CloneInv'
  OBVIOUS
<1> DEFINE paths == Head(job.queue)
           tree == Staged(paths)
<1>1. /\ job.step = "commit" /\ job.queue # <<>>
      /\ Commit([head EXCEPT !.tree = tree])
      /\ job' = [job EXCEPT !.queue = Tail(@)]
      /\ UNCHANGED <<setup, upstream, engine, edits, origin, work>>
  BY DEF CommitPaths
<1>2. /\ Committing /\ Sequence(job.queue) /\ (~ahead => head = origin.corpus)
      /\ AgreeBeside(Todo(job.queue, job.last), head.tree, work.tree)
  BY <1>1 DEF CloneInv, Progress
<1>3. tree = [s \in (DOMAIN head.tree \ paths) \cup (DOMAIN work.tree \cap paths) |->
                IF s \in paths THEN work.tree[s] ELSE head.tree[s]]
  BY DEF Staged
<1>4. AgreeBeside(Todo(Tail(job.queue), job.last), tree, work.tree) /\ Sequence(Tail(job.queue))
  <2>1. PICK T : job.queue \in Seq(T)
    BY <1>2 DEF Sequence
  <2>2. Tail(job.queue) \in Seq(T)
        /\ Range(job.queue) \subseteq {paths} \cup Range(Tail(job.queue))
    BY <1>1, <2>1, FirstAndRest
  <2> HIDE DEF paths, tree
  <2>3. Todo(job.queue, job.last) \subseteq paths \cup Todo(Tail(job.queue), job.last)
    BY <2>2 DEF Todo
  <2>4. \A s : s \notin paths /\ s \notin Todo(Tail(job.queue), job.last)
          => /\ s \in DOMAIN head.tree <=> s \in DOMAIN work.tree
             /\ s \in DOMAIN head.tree => head.tree[s] = work.tree[s]
    BY <1>2, <2>3 DEF AgreeBeside
  <2>5. AgreeBeside(Todo(Tail(job.queue), job.last), tree, work.tree)
    BY <1>3, <2>4 DEF AgreeBeside
  <2> QED
    BY <2>2, <2>5 DEF Sequence
<1> HIDE DEF tree, paths
<1>5. head' = [manifest |-> head.manifest, tree |-> tree] /\ (~ahead' => head' = head /\ ~ahead)
  <2>1. [head EXCEPT !.tree = tree] = [manifest |-> head.manifest, tree |-> tree]
    BY <1>2 DEF Committing
  <2> QED
    BY <1>1, <2>1 DEF Commit
<1>6. /\ job' = [step |-> job'.step, seen |-> job'.seen, records |-> job'.records,
                 queue |-> job'.queue, last |-> job'.last]
      /\ job'.step = "commit" /\ job'.seen = job.seen /\ job'.records = job.records
      /\ job'.queue = Tail(job.queue) /\ job'.last = job.last
  BY <1>1, <1>2 DEF Committing
<1>7. head'.tree = tree /\ head' = [manifest |-> head'.manifest, tree |-> head'.tree]
  BY <1>5
<1>8. Committing'
  BY <1>1, <1>2, <1>6, <1>7 DEF Committing
<1>9. AgreeBeside(Todo(job'.queue, job'.last), head'.tree, work'.tree) /\ Sequence(job'.queue)
  BY <1>1, <1>4, <1>6, <1>7
<1>10. Installed'
  BY <1>1, <1>6 DEF CloneInv, Installed, Step
<1> QED
  BY <1>1, <1>2, <1>5, <1>6, <1>8, <1>9, <1>10 DEF CloneInv, Progress

LEMMA WriteManifestStep == CloneInv /\ WriteManifest => CloneInv'
<1> SUFFICES ASSUME CloneInv, WriteManifest PROVE CloneInv'
  OBVIOUS
<1>1. /\ job.step = "commit" /\ job.queue = <<>>
      /\ work' = [work EXCEPT !.manifest = job.records]
      /\ job' = [job EXCEPT !.step = "manifest"]
      /\ UNCHANGED <<setup, upstream, engine, edits, origin, head, notes, sent, ahead>>
  BY DEF WriteManifest
<1>2. /\ Committing /\ (~ahead => head = origin.corpus)
      /\ AgreeBeside(Todo(job.queue, job.last), head.tree, work.tree)
  BY <1>1 DEF CloneInv, Progress
<1>3. Todo(job.queue, job.last) = job.last
  <2>1. Range(<<>>) = {}
    BY DEF Range
  <2> QED
    BY <1>1, <2>1 DEF Todo
<1>4. work' = [manifest |-> job.records, tree |-> work.tree]
  BY <1>1, <1>2 DEF Committing
<1>5. work'.manifest = job.records /\ work'.tree = work.tree
  BY <1>4
<1>6. /\ job' = [step |-> job'.step, seen |-> job'.seen, records |-> job'.records,
                 queue |-> job'.queue, last |-> job'.last]
      /\ job'.step = "manifest" /\ job'.seen = job.seen /\ job'.records = job.records
      /\ job'.last = job.last
  BY <1>1, <1>2 DEF Committing
<1>7. Committing'
  BY <1>1, <1>2, <1>4, <1>5, <1>6 DEF Committing
<1>8. Installed'
  BY <1>1, <1>6 DEF CloneInv, Installed, Step
<1> QED
  BY <1>1, <1>2, <1>3, <1>5, <1>6, <1>7, <1>8 DEF CloneInv, Progress

LEMMA CommitManifestStep == CloneInv /\ CommitManifest => CloneInv'
<1> SUFFICES ASSUME CloneInv, CommitManifest PROVE CloneInv'
  OBVIOUS
<1> DEFINE tree == Staged(job.last)
<1>1. /\ job.step = "manifest"
      /\ head' = [manifest |-> work.manifest, tree |-> tree] /\ ahead' = TRUE
      /\ job' = [job EXCEPT !.step = "attest"]
      /\ UNCHANGED <<setup, upstream, engine, edits, origin, work>>
  BY DEF CommitManifest
<1>2. /\ Committing /\ work.manifest = job.records
      /\ AgreeBeside(job.last, head.tree, work.tree)
  BY <1>1 DEF CloneInv, Progress
<1>3. tree = [s \in (DOMAIN head.tree \ job.last) \cup (DOMAIN work.tree \cap job.last) |->
                IF s \in job.last THEN work.tree[s] ELSE head.tree[s]]
  BY DEF Staged
<1>4. work = [manifest |-> job.records, tree |-> work.tree]
      /\ work.tree = [s \in DOMAIN work.tree |-> work.tree[s]]
      /\ Improved(origin.corpus, work) /\ OldOnesFailed(work.manifest, job.seen, Renderer[engine])
  <2>1. work = [manifest |-> job.records, tree |-> work.tree]
    BY <1>2 DEF Committing
  <2>2. Improved(origin.corpus, work) /\ OldOnesFailed(work.manifest, job.seen, Renderer[engine])
    BY <1>2, <2>1 DEF Committing
  <2>3. work = [manifest |-> work.manifest, tree |-> [s \in DOMAIN work.tree |-> work.tree[s]]]
    BY <2>2 DEF Improved, Tidy
  <2>4. work.tree = [s \in DOMAIN work.tree |-> work.tree[s]]
    BY <2>3
  <2> QED
    BY <2>1, <2>2, <2>4
<1>5. tree = work.tree
  <2> HIDE DEF tree
  <2>1. (DOMAIN head.tree \ job.last) \cup (DOMAIN work.tree \cap job.last) = DOMAIN work.tree
    BY <1>2 DEF AgreeBeside
  <2>2. tree = [s \in DOMAIN work.tree |-> IF s \in job.last THEN work.tree[s] ELSE head.tree[s]]
    BY <1>3, <2>1
  <2>3. \A s \in DOMAIN work.tree : s \notin job.last => head.tree[s] = work.tree[s]
    BY <1>2 DEF AgreeBeside
  <2> QED
    BY <1>4, <2>2, <2>3
<1> HIDE DEF tree
<1>6. head' = work /\ job'.step = "attest" /\ job'.seen = job.seen
  BY <1>1, <1>2, <1>4, <1>5 DEF Committing
<1>7. Installed'
  BY <1>1, <1>6 DEF CloneInv, Installed, Step
<1> QED
  BY <1>1, <1>4, <1>6, <1>7 DEF CloneInv, Progress

LEMMA OtherSteps ==
    ASSUME CloneInv, ~setup.kept,
           \/ Attest \/ AuditPasses \/ PushNotes \/ PushMain \/ Reset \/ Edit \/ Upgrade
           \/ UNCHANGED vars
    PROVE  CloneInv'
<1>1. CASE Attest
  <2>1. job.step = "attest" /\ job'.step = "audit"
        /\ UNCHANGED <<setup, upstream, engine, edits, origin, head, sent, ahead, work>>
    BY <1>1 DEF Attest
  <2> QED
    BY <2>1 DEF CloneInv, Installed, Progress, Step
<1>2. CASE AuditPasses
  <2>1. job.step = "audit" /\ job'.step = "notes"
        /\ UNCHANGED <<setup, upstream, engine, edits, origin, checkout>>
    BY <1>2 DEF AuditPasses
  <2> QED
    BY <2>1 DEF CloneInv, Installed, Progress, Step, checkout
<1>3. CASE PushNotes
  <2>1. job.step = "notes" /\ job'.step = "push"
        /\ origin' = (IF ahead THEN origin ELSE [origin EXCEPT !.notes = notes])
        /\ UNCHANGED <<setup, upstream, engine, edits, head, notes, ahead, work>>
    BY <1>3 DEF PushNotes
  <2>2. origin = [corpus |-> origin.corpus, notes |-> origin.notes]
    BY DEF CloneInv, Installed
  <2>3. origin' = [corpus |-> origin.corpus, notes |-> origin'.notes]
    BY <2>1, <2>2
  <2>4. origin'.corpus = origin.corpus
    BY <2>3
  <2> QED
    BY <2>1, <2>3, <2>4 DEF CloneInv, Installed, Progress, Step
<1>4. CASE PushMain
  <2>1. job.step = "push" /\ job'.step = "idle" /\ ahead' = FALSE
        /\ origin' = (IF ahead THEN [corpus |-> head, notes |-> sent] ELSE origin)
        /\ UNCHANGED <<setup, upstream, engine, edits, head, notes, sent, work>>
    BY <1>4 DEF PushMain, Idle
  <2>2. work = head /\ Improved(origin.corpus, head) /\ (~ahead => head = origin.corpus)
    BY <2>1 DEF CloneInv, Progress
  <2>3. origin = [corpus |-> origin.corpus, notes |-> origin.notes] /\ Tidy(origin.corpus)
    BY DEF CloneInv, Installed
  <2>4. origin'.corpus = head /\ origin' = [corpus |-> origin'.corpus, notes |-> origin'.notes]
        /\ Tidy(head)
    <3>1. CASE ahead
      BY <2>1, <2>2, <3>1 DEF Improved
    <3>2. CASE ~ahead
      BY <2>1, <2>2, <2>3, <3>2
    <3> QED
      BY <3>1, <3>2
  <2> QED
    BY <2>1, <2>2, <2>4 DEF CloneInv, Installed, Progress, Step
<1>5. CASE Reset
  BY <1>5 DEF Reset
<1>6. CASE Edit
  <2>1. PICK d \in Doc, v \in Version \cup {Absent} : upstream' = [upstream EXCEPT ![d] = v]
    BY <1>6 DEF Edit
  <2>2. upstream' \in [Doc -> Version \cup {Absent}]
    BY <2>1 DEF CloneInv, Installed
  <2>3. UNCHANGED <<setup, engine, origin, checkout, job>>
    BY <1>6 DEF Edit
  <2>4. Installed'
    BY <2>2, <2>3 DEF CloneInv, Installed
  <2>5. Progress'
    BY <2>3 DEF CloneInv, Progress, Committing, checkout, AgreeBeside
  <2> QED
    BY <2>4, <2>5 DEF CloneInv
<1>7. CASE Upgrade
  <2>1. /\ job.step = "idle" /\ job' = job /\ engine < setup.engines /\ engine' = engine + 1
        /\ UNCHANGED <<setup, upstream, edits, origin, checkout>>
    BY <1>7 DEF Upgrade, Idle
  <2>2. setup.engines \in Nat /\ engine \in 1..setup.engines
    BY SyncAssumption DEF CloneInv, Installed
  <2>3. engine' \in 1..setup.engines
    BY <2>1, <2>2
  <2> QED
    BY <2>1, <2>3 DEF CloneInv, Installed, Progress, checkout
<1>8. CASE UNCHANGED vars
  <2>1. Installed'
    BY <1>8 DEF vars, checkout, CloneInv, Installed
  <2>2. Progress'
    BY <1>8 DEF vars, checkout, CloneInv, Progress, Committing, AgreeBeside
  <2> QED
    BY <2>1, <2>2 DEF CloneInv
<1> QED
  BY <1>1, <1>2, <1>3, <1>4, <1>5, <1>6, <1>7, <1>8

LEMMA CloneNext ==
    ASSUME \A s \in Setups : ~s.kept, CloneInv, [Next]_vars
    PROVE  CloneInv'
<1>1. ~setup.kept
  BY DEF CloneInv, Installed
<1> QED
  BY <1>1, LeaveStep, BeginStep, WriteStep, CommitPathsStep, WriteManifestStep, CommitManifestStep,
     OtherSteps
     DEF Next, Run, Refuse, NotAttested, AuditFails, Crash

\* sync/orchestrator.py, from clones that live for one run: whatever is listed, fails, moves or
\* is killed on the way, what the published manifest says of a page is what is in it.
THEOREM PagesAreTrue ==
    ASSUME \A s \in Setups : ~s.kept
    PROVE  Spec => []PublishedPagesAreTrue
<1>1. CloneInv => PublishedPagesAreTrue
  BY DEF CloneInv, Installed, Tidy, PublishedPagesAreTrue
<1>2. CloneInv /\ [Next]_vars => CloneInv'
  BY CloneNext
<1> QED
  BY <1>1, <1>2, CloneInit, PTL DEF Spec

\* corpus_audit.py, from such clones: before the push a run has left no contradiction that
\* origin has not, and no old page but of a text that its renderer fails on.
THEOREM NothingNewIsFound ==
    ASSUME \A s \in Setups : ~s.kept
    PROVE  Spec => []AuditFindsNothingNew
<1>1. CloneInv => AuditFindsNothingNew
  <2> SUFFICES ASSUME CloneInv, job.step = "attest" PROVE AuditFindsNothingNew
    BY DEF AuditFindsNothingNew
  <2>1. work = head /\ Improved(origin.corpus, head)
        /\ OldOnesFailed(head.manifest, job.seen, Renderer[engine])
    BY DEF CloneInv, Progress
  <2> QED
    BY <2>1 DEF Improved, OldOnesFailed, AuditFindsNothingNew
<1>2. CloneInv /\ [Next]_vars => CloneInv'
  BY CloneNext
<1> QED
  BY <1>1, <1>2, CloneInit, PTL DEF Spec

\* A step that publishes another corpus publishes what a run has made of the one before.
LEMMA PushesImprove ==
    ASSUME \A s \in Setups : ~s.kept, CloneInv, [Next]_vars
    PROVE  origin'.corpus = origin.corpus \/ Improved(origin.corpus, origin'.corpus)
<1>1. origin' = origin \/ PushNotes \/ PushMain
  BY DEF Next, Run, vars, checkout, Leave, Begin, Refuse, Write, CommitPaths, WriteManifest,
         CommitManifest, Attest, NotAttested, AuditPasses, AuditFails, Reset, Edit, Upgrade, Crash
<1>2. CASE PushNotes
  <2>1. origin = [corpus |-> origin.corpus, notes |-> origin.notes]
    BY DEF CloneInv, Installed
  <2>2. origin' = (IF ahead THEN origin ELSE [origin EXCEPT !.notes = notes])
    BY <1>2 DEF PushNotes
  <2> QED
    BY <2>1, <2>2
<1>3. CASE PushMain
  <2>1. job.step = "push" /\ origin' = (IF ahead THEN [corpus |-> head, notes |-> sent] ELSE origin)
    BY <1>3 DEF PushMain
  <2>2. Improved(origin.corpus, head)
    BY <2>1 DEF CloneInv, Progress
  <2> QED
    BY <2>1, <2>2
<1> QED
  BY <1>1, <1>2, <1>3

\* _prior_slug_ownership, from such clones: no push passes a slug from one document to another
\* that did not have it already, in a history where slugs were shared as in one where not.
THEOREM NothingIsHandedOver ==
    ASSUME \A s \in Setups : ~s.kept
    PROVE  Spec => [][HandsNothingOver(origin.corpus.manifest, origin'.corpus.manifest)]_vars
<1>1. CloneInv /\ [Next]_vars
        => [HandsNothingOver(origin.corpus.manifest, origin'.corpus.manifest)]_vars
  <2> SUFFICES ASSUME CloneInv, [Next]_vars
               PROVE  HandsNothingOver(origin.corpus.manifest, origin'.corpus.manifest)
    OBVIOUS
  <2>1. HandsNothingOver(origin.corpus.manifest, origin.corpus.manifest)
    BY DEF HandsNothingOver
  <2> QED
    BY <2>1, PushesImprove DEF Improved
<1>2. CloneInv /\ [Next]_vars => CloneInv'
  BY CloneNext
<1> QED
  BY <1>1, <1>2, CloneInit, PTL DEF Spec

\* The same, and _guard_mass_removal: from a history in which no two records share a slug, no
\* push removes more of the corpus than the guard allows, however often runs were killed.
THEOREM NoPushHarms ==
    ASSUME \A s \in Setups : ~s.kept,
           \A c \in Published : IsInjective(Had(c.manifest))
    PROVE  Spec => PushesDoNoHarm
<1> DEFINE Apart == IsInjective(Had(origin.corpus.manifest))
<1>1. Init => Apart
  BY DEF Init
<1>2. CloneInv /\ Apart /\ [Next]_vars => Apart'
  BY PushesImprove DEF Improved
<1>3. CloneInv /\ [Next]_vars => CloneInv'
  BY CloneNext
<1>4. CloneInv /\ Apart /\ [Next]_vars =>
        [LET was == origin.corpus.manifest
             is == origin'.corpus.manifest
         IN  HandsNothingOver(was, is) /\ WipesNothing(Current(was), Current(is))]_vars
  <2> DEFINE was == origin.corpus.manifest
             is == origin'.corpus.manifest
  <2> SUFFICES ASSUME CloneInv, Apart, [Next]_vars
               PROVE  HandsNothingOver(was, is) /\ WipesNothing(Current(was), Current(is))
    OBVIOUS
  <2>1. CASE origin'.corpus = origin.corpus
    <3>1. HandsNothingOver(was, was)
      BY DEF HandsNothingOver
    <3>2. WipesNothing(Current(was), Current(was))
      <4> DEFINE S == Current(was)
      <4>1. S \in SUBSET DOMAIN was /\ IsFiniteSet(DOMAIN was)
        BY DEF CloneInv, Installed, Tidy, Asking, Had, Current
      <4>2. WipesNothing(S, S)
              <=> (Cardinality(S) >= GuardMin => 100 * Cardinality({}) <= MaxRemoval * Cardinality(S))
        <5>1. S \ S = {}
          OBVIOUS
        <5> HIDE DEF S
        <5> QED
          BY <5>1 DEF WipesNothing
      <4> HIDE DEF S
      <4>3. Cardinality(S) \in Nat
        BY <4>1, FS_Subset, FS_CardinalityType
      <4>4. MaxRemoval * Cardinality(S) >= 0
        BY <4>3, SyncAssumption
      <4>5. Cardinality({}) = 0
        BY FS_EmptySet
      <4> QED
        BY <4>2, <4>4, <4>5 DEF S
    <3> QED
      BY <2>1, <3>1, <3>2
  <2>2. CASE origin'.corpus # origin.corpus
    BY <2>2, PushesImprove DEF Improved
  <2> QED
    BY <2>1, <2>2
<1> HIDE DEF Apart
<1> QED
  BY <1>1, <1>2, <1>3, <1>4, CloneInit, PTL DEF Spec, PushesDoNoHarm

-----------------------------------------------------------------------------
(* The sidecars beside the pages *)

\* Records of texts that upstream has had, made by a renderer there is.
Rendered(m) == \A d \in Current(m) : m[d].text \in Version /\ m[d].stamp \in {Renderer[1], Renderer[2]}

Stamped(st) ==
    \A d \in DOMAIN st :
        /\ st[d] = [of |-> st[d].of, space |-> st[d].space, inputs |-> st[d].inputs]
        /\ st[d].space \in Space \cup {None}

\* What the sidecars b and the stamps st owe to a corpus, but for what an operator vouched for.
Faithful(c, b, st, excused) ==
    \A d \in Current(c.manifest) :
        LET s == c.manifest[d].slug IN
        /\ s \in DOMAIN b /\ b[s] # Corrupt => Fits(b[s], st[d], c.tree[s])
        /\ d \notin excused =>
              /\ st[d].inputs # None => st[d].space # None
              /\ s \in DOMAIN b /\ b[s] # Corrupt => Earned(b[s], st[d])

Tooled ==
    /\ listing.has \in [Doc -> Version \cup {Absent}]
    /\ listing = [has |-> listing.has, edits |-> listing.edits]
    /\ tools \in [engine : 1..2, pipeline : 1..2, writer : 1..2]

SidecarInv ==
    /\ Tooled
    /\ Tidy(held) /\ Rendered(held.manifest)
    /\ DOMAIN stamps = Present /\ Stamped(stamps)
    /\ Faithful(held, bins, stamps, vouched)
    /\ last \in Space \cup {None} /\ KeyedRunRepairs

\* No inputs and no sidecar is taken for that of a page.
LEMMA Tokens ==
    ASSUME Tooled, NEW v \in Version, NEW r \in {Renderer[1], Renderer[2]}, NEW d, NEW s \in Space
    PROVE  Inputs(Page(d, v, r)) # None /\ Sidecar(Page(d, v, r), s) # Corrupt
<1>1. PICK e \in 1..2 : r = Renderer[e]
  OBVIOUS
<1> DEFINE i == [text |-> v, look |-> Rendering[v][Renderer[e]], sections |-> Sections[tools.pipeline][v]]
           h == IF tools.writer = 2 THEN s ELSE None
<1>2. tools.pipeline \in 1..2
  BY DEF Tooled
<1>3. None # i /\ \A x \in Space, y \in Space \cup {None} :
                     Corrupt # [inputs |-> i, space |-> x, header |-> y]
  BY <1>2, TokenAssumption
<1>4. Inputs(Page(d, v, r)) = i
  BY <1>1 DEF Inputs, Page
<1>5. Sidecar(Page(d, v, r), s) = [inputs |-> i, space |-> s, header |-> h]
  BY <1>4 DEF Sidecar
<1>6. h \in Space \cup {None}
  OBVIOUS
<1> HIDE DEF i, h
<1> QED
  BY <1>3, <1>4, <1>5, <1>6

\* What is embedded for a page is in its file, and every other file is as it was.
LEMMA EmbeddedFiles ==
    ASSUME NEW b, NEW slug, NEW pages, NEW space
    PROVE  LET n == Embedded(b, slug, pages, space) IN
           /\ \A s : s \in DOMAIN n <=> s \in DOMAIN b \/ \E d \in DOMAIN pages : s = slug[d]
           /\ \A s \in DOMAIN b : (\A d \in DOMAIN pages : slug[d] # s) => n[s] = b[s]
           /\ \A d \in DOMAIN pages :
                 (\A e \in DOMAIN pages : slug[e] = slug[d] => e = d)
                 => slug[d] \in DOMAIN n /\ n[slug[d]] = Sidecar(pages[d], space)
<1> DEFINE n == Embedded(b, slug, pages, space)
           S == DOMAIN b \cup {slug[d] : d \in DOMAIN pages}
           of(s) == CHOOSE d \in DOMAIN pages : slug[d] = s
<1>1. n = [s \in S |-> IF \E d \in DOMAIN pages : slug[d] = s THEN Sidecar(pages[of(s)], space)
                       ELSE b[s]]
  BY DEF Embedded
<1>2. \A s : s \in S <=> s \in DOMAIN b \/ \E d \in DOMAIN pages : s = slug[d]
  OBVIOUS
<1>3. \A s : (\E d \in DOMAIN pages : slug[d] = s) => of(s) \in DOMAIN pages /\ slug[of(s)] = s
  OBVIOUS
<1> HIDE DEF n, S, of
<1>4. DOMAIN n = S /\ \A s \in S :
          n[s] = IF \E d \in DOMAIN pages : slug[d] = s THEN Sidecar(pages[of(s)], space) ELSE b[s]
  BY <1>1
<1>5. ASSUME NEW d \in DOMAIN pages, \A e \in DOMAIN pages : slug[e] = slug[d] => e = d
      PROVE  slug[d] \in DOMAIN n /\ n[slug[d]] = Sidecar(pages[d], space)
  <2>1. of(slug[d]) = d
    BY <1>3, <1>5
  <2> QED
    BY <1>2, <1>4, <2>1
<1> QED
  BY <1>2, <1>4, <1>5 DEF n

LEMMA NextRendered ==
    ASSUME NEW c, NEW p, NEW r \in {Renderer[1], Renderer[2]}, Tidy(c), Plan(p, c),
           Rendered(c.manifest), \A d \in DOMAIN p.seen : p.seen[d] \in Version
    PROVE  Rendered(NextManifest(c, p, r))
<1> DEFINE m == c.manifest
           n == NextManifest(c, p, r)
<1> SUFFICES ASSUME NEW d \in Current(n)
             PROVE  n[d].text \in Version /\ n[d].stamp \in {Renderer[1], Renderer[2]}
  BY DEF Rendered
<1>1. d \in Written(c, p, r) \cup Unchanged(c, p, r) \cup Carried(c, p, r)
  BY NewSlugs
<1>2. d \in Current(m) => m[d].text \in Version /\ m[d].stamp \in {Renderer[1], Renderer[2]}
  BY DEF Rendered
<1>3. CASE d \in Written(c, p, r)
  <2>1. n[d] = CurrentRecord(p.slug[d], p.seen[d], r)
    BY <1>3, Records
  <2>2. d \in DOMAIN p.seen
    BY <1>3, Roles
  <2> HIDE DEF n, m
  <2> QED
    BY <2>1, <2>2 DEF CurrentRecord
<1>4. CASE d \in Unchanged(c, p, r) \cup Carried(c, p, r)
  <2>1. d \in Current(m)
    BY <1>4, KeptApart
  <2>2. d \in Unchanged(c, p, r) => n[d] = CurrentRecord(m[d].slug, m[d].text, r)
    BY Records
  <2>3. d \in Carried(c, p, r) => n[d] = m[d]
    BY Records
  <2> HIDE DEF n, m
  <2> QED
    BY <1>2, <1>4, <2>1, <2>2, <2>3 DEF CurrentRecord
<1> QED
  BY <1>1, <1>3, <1>4

Complete(c, b, st, excused, space) ==
    \A d \in Current(c.manifest) \ excused :
        LET s == c.manifest[d].slug IN
        /\ st[d].space = space /\ s \in DOMAIN b /\ b[s] # Corrupt
        /\ b[s].inputs = Inputs(c.tree[s])

\* What run_sync embeds of a run with plan p in a space, and what it then leaves: the pages
\* repaired and written, the sidecars, the stamps and what is still vouched for.
Filled(space) == IF space = None THEN <<>> ELSE [d \in Repairs(space) |-> PageOf(d)]
Fresh(p, r) == [d \in Written(held, p, r) |-> Page(d, p.seen[d], r)]
Repaired(space) == Embedded(bins, [d \in Present |-> held.manifest[d].slug], Filled(space), space)
BinsAfter(p, r, space) ==
    LET written == IF space = None THEN Repaired(space)
                   ELSE Embedded(Repaired(space), p.slug, Fresh(p, r), space)
    IN  Restrict(written, DOMAIN written \ Deserted(held.manifest, p, Fresh(p, r), space))
StampsAfter(p, r, space) ==
    [d \in Current(NextManifest(held, p, r)) |->
        IF d \in DOMAIN Fresh(p, r) THEN StampOf(d, Fresh(p, r)[d], space)
        ELSE IF d \in DOMAIN Filled(space) THEN StampOf(d, Filled(space)[d], space)
        ELSE stamps[d]]
VouchedAfter(p, r, space) ==
    (vouched \cap Current(NextManifest(held, p, r))) \ (DOMAIN Fresh(p, r) \cup DOMAIN Filled(space))

\* What a document's file and stamp are after a run in a space: of the page written or
\* repaired, or what they were.
LEMMA RunFiles ==
    ASSUME SidecarInv, NEW p, Plan(p, held), NEW r, NEW space \in Space \cup {None}
    PROVE  LET b == BinsAfter(p, r, space)
               repairs == Filled(space)
               pages == Fresh(p, r)
           IN
           /\ space # None => \A d \in Written(held, p, r) :
                 p.slug[d] \in DOMAIN b /\ b[p.slug[d]] = Sidecar(pages[d], space)
           /\ \A d \in Unchanged(held, p, r) \cup Carried(held, p, r) :
                 LET s == held.manifest[d].slug IN
                 /\ d \in DOMAIN repairs => s \in DOMAIN b /\ b[s] = Sidecar(PageOf(d), space)
                 /\ d \notin DOMAIN repairs =>
                       /\ s \in DOMAIN b <=> s \in DOMAIN bins
                       /\ s \in DOMAIN bins => b[s] = bins[s]
<1> DEFINE m == held.manifest
           W == Written(held, p, r)
           K == Unchanged(held, p, r) \cup Carried(held, p, r)
           pages == Fresh(p, r)
           D == Deserted(m, p, pages, space)
           slug == [d \in Present |-> m[d].slug]
           b == BinsAfter(p, r, space)
           repairs == Filled(space)
           repaired == Repaired(space)
           written == IF space = None THEN repaired ELSE Embedded(repaired, p.slug, pages, space)
<1>1. DOMAIN pages = W
  BY DEF Fresh
<1>2. /\ DOMAIN repairs \subseteq Present
      /\ \A d \in DOMAIN repairs : repairs[d] = PageOf(d) /\ space # None
  <2>1. DOMAIN <<>> = {}
    OBVIOUS
  <2> QED
    BY <2>1 DEF Repairs, Filled
<1>3. \A s : s \in DOMAIN b <=> s \in DOMAIN written /\ s \notin D
  BY DEF Restrict, BinsAfter
<1>4. \A s \in DOMAIN b : b[s] = written[s]
  BY DEF Restrict, BinsAfter
<1> HIDE DEF b, repairs, pages, repaired
<1>5. W \subseteq DOMAIN p.slug /\ \A d \in W : p.slug[d] \in WrittenSlugs(held, p, r)
  BY Roles, Slugged DEF Plan
<1>6. \A d, e \in W : p.slug[d] = p.slug[e] => d = e
  BY <1>5 DEF Plan, IsInjective
<1>7. \A s : s \in D =>
          /\ \E e \in Present : s = m[e].slug /\ e \in Removed(held, p) \cup W
          /\ space # None => \A e \in W : s # p.slug[e]
  BY <1>1 DEF Deserted, Present, Removed
<1>8. ASSUME NEW d \in K
      PROVE  /\ d \in Present /\ d \notin W /\ m[d].slug \notin D
             /\ \A e \in Present : m[e].slug = m[d].slug => e = d
             /\ \A e \in W : p.slug[e] # m[d].slug
  <2>1. /\ d \in Current(m) /\ d \notin W /\ d \notin Removed(held, p)
        /\ m[d].slug \notin WrittenSlugs(held, p, r)
        /\ \A e \in Current(m) : m[e].slug = m[d].slug => e = d
    BY KeptApart DEF SidecarInv
  <2> HIDE DEF W, m
  <2> QED
    BY <1>5, <1>7, <2>1 DEF Present, m
<1> HIDE DEF W, K, D
<1>9. \A d \in Present : slug[d] = m[d].slug
  OBVIOUS
<1> HIDE DEF slug, m
<1>10. /\ \A s : s \in DOMAIN repaired <=> s \in DOMAIN bins \/ \E d \in DOMAIN repairs : s = slug[d]
       /\ \A s \in DOMAIN bins : (\A d \in DOMAIN repairs : slug[d] # s) => repaired[s] = bins[s]
       /\ \A d \in DOMAIN repairs :
             (\A e \in DOMAIN repairs : slug[e] = slug[d] => e = d)
             => slug[d] \in DOMAIN repaired /\ repaired[slug[d]] = Sidecar(repairs[d], space)
  <2>1. repaired = Embedded(bins, slug, repairs, space)
    BY DEF slug, m, repaired, repairs, Repaired
  <2> QED
    BY <2>1, EmbeddedFiles
<1>11. space # None =>
       /\ \A s : s \in DOMAIN written <=> s \in DOMAIN repaired \/ \E d \in W : s = p.slug[d]
       /\ \A s \in DOMAIN repaired : (\A d \in W : p.slug[d] # s) => written[s] = repaired[s]
       /\ \A d \in W :
             (\A e \in W : p.slug[e] = p.slug[d] => e = d)
             => p.slug[d] \in DOMAIN written /\ written[p.slug[d]] = Sidecar(pages[d], space)
  <2> SUFFICES ASSUME space # None PROVE written = Embedded(repaired, p.slug, pages, space)
    BY <1>1, EmbeddedFiles
  <2> QED
    OBVIOUS
<1>12. ASSUME space # None, NEW d \in W
       PROVE  p.slug[d] \in DOMAIN b /\ b[p.slug[d]] = Sidecar(pages[d], space)
  <2>1. p.slug[d] \in DOMAIN written /\ written[p.slug[d]] = Sidecar(pages[d], space)
    BY <1>6, <1>11, <1>12
  <2>2. p.slug[d] \notin D
    BY <1>7, <1>12
  <2> QED
    BY <1>3, <1>4, <2>1, <2>2
<1>13. ASSUME NEW d \in K
       PROVE  LET s == m[d].slug IN
              /\ s \in DOMAIN b <=> s \in DOMAIN repaired
              /\ s \in DOMAIN b => b[s] = repaired[s]
  <2> DEFINE s == m[d].slug
  <2>1. s \notin D /\ \A e \in W : p.slug[e] # s
    BY <1>8
  <2>2. space = None => written = repaired
    OBVIOUS
  <2>3. /\ s \in DOMAIN written <=> s \in DOMAIN repaired
        /\ s \in DOMAIN repaired => written[s] = repaired[s]
    BY <1>11, <2>1, <2>2
  <2> HIDE DEF s
  <2> QED
    BY <1>3, <1>4, <2>1, <2>3 DEF s
<1>14. ASSUME NEW d \in K, d \in DOMAIN repairs
       PROVE  m[d].slug \in DOMAIN b /\ b[m[d].slug] = Sidecar(PageOf(d), space)
  <2>1. slug[d] = m[d].slug /\ \A e \in DOMAIN repairs : slug[e] = slug[d] => e = d
    BY <1>2, <1>8, <1>9
  <2>2. m[d].slug \in DOMAIN repaired /\ repaired[m[d].slug] = Sidecar(PageOf(d), space)
    BY <1>2, <1>10, <1>14, <2>1
  <2> QED
    BY <1>13, <2>2
<1>15. ASSUME NEW d \in K, d \notin DOMAIN repairs
       PROVE  /\ m[d].slug \in DOMAIN b <=> m[d].slug \in DOMAIN bins
              /\ m[d].slug \in DOMAIN bins => b[m[d].slug] = bins[m[d].slug]
  <2>1. \A e \in DOMAIN repairs : slug[e] # m[d].slug
    BY <1>2, <1>8, <1>9, <1>15
  <2>2. /\ m[d].slug \in DOMAIN repaired <=> m[d].slug \in DOMAIN bins
        /\ m[d].slug \in DOMAIN bins => repaired[m[d].slug] = bins[m[d].slug]
    BY <1>10, <2>1
  <2> QED
    BY <1>13, <2>2
<1> QED
  BY <1>12, <1>14, <1>15 DEF m, W, K, b, repairs, pages

\* The invariant's part on the sidecars, for what a run leaves of one document.
LEMMA RunSidecars ==
    ASSUME SidecarInv, NEW p, Plan(p, held), \A d \in DOMAIN p.seen : p.seen[d] \in Version,
           NEW r \in {Renderer[1], Renderer[2]}, NEW space \in Space \cup {None}
    PROVE  LET b == BinsAfter(p, r, space)
               st == StampsAfter(p, r, space)
               v == VouchedAfter(p, r, space)
           IN
           /\ Stamped(st) /\ Faithful(After(held, p, r), b, st, v)
           /\ space # None => Complete(After(held, p, r), b, st, v, space)
<1> DEFINE m == held.manifest
           n == NextManifest(held, p, r)
           t == NextTree(held, p, r)
           W == Written(held, p, r)
           K == Unchanged(held, p, r) \cup Carried(held, p, r)
           b == BinsAfter(p, r, space)
           st == StampsAfter(p, r, space)
           v == VouchedAfter(p, r, space)
           repairs == Filled(space)
           pages == Fresh(p, r)
           fits(d) == n[d].slug \in DOMAIN b /\ b[n[d].slug] # Corrupt
                        => Fits(b[n[d].slug], st[d], t[n[d].slug])
           earned(d) == /\ st[d].inputs # None => st[d].space # None
                        /\ n[d].slug \in DOMAIN b /\ b[n[d].slug] # Corrupt
                             => Earned(b[n[d].slug], st[d])
           complete(d) == /\ st[d].space = space /\ n[d].slug \in DOMAIN b /\ b[n[d].slug] # Corrupt
                          /\ b[n[d].slug].inputs = Inputs(t[n[d].slug])
           stamped(d) == /\ st[d] = [of |-> st[d].of, space |-> st[d].space, inputs |-> st[d].inputs]
                         /\ st[d].space \in Space \cup {None}
<1>1. /\ After(held, p, r).manifest = n /\ After(held, p, r).tree = t
      /\ Current(n) = W \cup K
  BY NewSlugs DEF After, SidecarInv
<1>0. /\ Tooled /\ Tidy(held) /\ Rendered(m) /\ DOMAIN stamps = Present /\ Stamped(stamps)
      /\ Faithful(held, bins, stamps, vouched)
  BY DEF SidecarInv
<1>2. /\ space # None => \A d \in W : p.slug[d] \in DOMAIN b /\ b[p.slug[d]] = Sidecar(pages[d], space)
      /\ \A d \in K :
            /\ d \in DOMAIN repairs => m[d].slug \in DOMAIN b /\ b[m[d].slug] = Sidecar(PageOf(d), space)
            /\ d \notin DOMAIN repairs =>
                  /\ m[d].slug \in DOMAIN b <=> m[d].slug \in DOMAIN bins
                  /\ m[d].slug \in DOMAIN bins => b[m[d].slug] = bins[m[d].slug]
  BY RunFiles
<1>3. ASSUME NEW d \in W
      PROVE  /\ pages[d] = Page(d, p.seen[d], r) /\ p.seen[d] \in Version
             /\ n[d].slug = p.slug[d] /\ t[n[d].slug] = pages[d]
  <2>1. n[d].slug = p.slug[d]
    BY <1>0, NewSlugs
  <2>2. d \in DOMAIN p.seen
    BY Roles
  <2>3. t[p.slug[d]] = Page(d, p.seen[d], r)
    BY WrittenPages
  <2> QED
    BY <2>1, <2>2, <2>3 DEF Fresh
<1>4. ASSUME NEW d \in K
      PROVE  /\ d \in Present /\ d \notin W /\ n[d].slug = m[d].slug /\ t[n[d].slug] = PageOf(d)
             /\ HasPage(d) /\ PageOf(d) = Page(d, m[d].text, m[d].stamp)
             /\ m[d].text \in Version /\ m[d].stamp \in {Renderer[1], Renderer[2]}
  <2>1. d \in Current(m) /\ d \notin W
    BY KeptApart DEF SidecarInv
  <2>2. m[d].slug \in DOMAIN held.tree /\ t[m[d].slug] = held.tree[m[d].slug]
    BY KeptPages DEF SidecarInv
  <2>3. d \in DOMAIN n
    BY <1>1 DEF Current
  <2>4. n[d].slug = m[d].slug
    BY <2>1, <2>3, NewSlugs DEF SidecarInv
  <2>5. held.tree[m[d].slug] = Page(d, m[d].text, m[d].stamp)
    BY <2>1 DEF SidecarInv, Tidy, PageIsWhatItsRecordSays
  <2>6. m[d].text \in Version /\ m[d].stamp \in {Renderer[1], Renderer[2]}
    BY <2>1 DEF SidecarInv, Rendered
  <2> HIDE DEF n, m, t, W, K
  <2> QED
    BY <2>1, <2>2, <2>4, <2>5, <2>6 DEF PageOf, HasPage, Present, m
<1>5. DOMAIN pages = W /\ (space = None => DOMAIN repairs = {})
      /\ (space # None => DOMAIN repairs = Repairs(space))
      /\ \A d \in DOMAIN repairs : repairs[d] = PageOf(d)
  <2>1. DOMAIN <<>> = {}
    OBVIOUS
  <2> QED
    BY <2>1 DEF Fresh, Filled
<1>6. \A d \in W \cup K :
         st[d] = IF d \in W THEN StampOf(d, pages[d], space)
                 ELSE IF d \in DOMAIN repairs THEN StampOf(d, repairs[d], space) ELSE stamps[d]
  BY <1>1, <1>5 DEF StampsAfter
<1>7. DOMAIN st = W \cup K
  BY <1>1 DEF StampsAfter
<1>8. v = (vouched \cap (W \cup K)) \ (W \cup DOMAIN repairs)
  BY <1>1, <1>5 DEF VouchedAfter
<1> HIDE DEF n, t, W, K, m, b, st, v, repairs, pages
<1> DEFINE fine(d) == /\ stamped(d) /\ fits(d)
                      /\ d \notin v => earned(d)
                      /\ space # None /\ d \notin v => complete(d)
\* What was embedded just now, and what is written without a key.
<1>9. ASSUME NEW d \in W \cup K, NEW page, t[n[d].slug] = page, st[d] = StampOf(d, page, space),
             space # None =>
                /\ n[d].slug \in DOMAIN b /\ b[n[d].slug] = Sidecar(page, space)
                /\ Inputs(page) # None /\ Sidecar(page, space) # Corrupt
      PROVE  stamped(d) /\ fits(d) /\ earned(d) /\ (space # None => complete(d))
  <2>1. CASE space = None
    <3>1. st[d] = [of |-> None, space |-> None, inputs |-> None]
      BY <1>9, <2>1 DEF StampOf, NoStamp
    <3> QED
      BY <2>1, <3>1 DEF Fits, Earned
  <2>2. CASE space # None
    <3>1. st[d] = [of |-> page.text, space |-> space, inputs |-> Inputs(page)]
      BY <1>9, <2>2 DEF StampOf
    <3>2. b[n[d].slug] = [inputs |-> Inputs(page), space |-> space,
                          header |-> IF tools.writer = 2 THEN space ELSE None]
      BY <1>9, <2>2 DEF Sidecar
    <3>3. Inputs(page).text = page.text /\ Inputs(page).look = page.look
      BY DEF Inputs
    <3> QED
      BY <1>9, <2>2, <3>1, <3>2, <3>3 DEF Fits, Earned
  <2> QED
    BY <2>1, <2>2
<1>10. ASSUME NEW d \in W
       PROVE  fine(d)
  <2>1. t[n[d].slug] = pages[d] /\ st[d] = StampOf(d, pages[d], space) /\ n[d].slug = p.slug[d]
    BY <1>3, <1>6
  <2>2. space # None => Inputs(pages[d]) # None /\ Sidecar(pages[d], space) # Corrupt
    <3> SUFFICES ASSUME space \in Space
                 PROVE  Inputs(pages[d]) # None /\ Sidecar(pages[d], space) # Corrupt
      OBVIOUS
    <3>1. pages[d] = Page(d, p.seen[d], r) /\ p.seen[d] \in Version
      BY <1>3
    <3>2. Inputs(Page(d, p.seen[d], r)) # None /\ Sidecar(Page(d, p.seen[d], r), space) # Corrupt
      BY <1>0, <3>1, Tokens
    <3> QED
      BY <3>1, <3>2
  <2> HIDE DEF fits, earned, complete, stamped
  <2> QED
    BY <1>2, <1>9, <2>1, <2>2
<1>11. ASSUME NEW d \in K, d \in DOMAIN repairs
       PROVE  fine(d)
  <2>1. t[n[d].slug] = PageOf(d) /\ st[d] = StampOf(d, PageOf(d), space) /\ n[d].slug = m[d].slug
    BY <1>4, <1>5, <1>6, <1>11
  <2>2. space # None => Inputs(PageOf(d)) # None /\ Sidecar(PageOf(d), space) # Corrupt
    BY <1>0, <1>4, Tokens
  <2> HIDE DEF fits, earned, complete, stamped
  <2> QED
    BY <1>2, <1>9, <1>11, <2>1, <2>2
<1>12. ASSUME NEW d \in K, d \notin DOMAIN repairs
       PROVE  fine(d)
  <2> DEFINE s == m[d].slug
  <2>1. /\ d \in Current(held.manifest) /\ HasPage(d) /\ n[d].slug = s /\ t[s] = PageOf(d)
        /\ st[d] = stamps[d] /\ d \in DOMAIN stamps
    BY <1>4, <1>6, <1>12 DEF Present, SidecarInv
  <2>2. /\ s \in DOMAIN b <=> s \in DOMAIN bins
        /\ s \in DOMAIN bins => b[s] = bins[s]
    BY <1>2, <1>12
  <2>3. d \notin v => d \notin vouched
    BY <1>4, <1>8, <1>12
  <2>4. /\ s \in DOMAIN bins /\ bins[s] # Corrupt => Fits(bins[s], stamps[d], held.tree[s])
        /\ d \notin vouched =>
              /\ stamps[d].inputs # None => stamps[d].space # None
              /\ s \in DOMAIN bins /\ bins[s] # Corrupt => Earned(bins[s], stamps[d])
    BY <2>1 DEF SidecarInv, Faithful, m
  <2>5. held.tree[s] = PageOf(d) /\ (HasSidecar(d) <=> s \in DOMAIN bins) /\ SidecarOf(d) = bins[s]
    BY DEF PageOf, HasSidecar, SidecarOf, m
  <2>6. stamped(d)
    BY <2>1 DEF SidecarInv, Stamped
  <2> HIDE DEF s
  <2>7. fits(d) /\ (d \notin v => earned(d))
    BY <2>1, <2>2, <2>3, <2>4, <2>5
  <2>8. ASSUME space # None, d \notin v
        PROVE  complete(d)
    <3>1. /\ s \in DOMAIN bins /\ bins[s] # Corrupt
          /\ stamps[d].space \in {None, space} /\ stamps[d].inputs = Inputs(PageOf(d))
      BY <1>4, <1>5, <1>12, <2>1, <2>5, <2>8 DEF Repairs, StaleSidecar, Parses
    <3>2. Inputs(PageOf(d)) # None
      BY <1>0, <1>4, <2>8, Tokens
    <3>3. bins[s].inputs = stamps[d].inputs /\ stamps[d].space # None
      BY <2>3, <2>4, <2>8, <3>1, <3>2 DEF Earned
    <3> QED
      BY <2>1, <2>2, <3>1, <3>3
  <2> HIDE DEF fits, earned, complete, stamped
  <2> QED
    BY <2>6, <2>7, <2>8
<1>13. \A d \in W \cup K : fine(d)
  <2> HIDE DEF fine
  <2> QED
    BY <1>10, <1>11, <1>12
<1>14. Stamped(st)
  BY <1>7, <1>13 DEF Stamped
<1>15. Faithful(After(held, p, r), b, st, v)
  BY <1>1, <1>13 DEF Faithful
<1>16. space # None => Complete(After(held, p, r), b, st, v, space)
  BY <1>1, <1>13 DEF Complete
<1> QED
  BY <1>14, <1>15, <1>16 DEF b, st, v

LEMMA SidecarStart == SidecarInit => SidecarInv
<1> SUFFICES ASSUME SidecarInit PROVE SidecarInv
  OBVIOUS
<1>1. PICK x \in Beginnings : held = x.corpus /\ bins = x.bins /\ stamps = x.stamps
  BY DEF SidecarInit
<1>2. held \in Published /\ Tidy(held)
  BY <1>1, BeginningsAssumption, PublishedIsTidy
<1>3. DOMAIN stamps = Present
  BY <1>1, BeginningsAssumption DEF Present
<1>4. \A d \in Current(held.manifest) :
         LET s == held.manifest[d].slug IN
         /\ held.manifest[d].stamp \in {Renderer[1], Renderer[2]}
         /\ stamps[d] = [of |-> stamps[d].of, space |-> stamps[d].space, inputs |-> stamps[d].inputs]
         /\ stamps[d].space \in Space \cup {None}
         /\ stamps[d].inputs # None => stamps[d].space # None
         /\ s \in DOMAIN bins /\ bins[s] # Corrupt =>
               Fits(bins[s], stamps[d], held.tree[s]) /\ Earned(bins[s], stamps[d])
  BY <1>1, BeginningsAssumption
<1>5. Rendered(held.manifest)
  <2>1. \A d \in DOMAIN held.manifest : held.manifest[d].text \in Version
    BY <1>2, PublishedAssumption
  <2> QED
    BY <1>4, <2>1 DEF Rendered, Current
<1>6. Stamped(stamps)
  BY <1>3, <1>4 DEF Stamped, Present
<1>7. Faithful(held, bins, stamps, vouched)
  BY <1>4 DEF Faithful
<1>8. Tooled
  <2>1. PICK h \in FirstListings : listing = [has |-> h, edits |-> 0]
    BY DEF SidecarInit
  <2>2. h \in [Doc -> Version \cup {Absent}]
    BY SidecarAssumption
  <2>3. tools = [engine |-> 1, pipeline |-> 1, writer |-> 1]
    BY DEF SidecarInit
  <2> QED
    BY <2>1, <2>2, <2>3 DEF Tooled
<1>9. last = None
  BY DEF SidecarInit
<1>10. last \in Space \cup {None} /\ KeyedRunRepairs
  BY <1>9 DEF KeyedRunRepairs
<1> QED
  BY <1>2, <1>3, <1>5, <1>6, <1>7, <1>8, <1>10 DEF SidecarInv

\* A nightly run is of a plan that resolve_collisions has named, and leaves what was shown of it.
LEMMA NightlyRun ==
    ASSUME SidecarInv, Nightly
    PROVE  \E p, r, space :
               /\ Plan(p, held) /\ \A d \in DOMAIN p.seen : p.seen[d] \in Version
               /\ r \in {Renderer[1], Renderer[2]} /\ space \in Space \cup {None}
               /\ held' = After(held, p, r) /\ last' = space
               /\ bins' = BinsAfter(p, r, space) /\ stamps' = StampsAfter(p, r, space)
               /\ vouched' = VouchedAfter(p, r, space)
<1> DEFINE there == {e \in Doc : listing.has[e] # Absent}
           asked_ == [d \in there |-> BaseSlug[tools.engine][listing.has[d]]]
           h == Had(held.manifest)
           slug == ResolveCollisions(asked_, h)
           seen == [d \in {e \in DOMAIN slug : listing.has[e] \notin Notice} |-> listing.has[d]]
           p == [slug |-> slug, seen |-> seen]
           r == Renderer[tools.engine]
<1>1. RunOn(p)
  BY DEF Nightly
<1>2. tools.engine \in 1..2 /\ listing.has \in [Doc -> Version \cup {Absent}]
  BY DEF SidecarInv, Tooled
<1>3. Asking(h)
  BY DEF SidecarInv, Tidy
<1>4. \A d \in there : d \in Doc /\ listing.has[d] \in Version
  BY <1>2
<1>5. Asking(asked_)
  <2>1. IsFiniteSet(Doc) /\ there \in SUBSET Doc /\ \A d \in Doc : d \in Nat
    BY SyncAssumption
  <2>2. IsFiniteSet(there)
    BY <2>1, FS_Subset
  <2>3. \A v \in Version : Sequence(BaseSlug[tools.engine][v])
    BY <1>2, SidecarAssumption DEF Sequence
  <2> HIDE DEF there
  <2> QED
    BY <1>4, <2>1, <2>2, <2>3 DEF Asking
<1>6. DOMAIN asked_ = there
  OBVIOUS
<1> HIDE DEF asked_, h, there
<1>7. /\ slug = [d \in there |-> slug[d]] /\ Asking(slug) /\ IsInjective(slug)
      /\ \A d \in there : FreeFor(h, slug[d], d)
  BY <1>3, <1>5, <1>6, ResolvedIsOwned
<1> HIDE DEF slug
<1>8. DOMAIN slug = there
  BY <1>7
<1>9. DOMAIN seen \subseteq DOMAIN slug /\ \A d \in DOMAIN seen : seen[d] \in Version
  BY <1>4, <1>8
<1>10. p.slug = slug /\ p.seen = seen
  OBVIOUS
<1> HIDE DEF seen, p
<1>11. Plan(p, held) /\ \A d \in DOMAIN p.seen : p.seen[d] \in Version
  BY <1>7, <1>8, <1>9, <1>10 DEF Plan, h
<1>12. r \in {Renderer[1], Renderer[2]}
  BY <1>2
<1>13. /\ held' = After(held, p, r)
       /\ \E space \in Space \cup {None}, allow \in BOOLEAN :
             Embed(p, Fresh(p, r), After(held, p, r), space, allow) /\ last' = space
  BY <1>1 DEF RunOn, Fresh, After
<1> HIDE DEF r
<1>14. PICK space \in Space \cup {None}, allow \in BOOLEAN :
           Embed(p, Fresh(p, r), After(held, p, r), space, allow) /\ last' = space
  BY <1>13
<1>15. After(held, p, r).manifest = NextManifest(held, p, r)
  BY DEF After
<1>16. bins' = BinsAfter(p, r, space)
  BY <1>14 DEF Embed, BinsAfter, Repaired, Filled
<1>17. stamps' = StampsAfter(p, r, space)
  BY <1>14, <1>15 DEF Embed, StampsAfter, Filled
<1>18. vouched' = VouchedAfter(p, r, space)
  BY <1>14, <1>15 DEF Embed, VouchedAfter, Filled
<1> QED
  BY <1>11, <1>12, <1>13, <1>14, <1>16, <1>17, <1>18

LEMMA NightlyStep == SidecarInv /\ Nightly => SidecarInv'
<1> SUFFICES ASSUME SidecarInv, Nightly PROVE SidecarInv'
  OBVIOUS
<1>1. PICK p, r, space :
          /\ Plan(p, held) /\ \A d \in DOMAIN p.seen : p.seen[d] \in Version
          /\ r \in {Renderer[1], Renderer[2]} /\ space \in Space \cup {None}
          /\ held' = After(held, p, r) /\ last' = space
          /\ bins' = BinsAfter(p, r, space) /\ stamps' = StampsAfter(p, r, space)
          /\ vouched' = VouchedAfter(p, r, space)
  BY NightlyRun
<1>2. Tidy(held) /\ Rendered(held.manifest) /\ Tooled
  BY DEF SidecarInv
<1>3. Tidy(held')
  BY <1>1, <1>2, NextIsTidy
<1>4. held'.manifest = NextManifest(held, p, r)
  BY <1>1 DEF After
<1>5. Rendered(held'.manifest)
  BY <1>1, <1>2, <1>4, NextRendered
<1>6. /\ Stamped(stamps') /\ Faithful(held', bins', stamps', vouched')
      /\ space # None => Complete(held', bins', stamps', vouched', space)
  BY <1>1, RunSidecars
<1>7. DOMAIN stamps' = Present'
  BY <1>1, <1>4 DEF StampsAfter, Present
<1>8. UNCHANGED <<listing, tools>>
  BY DEF Nightly
<1>9. Tooled'
  BY <1>2, <1>8 DEF Tooled
<1>10. KeyedRunRepairs'
  BY <1>1, <1>6, <1>8 DEF Complete, KeyedRunRepairs, Indexed, Parses, HasSidecar, SidecarOf, PageOf,
                          Present, Inputs
<1> QED
  BY <1>1, <1>3, <1>5, <1>6, <1>7, <1>9, <1>10 DEF SidecarInv

\* A step that is no keyed run, and leaves the corpus and what installs it in place.
LEMMA BesideARun ==
    ASSUME SidecarInv, last' = None, UNCHANGED held, Tooled',
           DOMAIN stamps' = Present, Stamped(stamps'), Faithful(held, bins', stamps', vouched')
    PROVE  SidecarInv'
<1>1. KeyedRunRepairs' /\ last' \in Space \cup {None}
  BY DEF KeyedRunRepairs
<1>2. Present' = Present
  BY DEF Present
<1> QED
  BY <1>1, <1>2 DEF SidecarInv

LEMMA RepairStep == SidecarInv /\ RepairEmbeddings => SidecarInv'
<1> SUFFICES ASSUME SidecarInv, RepairEmbeddings PROVE SidecarInv'
  OBVIOUS
<1>1. /\ stamps' = [d \in Present |->
                      IF Undersized(d) THEN [stamps[d] EXCEPT !.of = None] ELSE stamps[d]]
      /\ last' = None /\ UNCHANGED <<listing, tools, held, bins, vouched>>
  BY DEF RepairEmbeddings
<1>2. Tooled /\ DOMAIN stamps = Present /\ Stamped(stamps) /\ Faithful(held, bins, stamps, vouched)
  BY DEF SidecarInv
<1>3. ASSUME NEW d \in Present
      PROVE  /\ stamps'[d] = [of |-> stamps'[d].of, space |-> stamps[d].space,
                              inputs |-> stamps[d].inputs]
             /\ stamps[d].space \in Space \cup {None}
  <2>1. stamps[d] = [of |-> stamps[d].of, space |-> stamps[d].space, inputs |-> stamps[d].inputs]
        /\ stamps[d].space \in Space \cup {None}
    BY <1>2 DEF Stamped
  <2>2. stamps'[d] = IF Undersized(d) THEN [stamps[d] EXCEPT !.of = None] ELSE stamps[d]
    BY <1>1
  <2> QED
    BY <2>1, <2>2
<1>4. ASSUME NEW d \in Present
      PROVE  stamps'[d].space = stamps[d].space /\ stamps'[d].inputs = stamps[d].inputs
  <2>1. stamps'[d] = [of |-> stamps'[d].of, space |-> stamps[d].space, inputs |-> stamps[d].inputs]
    BY <1>3
  <2> QED
    BY <2>1
<1>5. DOMAIN stamps' = Present /\ Stamped(stamps')
  BY <1>1, <1>3, <1>4 DEF Stamped
<1>6. Faithful(held, bins, stamps', vouched)
  BY <1>2, <1>4 DEF Faithful, Fits, Earned, Present
<1>7. Tooled'
  BY <1>1, <1>2 DEF Tooled
<1> QED
  BY <1>1, <1>5, <1>6, <1>7, BesideARun

LEMMA AnnotateStep == SidecarInv /\ Annotate => SidecarInv'
<1> SUFFICES ASSUME SidecarInv, Annotate PROVE SidecarInv'
  OBVIOUS
<1>1. /\ stamps' = [d \in Present |-> [stamps[d] EXCEPT !.inputs = Inputs(PageOf(d))]]
      /\ vouched' = vouched \cup {d \in Present : stamps'[d] # stamps[d]}
      /\ last' = None /\ UNCHANGED <<listing, tools, held, bins>>
  BY DEF Annotate
<1>2. Tooled /\ DOMAIN stamps = Present /\ Stamped(stamps) /\ Faithful(held, bins, stamps, vouched)
  BY DEF SidecarInv
<1>3. ASSUME NEW d \in Present
      PROVE  /\ stamps'[d] = [of |-> stamps[d].of, space |-> stamps[d].space,
                              inputs |-> stamps'[d].inputs]
             /\ stamps[d].space \in Space \cup {None}
  <2>1. stamps[d] = [of |-> stamps[d].of, space |-> stamps[d].space, inputs |-> stamps[d].inputs]
        /\ stamps[d].space \in Space \cup {None}
    BY <1>2 DEF Stamped
  <2>2. stamps'[d] = [stamps[d] EXCEPT !.inputs = Inputs(PageOf(d))]
    BY <1>1
  <2> QED
    BY <2>1, <2>2
<1>4. /\ \A d \in Present : stamps'[d].space = stamps[d].space /\ stamps'[d].of = stamps[d].of
      /\ \A d \in Present \ vouched' : d \notin vouched /\ stamps'[d] = stamps[d]
  BY <1>1, <1>3
<1>5. DOMAIN stamps' = Present /\ Stamped(stamps')
  BY <1>1, <1>3, <1>4 DEF Stamped
<1>6. Faithful(held, bins, stamps', vouched')
  BY <1>2, <1>4 DEF Faithful, Fits, Present
<1>7. Tooled'
  BY <1>1, <1>2 DEF Tooled
<1> QED
  BY <1>1, <1>5, <1>6, <1>7, BesideARun

LEMMA CutoverStep == SidecarInv /\ Cutover => SidecarInv'
<1> SUFFICES ASSUME SidecarInv, Cutover PROVE SidecarInv'
  OBVIOUS
<1> DEFINE m == held.manifest
           owner(s) == CHOOSE d \in Present : m[d].slug = s
<1>1. /\ \A d \in Present : stamps[d].space # None /\ Parses(d)
      /\ bins' = [s \in DOMAIN bins |->
                    IF \E d \in Present : m[d].slug = s
                    THEN [bins[s] EXCEPT !.header = stamps[owner(s)].space] ELSE bins[s]]
      /\ last' = None /\ UNCHANGED <<listing, tools, held, stamps, vouched>>
  BY DEF Cutover
<1>2. Tooled /\ DOMAIN stamps = Present /\ Stamped(stamps) /\ Faithful(held, bins, stamps, vouched)
      /\ Tidy(held)
  BY DEF SidecarInv
<1>3. ASSUME NEW d \in Present
      PROVE  LET s == m[d].slug IN
             /\ Fits(bins'[s], stamps[d], held.tree[s])
             /\ d \notin vouched => Earned(bins'[s], stamps[d])
  <2> DEFINE s == m[d].slug
  <2>1. owner(s) = d
    <3>1. owner(s) \in Present /\ m[owner(s)].slug = s
      <4>1. \E e \in Present : m[e].slug = s
        OBVIOUS
      <4> QED
        BY <4>1
    <3> HIDE DEF owner
    <3> QED
      BY <1>2, <3>1, PagesApart DEF Present
  <2>2. s \in DOMAIN bins /\ bins[s] # Corrupt /\ stamps[d].space # None
    BY <1>1 DEF Parses, HasSidecar, SidecarOf
  <2>3. Fits(bins[s], stamps[d], held.tree[s]) /\ (d \notin vouched => Earned(bins[s], stamps[d]))
    BY <1>2, <2>2 DEF Faithful, Present
  <2>4. bins'[s] = [bins[s] EXCEPT !.header = stamps[d].space]
    <3> HIDE DEF owner
    <3> QED
      BY <1>1, <2>1, <2>2
  <2> HIDE DEF s
  <2>5. bins[s] = [inputs |-> bins[s].inputs, space |-> stamps[d].space, header |-> bins[s].header]
    BY <2>2, <2>3 DEF Fits
  <2>6. bins'[s] = [inputs |-> bins[s].inputs, space |-> stamps[d].space, header |-> stamps[d].space]
    BY <2>4, <2>5
  <2>7. bins'[s].inputs = bins[s].inputs
    BY <2>6
  <2> QED
    BY <2>2, <2>3, <2>6, <2>7 DEF Fits, Earned, s
<1>4. \A d \in Present \ vouched : stamps[d].inputs # None => stamps[d].space # None
  BY <1>1
<1>5. Faithful(held, bins', stamps, vouched)
  <2> HIDE DEF owner
  <2> QED
    BY <1>3, <1>4 DEF Faithful, Present
<1>6. Tooled'
  BY <1>1, <1>2 DEF Tooled
<1> QED
  BY <1>1, <1>2, <1>5, <1>6, BesideARun

\* The steps that only change what is listed or installed.
LEMMA InstallStep == SidecarInv /\ (FlipWriter \/ Publish \/ Release) => SidecarInv'
<1> SUFFICES ASSUME SidecarInv, FlipWriter \/ Publish \/ Release PROVE SidecarInv'
  OBVIOUS
<1>1. last' = None /\ UNCHANGED <<held, bins, stamps, vouched>>
  BY DEF FlipWriter, Publish, Release
<1>2. Tooled /\ DOMAIN stamps = Present /\ Stamped(stamps) /\ Faithful(held, bins, stamps, vouched)
  BY DEF SidecarInv
<1>3. Tooled'
  <2>1. CASE FlipWriter
    BY <1>2, <2>1 DEF FlipWriter, Tooled
  <2>2. CASE Release
    BY <1>2, <2>2 DEF Release, Tooled
  <2>3. CASE Publish
    <3>1. PICK d \in Doc, v \in Version \cup {Absent} :
              listing' = [has |-> [listing.has EXCEPT ![d] = v], edits |-> listing.edits + 1]
      BY <2>3 DEF Publish
    <3>2. tools' = tools
      BY <2>3 DEF Publish
    <3> QED
      BY <1>2, <3>1, <3>2 DEF Tooled
  <2> QED
    BY <2>1, <2>2, <2>3
<1> QED
  BY <1>1, <1>2, <1>3, BesideARun

\* _load_embedding_index and _select_embedding_backfill: whichever runs had a key, and in
\* whatever order texts, renderers, input pipelines and spaces changed, search ranks the text
\* that its page shows by vectors of the space of the query, and a keyed run leaves no current
\* document out of it but for those an operator vouched for.
THEOREM SearchStaysTrue == SidecarSpec => []SidecarsAreTrue
<1>1. SidecarInv /\ [SidecarNext]_sidecarVars => SidecarInv'
  <2> SUFFICES ASSUME SidecarInv, [SidecarNext]_sidecarVars PROVE SidecarInv'
    OBVIOUS
  <2>1. CASE UNCHANGED sidecarVars
    <3>1. UNCHANGED <<listing, tools, held, bins, stamps, vouched, last>>
      BY <2>1 DEF sidecarVars
    <3>2. Tooled' /\ Present' = Present
      BY <3>1 DEF SidecarInv, Tooled, Present
    <3>3. KeyedRunRepairs'
      BY <3>1 DEF SidecarInv, KeyedRunRepairs, Indexed, Parses, HasSidecar, SidecarOf, PageOf,
                  Present, Inputs
    <3> QED
      BY <3>1, <3>2, <3>3 DEF SidecarInv
  <2>2. CASE SidecarNext
    BY <2>2, NightlyStep, RepairStep, AnnotateStep, CutoverStep, InstallStep DEF SidecarNext
  <2> QED
    BY <2>1, <2>2
<1>2. SidecarInv => SidecarsAreTrue
  <2> SUFFICES ASSUME SidecarInv PROVE SearchIsOfThePage
    BY DEF SidecarsAreTrue, SidecarInv
  <2> SUFFICES ASSUME NEW x \in Space, NEW d \in Present, Indexed(d, x)
               PROVE  /\ SidecarOf(d).space = x /\ SidecarOf(d).header \in {None, x}
                      /\ HasPage(d)
                      /\ SidecarOf(d).inputs.text = PageOf(d).text
                      /\ SidecarOf(d).inputs.look = PageOf(d).look
    BY DEF SearchIsOfThePage
  <2>1. stamps[d].space = x /\ x # None /\ HasSidecar(d) /\ SidecarOf(d) # Corrupt
    BY SidecarAssumption DEF Indexed, Parses
  <2>2. Fits(SidecarOf(d), stamps[d], PageOf(d))
    BY <2>1 DEF SidecarInv, Faithful, HasSidecar, SidecarOf, PageOf, Present
  <2>3. HasPage(d)
    BY DEF SidecarInv, Tidy, PageIsWhatItsRecordSays, HasPage, Present
  <2>4. SidecarOf(d) = [inputs |-> SidecarOf(d).inputs, space |-> x, header |-> SidecarOf(d).header]
    BY <2>1, <2>2 DEF Fits
  <2>5. SidecarOf(d).space = x
    BY <2>4
  <2> QED
    BY <2>1, <2>2, <2>3, <2>5 DEF Fits
<1> QED
  BY <1>1, <1>2, SidecarStart, PTL DEF SidecarSpec

=============================================================================
