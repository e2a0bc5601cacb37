-------------------------- MODULE LiveReaderProofs --------------------------
(***************************************************************************)
(* Proofs about LiveReader, for any number of documents, worker threads    *)
(* and pulls, and about StateCache, for any commits, threads and sizes.    *)
(*                                                                         *)
(* What is cached is current once the clone is settled under the caches'   *)
(* stamp; and, whatever the stamp, as long as there is a call that no pull *)
(* overlaps and that has refreshed the caches.  In between a thread that   *)
(* saw an old stamp may put it back, but only together with empty caches   *)
(* and a new epoch.                                                        *)
(*                                                                         *)
(* A cached state keeps no bodies that were not declared: who declared     *)
(* them keeps them on an object whose entry is charged for them, or on     *)
(* one that the cache has dropped and never gives out again.               *)
(***************************************************************************)
EXTENDS LiveReader, StateCache, SequenceTheorems, FiniteSetTheorems, NaturalsInduction, TLAPS

Want == {"slugs", "index", "docs", "slugs again"}
CacheRecord ==
    [stamp : Nat, epoch : Nat, manifest : Bodies \cup {None}, slugs : Bodies \cup {None},
     index : Bodies \cup {None}, bodies : Bodies, ids : Bodies]
CallRecord ==
    [pc : CallStep, kind : Kind, doc : Doc \cup {None}, want : Want, seen : Nat, epoch : Nat,
     slugs : Bodies \cup {None}, index : Bodies \cup {None}, docs : Bodies \cup {None}, body : Text,
     answer : Text \cup {None, Unknown, Failed}, quiet : BOOLEAN]

TypeOK ==
    /\ clone \in [page : [Doc -> Text], manifest : Bodies, stamp : Nat]
    /\ pulls \in 0..MaxPulls /\ pull \in Bodies \cup {None}
    /\ cache \in CacheRecord
    /\ thread \in [Thread -> CallRecord]

\* The latest stamp that anybody can have seen.
Latest == IF pull = None THEN pulls + 1 ELSE pulls

\* A clone that no pull moves is whole, and its stamp is the latest.
Whole ==
    /\ clone.stamp <= Latest /\ cache.stamp <= Latest
    /\ pull = None =>
         clone.stamp = pulls + 1 /\ \A d \in Doc : clone.page[d] = Entry(clone.manifest, d)

\* What a call knows where it stands, by itself.
Goes(l) ==
    /\ l.pc # "idle" => l.doc \in Doc
    /\ l.pc \in {"stat", "refresh", "check", "take", "load"} => l.kind # "section"
    /\ l.want # "slugs" => l.kind = "search"
    /\ l.want = "index" => l.slugs # None
    /\ l.want \in {"docs", "slugs again"} => l.index # None
    /\ l.want = "slugs again" => l.docs # None
    /\ l.pc \notin {"remember", "keep"} => l.body = 0
    /\ l.seen <= Latest

\* And what it holds, if no pull overlaps it: what the clone says.
Holds(l) ==
    l.quiet =>
        /\ pull = None
        /\ l.pc = "refresh" => l.seen = clone.stamp
        /\ l.pc = "remember" => l.body = clone.page[l.doc]
        /\ l.pc = "keep" => l.body \in {0, clone.page[l.doc]}
        /\ l.index # None => \A d \in DOMAIN l.index : l.index[d] = clone.page[d]
        /\ l.pc = "done" => l.answer \in {0, Unknown, Failed, clone.page[l.doc]}

\* The call has refreshed the caches, and no pull overlaps it.
Past(l) ==
    /\ l.quiet
    /\ \/ l.pc \in {"check", "take", "load", "law", "look", "body", "read", "remember", "keep"}
       \/ l.pc \in {"stat", "refresh", "resolve"} /\ (l.kind = "reference" \/ l.want \in {"docs", "slugs again"})

\* The caches are as the clone is.
Current ==
    /\ cache.manifest \in {None, clone.manifest} /\ cache.slugs \in {None, clone.manifest}
    /\ \A d \in DOMAIN cache.bodies : cache.bodies[d] = clone.page[d]
    /\ \A d \in DOMAIN cache.ids : cache.ids[d] \in {0, clone.page[d]}
    /\ cache.index # None => \A d \in DOMAIN cache.index : cache.index[d] = clone.page[d]

\* What a call of this epoch will remember is current.
Brings(l) ==
    l.epoch = cache.epoch =>
        /\ l.pc = "remember" => l.body = clone.page[l.doc]
        /\ l.pc = "keep" => l.body \in {0, clone.page[l.doc]}

Firm == Settled \/ \E t \in Thread : Past(thread[t])

Calls == \A t \in Thread : Goes(thread[t]) /\ Holds(thread[t]) /\ thread[t].epoch <= cache.epoch
Cached == Firm => Current /\ \A t \in Thread : Brings(thread[t])

IndInv == TypeOK /\ Whole /\ Calls /\ Cached
-----------------------------------------------------------------------------
(* A step of one call, and what it makes of the caches.                     *)

LEMMA StepKeeps ==
  ASSUME IndInv, NEW t \in Thread, NEW l \in CallRecord, Local(t, l),
         UNCHANGED <<clone, pulls, pull>>, cache' \in CacheRecord, cache'.stamp <= Latest,
         cache.epoch <= cache'.epoch, l.epoch <= cache'.epoch, Goes(l), Holds(l),
         Firm' => Current' /\ Brings(l)', Firm' /\ cache'.epoch = cache.epoch => Firm
  PROVE  IndInv'
<1> USE DEF IndInv
<1>1. thread' \in [Thread -> CallRecord] /\ thread'[t] = l
      /\ \A s \in Thread \ {t} : thread'[s] = thread[s]
  BY DEF TypeOK, Local
<1>2. TypeOK' /\ Whole'
  BY <1>1 DEF TypeOK, Whole, Latest
<1>3. \A k \in CallRecord : (Goes(k) <=> Goes(k)') /\ (Holds(k) <=> Holds(k)')
  BY DEF Goes, Holds, Latest
<1>4. Calls'
  <2>1. SUFFICES ASSUME NEW s \in Thread
                 PROVE  (Goes(thread[s]) /\ Holds(thread[s]) /\ thread[s].epoch <= cache.epoch)'
    BY DEF Calls
  <2>2. CASE s = t
    BY <1>1, <1>3, <2>2
  <2>3. CASE s # t
    <3>1. thread[s] \in CallRecord /\ thread[s].epoch \in Nat /\ cache.epoch \in Nat /\ cache'.epoch \in Nat
      BY DEF TypeOK, CallRecord, CacheRecord
    <3>2. QED
      BY <1>1, <1>3, <2>3, <3>1 DEF Calls
  <2>4. QED
    BY <2>2, <2>3
<1>5. Cached'
  <2>1. SUFFICES ASSUME Firm', NEW s \in Thread
                 PROVE  Brings(thread[s])'
    BY DEF Cached
  <2>2. CASE s = t
    BY <1>1, <2>1, <2>2 DEF Brings
  <2>3. CASE s # t
    <3>1. CASE cache'.epoch = cache.epoch
      BY <1>1, <2>1, <2>3, <3>1 DEF Cached, Brings
    <3>2. CASE cache'.epoch # cache.epoch
      <4>1. thread[s].epoch \in Nat /\ cache.epoch \in Nat /\ cache'.epoch \in Nat
        BY DEF TypeOK, CallRecord, CacheRecord
      <4>2. thread'[s].epoch < cache'.epoch
        BY <1>1, <2>3, <3>2, <4>1 DEF Calls
      <4>3. QED
        BY <4>1, <4>2 DEF Brings
    <3>3. QED
      BY <3>1, <3>2
  <2>4. QED
    BY <2>2, <2>3
<1>6. QED
  BY <1>2, <1>4, <1>5

\* A step that leaves the caches as they are.
LEMMA LookKeeps ==
  ASSUME IndInv, NEW t \in Thread, NEW l \in CallRecord, Local(t, l),
         UNCHANGED <<clone, pulls, pull, cache>>, l.epoch <= cache.epoch, Goes(l), Holds(l),
         Past(l) => Firm, Firm => Brings(l)
  PROVE  IndInv'
<1>1. cache' \in CacheRecord /\ cache'.stamp <= Latest /\ cache.epoch <= cache'.epoch
  BY DEF IndInv, TypeOK, CacheRecord, Whole
<1>2. ASSUME Firm' PROVE Firm
  <2>1. CASE Settled'
    BY <2>1 DEF Firm, Settled
  <2>2. CASE \E s \in Thread : Past(thread[s])'
    <3>1. PICK s \in Thread : Past(thread'[s])
      BY <2>2 DEF Past
    <3>2. CASE s = t
      BY <3>1, <3>2 DEF Local, IndInv, TypeOK
    <3>3. CASE s # t
      BY <3>1, <3>3 DEF Local, IndInv, TypeOK, Firm
    <3>4. QED
      BY <3>2, <3>3
  <2>3. QED
    BY <1>2, <2>1, <2>2 DEF Firm
<1>3. Firm' => Current' /\ Brings(l)'
  BY <1>2 DEF IndInv, Cached, Current, Brings
<1>4. QED
  BY <1>1, <1>2, <1>3, StepKeeps

\* A call that ends.
Ended(t, result) ==
    [Fresh("law", thread[t].doc) EXCEPT !.pc = "done", !.answer = result, !.quiet = thread[t].quiet]

LEMMA FreshFits ==
  ASSUME NEW k \in Kind, NEW d \in Doc \cup {None}
  PROVE  Fresh(k, d) \in CallRecord
<1>1. 0 \in Text /\ "idle" \in CallStep /\ "slugs" \in Want
  BY ReaderAssumption DEF Text, CallStep, Want
<1>2. QED
  BY <1>1 DEF Fresh, CallRecord

LEMMA EndFits ==
  ASSUME IndInv, NEW t \in Thread, thread[t].doc \in Doc,
         NEW r \in Text \cup {None, Unknown, Failed},
         thread[t].quiet => r \in {0, Unknown, Failed, clone.page[thread[t].doc]}
  PROVE  LET l == Ended(t, r)
         IN  /\ l \in CallRecord /\ l.epoch = 0 /\ l.pc = "done" /\ l.quiet = thread[t].quiet
             /\ Goes(l) /\ Holds(l) /\ ~Past(l) /\ Brings(l)
<1> DEFINE l == Ended(t, r)
<1>1. Fresh("law", thread[t].doc) \in CallRecord
  BY FreshFits DEF Kind, Tool
<1>2. thread[t].quiet \in BOOLEAN /\ 0 \in Text /\ pulls \in Nat
  BY ReaderAssumption DEF IndInv, TypeOK, CallRecord, Text
<1>3. /\ l \in CallRecord
      /\ l.pc = "done" /\ l.kind = "law" /\ l.doc = thread[t].doc /\ l.want = "slugs" /\ l.seen = 0
      /\ l.epoch = 0 /\ l.index = None /\ l.body = 0 /\ l.answer = r /\ l.quiet = thread[t].quiet
  BY <1>1, <1>2 DEF Ended, Fresh, CallRecord, CallStep
<1>4. Goes(l)
  BY <1>2, <1>3 DEF Goes, Latest
<1>5. Holds(l)
  BY <1>2, <1>3 DEF IndInv, Calls, Holds
<1>6. ~Past(l) /\ Brings(l)
  BY <1>3 DEF Past, Brings
<1>7. QED
  BY <1>3, <1>4, <1>5, <1>6

\* A call that goes on with the index it held.
LEMMA HoldsOn ==
  ASSUME NEW l, NEW k, Holds(k), l.quiet = k.quiet, l.index = k.index,
         l.pc \notin {"refresh", "remember", "keep", "done"}
  PROVE  Holds(l)
  BY DEF Holds

LEMMA GoesOn ==
  ASSUME NEW l, NEW k, Goes(k), l.kind = k.kind, l.doc = k.doc, l.want = k.want, l.slugs = k.slugs,
         l.index = k.index, l.docs = k.docs, l.body = k.body, l.seen <= Latest,
         k.pc \notin {"idle", "remember", "keep"},
         k.pc \in {"stat", "refresh", "check", "take", "load"} \/
            l.pc \notin {"stat", "refresh", "check", "take", "load"}
  PROVE  Goes(l)
  BY DEF Goes

\* What a loader returns to a call without the lock.
LEMMA GivenFits ==
  ASSUME IndInv, NEW t \in Thread, thread[t].pc \in {"take", "load"}, NEW v \in Bodies \cup {None},
         Given(t, v),
         thread[t].quiet /\ thread[t].want = "index" /\ v # None =>
            \A d \in DOMAIN v : v[d] = clone.page[d]
  PROVE  \E l \in CallRecord :
            /\ Local(t, l) /\ l.epoch <= cache.epoch /\ Goes(l) /\ Holds(l)
            /\ l.pc \notin {"remember", "keep"} /\ l.quiet = thread[t].quiet
<1> DEFINE k == thread[t]
           hit == k.doc \in DOMAIN k.docs /\ k.doc \in DOMAIN v /\ k.doc \in DOMAIN k.index
<1>1. k \in CallRecord /\ Goes(k) /\ Holds(k) /\ k.epoch <= cache.epoch /\ k.doc \in Doc /\ k.kind # "section"
  BY DEF IndInv, TypeOK, Calls, Goes
<1>2. cache.epoch \in Nat /\ pulls \in Nat
  BY ReaderAssumption DEF IndInv, TypeOK, CacheRecord
<1>3. ASSUME NEW r \in Text \cup {None, Unknown, Failed}, Done(t, r),
             k.quiet => r \in {0, Unknown, Failed, clone.page[k.doc]}
      PROVE  \E l \in CallRecord :
                /\ Local(t, l) /\ l.epoch <= cache.epoch /\ Goes(l) /\ Holds(l)
                /\ l.pc \notin {"remember", "keep"} /\ l.quiet = thread[t].quiet
  <2>1. Local(t, Ended(t, r))
    BY <1>3 DEF Done, Ended
  <2>2. QED
    BY <1>1, <1>2, <1>3, <2>1, EndFits
<1>4. CASE v = None
  BY <1>3, <1>4 DEF Given
<1>5. CASE v # None /\ k.kind \in {"law", "reference"}
  <2>1. CASE k.doc \in DOMAIN v
    <3> DEFINE l == [k EXCEPT !.pc = IF k.kind = "law" THEN "law" ELSE "look"]
    <3>1. Local(t, l)
      BY <1>5, <2>1 DEF Given
    <3>2. /\ l \in CallRecord /\ l.pc \in {"law", "look"} /\ l.epoch = k.epoch /\ l.doc = k.doc
          /\ l.kind = k.kind /\ l.want = k.want /\ l.index = k.index /\ l.docs = k.docs /\ l.slugs = k.slugs
          /\ l.quiet = k.quiet /\ l.seen = k.seen /\ l.body = k.body
      BY <1>1 DEF CallRecord, CallStep
    <3> HIDE DEF l
    <3>3. Goes(l)
      BY <1>1, <3>2 DEF Goes
    <3>4. Holds(l)
      BY <1>1, <3>2, HoldsOn
    <3>5. QED
      BY <1>1, <3>1, <3>2, <3>3, <3>4
  <2>2. CASE k.doc \notin DOMAIN v
    BY <1>3, <1>5, <2>2 DEF Given
  <2>3. QED
    BY <2>1, <2>2
<1>6. CASE v # None /\ k.kind = "search" /\ k.want = "slugs"
  <2> DEFINE l == [k EXCEPT !.pc = "check", !.want = "index", !.slugs = v]
  <2>1. Local(t, l)
    BY <1>6 DEF Given
  <2>2. /\ l \in CallRecord /\ l.pc = "check" /\ l.epoch = k.epoch /\ l.doc = k.doc
        /\ l.kind = k.kind /\ l.want = "index" /\ l.index = k.index /\ l.slugs = v
        /\ l.quiet = k.quiet /\ l.seen = k.seen /\ l.body = k.body
    BY <1>1 DEF CallRecord, CallStep, Want
  <2> HIDE DEF l
  <2>3. Goes(l)
    BY <1>1, <1>6, <2>2 DEF Goes
  <2>4. Holds(l)
    BY <1>1, <2>2, HoldsOn
  <2>5. QED
    BY <1>1, <2>1, <2>2, <2>3, <2>4
<1>7. CASE v # None /\ k.kind = "search" /\ k.want = "index"
  <2> DEFINE l == [k EXCEPT !.pc = "stat", !.want = "docs", !.index = v, !.slugs = None]
  <2>1. Local(t, l)
    BY <1>7 DEF Given
  <2>2. /\ l \in CallRecord /\ l.pc = "stat" /\ l.epoch = k.epoch /\ l.doc = k.doc
        /\ l.kind = k.kind /\ l.want = "docs" /\ l.index = v
        /\ l.quiet = k.quiet /\ l.seen = k.seen /\ l.body = k.body
    BY <1>1 DEF CallRecord, CallStep, Want
  <2> HIDE DEF l
  <2>3. Goes(l)
    BY <1>1, <1>7, <2>2 DEF Goes
  <2>4. Holds(l)
    BY <1>1, <1>7, <2>2 DEF Holds
  <2>5. QED
    BY <1>1, <2>1, <2>2, <2>3, <2>4
<1>8. CASE v # None /\ k.kind = "search" /\ k.want = "docs"
  <2> DEFINE l == [k EXCEPT !.pc = "stat", !.want = "slugs again", !.docs = v]
  <2>1. Local(t, l)
    BY <1>8 DEF Given
  <2>2. /\ l \in CallRecord /\ l.pc = "stat" /\ l.epoch = k.epoch /\ l.doc = k.doc
        /\ l.kind = k.kind /\ l.want = "slugs again" /\ l.index = k.index /\ l.docs = v
        /\ l.quiet = k.quiet /\ l.seen = k.seen /\ l.body = k.body
    BY <1>1 DEF CallRecord, CallStep, Want
  <2> HIDE DEF l
  <2>3. Goes(l)
    BY <1>1, <1>8, <2>2 DEF Goes
  <2>4. Holds(l)
    BY <1>1, <2>2, HoldsOn
  <2>5. QED
    BY <1>1, <2>1, <2>2, <2>3, <2>4
<1>9. CASE v # None /\ k.kind = "search" /\ k.want = "slugs again"
  <2>1. Done(t, IF hit THEN k.index[k.doc] ELSE Unknown)
    BY <1>9 DEF Given
  <2>2. k.index \in Bodies
    BY <1>1, <1>9 DEF Goes, CallRecord
  <2>3. hit => k.index[k.doc] \in Text
    BY <2>2 DEF Bodies
  <2>4. k.quiet /\ hit => k.index[k.doc] = clone.page[k.doc]
    BY <1>1, <1>9 DEF Goes, Holds
  <2>5. QED
    BY <1>3, <2>1, <2>3, <2>4
<1>10. k.kind \in {"law", "reference", "search"} /\ k.want \in {"slugs", "index", "docs", "slugs again"}
  BY <1>1 DEF CallRecord, Kind, Tool, Want
<1>11. QED
  BY <1>4, <1>5, <1>6, <1>7, <1>8, <1>9, <1>10

\* Manifests are bodies, and there is an empty one.
LEMMA BodiesFit ==
  /\ Empty \in Bodies /\ DOMAIN Empty = {} /\ None \notin Bodies /\ None # 0
  /\ Manifest \subseteq Bodies
<1>1. 0 \in Text /\ None # 0
  BY ReaderAssumption DEF Text
<1>2. Empty \in Bodies /\ DOMAIN Empty = {}
  BY <1>1 DEF Empty, Bodies
<1>3. Manifest \subseteq Bodies
  BY DEF Manifest, Bodies
<1>4. QED
  BY <1>1, <1>2, <1>3, NothingAssumption

\* A firm step needs a clone at rest; and it was firm before, if the caches bear the same stamp.
LEMMA FirmRests ==
  ASSUME IndInv, NEW t \in Thread, NEW l \in CallRecord, Local(t, l), Holds(l),
         UNCHANGED <<clone, pulls, pull>>, Firm'
  PROVE  pull = None
<1>1. CASE Settled'
  BY <1>1 DEF Settled
<1>2. CASE \E s \in Thread : Past(thread[s])'
  <2>1. PICK s \in Thread : Past(thread'[s])
    BY <1>2 DEF Past
  <2>2. CASE s = t
    BY <2>1, <2>2 DEF Local, IndInv, TypeOK, Past, Holds
  <2>3. CASE s # t
    <3>1. thread'[s] = thread[s]
      BY <2>3 DEF Local, IndInv, TypeOK
    <3>2. QED
      BY <2>1, <3>1 DEF IndInv, Calls, Past, Holds
  <2>4. QED
    BY <2>2, <2>3
<1>3. QED
  BY <1>1, <1>2 DEF Firm

LEMMA FirmWas ==
  ASSUME IndInv, NEW t \in Thread, NEW l \in CallRecord, Local(t, l), Past(l) => Firm,
         UNCHANGED <<clone, pulls, pull>>, cache'.stamp = cache.stamp, Firm'
  PROVE  Firm
<1>1. CASE Settled'
  BY <1>1 DEF Firm, Settled
<1>2. CASE \E s \in Thread : Past(thread[s])'
  <2>1. PICK s \in Thread : Past(thread'[s])
    BY <1>2 DEF Past
  <2>2. CASE s = t
    BY <2>1, <2>2 DEF Local, IndInv, TypeOK
  <2>3. CASE s # t
    BY <2>1, <2>3 DEF Local, IndInv, TypeOK, Firm
  <2>4. QED
    BY <2>2, <2>3
<1>3. QED
  BY <1>1, <1>2 DEF Firm

\* The caches after a refresh: as they were, or empty under the stamp seen and a new epoch.
LEMMA RefreshedFits ==
  ASSUME IndInv, NEW seen \in Nat, seen <= Latest
  PROVE  LET c == Refreshed(cache, seen)
         IN  /\ c \in CacheRecord /\ c.stamp <= Latest /\ cache.epoch <= c.epoch
             /\ c.epoch = cache.epoch => c = cache /\ seen \in {0, cache.stamp}
             /\ c.epoch # cache.epoch =>
                  /\ c.stamp = seen /\ seen # 0
                  /\ c.manifest = None /\ c.slugs = None /\ c.index = None
                  /\ c.bodies = Empty /\ c.ids = Empty
<1>1. cache \in CacheRecord /\ cache.epoch \in Nat /\ cache.stamp <= Latest
  BY DEF IndInv, TypeOK, Whole, CacheRecord
<1>2. CASE seen \in {0, cache.stamp}
  BY <1>1, <1>2 DEF Refreshed
<1>3. CASE seen \notin {0, cache.stamp}
  <2>1. Refreshed(cache, seen) = [stamp |-> seen, epoch |-> cache.epoch + 1, manifest |-> None, slugs |-> None,
                                  index |-> None, bodies |-> Empty, ids |-> Empty]
    BY <1>3 DEF Refreshed
  <2>2. Refreshed(cache, seen) \in CacheRecord
    BY <1>1, <2>1, BodiesFit DEF CacheRecord
  <2>3. QED
    BY <1>1, <1>3, <2>1, <2>2
<1>4. QED
  BY <1>2, <1>3

\* The same of what the lock's holder leaves when he has fetched the slugs.
LEMMA SlugsFit ==
  ASSUME IndInv, UNCHANGED <<clone, pulls, pull>>, cache' = WithSlugs(cache)
  PROVE  /\ cache' \in CacheRecord /\ cache'.stamp <= Latest /\ cache.epoch <= cache'.epoch
         /\ pull = None => Current'
         /\ pull = None /\ cache'.epoch = cache.epoch => Firm
<1> DEFINE f == Refreshed(cache, clone.stamp)
           g == IF f.manifest = None /\ clone.stamp # 0 THEN [f EXCEPT !.manifest = clone.manifest] ELSE f
<1>1. clone.stamp \in Nat /\ clone.stamp <= Latest /\ clone.manifest \in Bodies /\ cache \in CacheRecord
  BY DEF IndInv, TypeOK, Whole
<1>2. /\ f \in CacheRecord /\ f.stamp <= Latest /\ cache.epoch <= f.epoch
      /\ f.epoch = cache.epoch => f = cache /\ clone.stamp \in {0, cache.stamp}
      /\ f.epoch # cache.epoch =>
           /\ f.stamp = clone.stamp /\ clone.stamp # 0
           /\ f.manifest = None /\ f.slugs = None /\ f.index = None
           /\ f.bodies = Empty /\ f.ids = Empty
  BY <1>1, RefreshedFits
<1>3. Refreshed(f, clone.stamp) = f
  BY <1>2 DEF Refreshed
<1>4. cache' = IF f.slugs # None THEN f ELSE [g EXCEPT !.slugs = g.manifest]
  <2>1. WithManifest(f) = g
    BY <1>3 DEF WithManifest
  <2>2. QED
    BY <2>1 DEF WithSlugs
<1> HIDE DEF f
<1>5. /\ g \in CacheRecord /\ g.stamp = f.stamp /\ g.epoch = f.epoch /\ g.index = f.index /\ g.slugs = f.slugs
      /\ g.bodies = f.bodies /\ g.ids = f.ids
      /\ g.manifest = f.manifest \/ g.manifest = clone.manifest
  BY <1>1, <1>2 DEF CacheRecord
<1> HIDE DEF g
<1>6. /\ cache' \in CacheRecord /\ cache'.stamp = f.stamp /\ cache'.epoch = f.epoch
      /\ cache'.index = f.index /\ cache'.bodies = f.bodies /\ cache'.ids = f.ids
      /\ cache'.manifest \in {f.manifest, clone.manifest}
      /\ cache'.slugs \in {f.slugs, f.manifest, clone.manifest}
  BY <1>2, <1>4, <1>5 DEF CacheRecord
<1>7. ASSUME pull = None, f.epoch = cache.epoch
      PROVE  Firm /\ f = cache
  BY <1>2, <1>7 DEF IndInv, TypeOK, Whole, Firm, Settled
<1>8. ASSUME pull = None
      PROVE  Current'
  <2>1. CASE f.epoch = cache.epoch
    <3>1. Current /\ f = cache
      BY <1>7, <1>8, <2>1 DEF IndInv, Cached
    <3>2. QED
      BY <1>6, <3>1 DEF Current
  <2>2. CASE f.epoch # cache.epoch
    BY <1>2, <1>6, <2>2, BodiesFit DEF Current
  <2>3. QED
    BY <2>1, <2>2
<1>9. QED
  BY <1>2, <1>6, <1>7, <1>8

-----------------------------------------------------------------------------
(* The steps of a call.                                                     *)

\* What is known of every call.
LEMMA CallFits ==
  ASSUME IndInv, NEW t \in Thread
  PROVE  LET k == thread[t]
         IN  /\ k \in CallRecord /\ Goes(k) /\ Holds(k) /\ k.epoch <= cache.epoch
             /\ k.epoch \in Nat /\ cache.epoch \in Nat /\ pulls \in Nat /\ 0 \in Text
             /\ Past(k) => Firm /\ Current /\ Brings(k)
             /\ Firm => Current /\ Brings(k)
  BY ReaderAssumption DEF IndInv, TypeOK, Calls, Cached, CallRecord, CacheRecord, Text, Firm

\* The latest stamp is a number, and a clone at rest has one.
LEMMA StampFits ==
  ASSUME IndInv
  PROVE  /\ Latest \in Nat /\ pulls \in Nat
         /\ pull = None => clone.stamp # 0
  BY ReaderAssumption DEF IndInv, TypeOK, Whole, Latest

\* A tool is called: get_law and search_body first look at the manifest's stamp.
LEMMA StartKeeps ==
  ASSUME IndInv, NEW t \in Thread, NEW kind \in Tool, NEW d \in Doc, Start(t, kind, d)
  PROVE  IndInv'
<1> DEFINE l == [Fresh(kind, d) EXCEPT !.pc = IF kind = "section" THEN "resolve" ELSE "stat",
                                       !.quiet = (pull = None)]
<1>1. Local(t, l) /\ UNCHANGED <<clone, pulls, pull, cache>>
  BY DEF Start
<1>2. Fresh(kind, d) \in CallRecord
  BY FreshFits DEF Kind
<1>3. /\ l \in CallRecord /\ l.pc = IF kind = "section" THEN "resolve" ELSE "stat"
      /\ l.kind = kind /\ l.doc = d /\ l.want = "slugs" /\ l.seen = 0 /\ l.epoch = 0 /\ l.index = None
      /\ l.body = 0 /\ l.quiet = (pull = None)
  BY <1>2 DEF Fresh, CallRecord, CallStep
<1> HIDE DEF l
<1>4. Goes(l)
  BY <1>3, StampFits DEF Goes, Tool
<1>5. Holds(l) /\ ~Past(l) /\ Brings(l)
  BY <1>3 DEF Holds, Past, Brings, Tool
<1>6. QED
  BY <1>1, <1>3, <1>4, <1>5, CallFits, LookKeeps

\* The stamp is read without the lock.
LEMMA StatKeeps ==
  ASSUME IndInv, NEW t \in Thread, Stat(t)
  PROVE  IndInv'
<1> DEFINE k == thread[t]
           l == [k EXCEPT !.pc = "refresh", !.seen = clone.stamp]
<1>1. Local(t, l) /\ UNCHANGED <<clone, pulls, pull, cache>> /\ k.pc = "stat"
  BY DEF Stat, Stands
<1>2. k \in CallRecord /\ Goes(k) /\ Holds(k) /\ k.epoch <= cache.epoch /\ (Past(k) => Firm)
  BY CallFits
<1>3. clone.stamp \in Nat /\ clone.stamp <= Latest
  BY DEF IndInv, TypeOK, Whole
<1>4. /\ l \in CallRecord /\ l.pc = "refresh" /\ l.kind = k.kind /\ l.doc = k.doc /\ l.want = k.want
      /\ l.seen = clone.stamp /\ l.epoch = k.epoch /\ l.index = k.index /\ l.slugs = k.slugs
      /\ l.docs = k.docs /\ l.body = k.body /\ l.quiet = k.quiet
  BY <1>2, <1>3 DEF CallRecord, CallStep
<1> HIDE DEF k, l
<1>5. Goes(l)
  BY <1>1, <1>2, <1>3, <1>4, GoesOn
<1>6. Holds(l)
  BY <1>1, <1>2, <1>4 DEF Holds
<1>7. Past(l) => Firm
  BY <1>1, <1>2, <1>4 DEF Past
<1>8. Brings(l)
  BY <1>4 DEF Brings
<1>9. QED
  BY <1>1, <1>2, <1>4, <1>5, <1>6, <1>7, <1>8, LookKeeps

\* _refresh_if_stale, with the stamp that was read before the lock.
LEMMA RefreshKeeps ==
  ASSUME IndInv, NEW t \in Thread, Refresh(t)
  PROVE  IndInv'
<1> DEFINE k == thread[t]
           new == [k EXCEPT !.pc = "check", !.seen = 0]
<1>1. Local(t, new) /\ UNCHANGED <<clone, pulls, pull>> /\ cache' = Refreshed(cache, k.seen) /\ k.pc = "refresh"
  BY DEF Refresh, Stands
<1>2. /\ k \in CallRecord /\ Goes(k) /\ Holds(k) /\ k.epoch <= cache.epoch /\ k.epoch \in Nat
      /\ cache.epoch \in Nat /\ (Firm => Current /\ Brings(k))
  BY CallFits
<1>3. k.seen \in Nat /\ k.seen <= Latest
  BY <1>2 DEF CallRecord, Goes
<1>4. /\ new \in CallRecord /\ new.pc = "check" /\ new.kind = k.kind /\ new.doc = k.doc
      /\ new.want = k.want /\ new.seen = 0 /\ new.epoch = k.epoch /\ new.index = k.index
      /\ new.slugs = k.slugs /\ new.docs = k.docs /\ new.body = k.body /\ new.quiet = k.quiet
  BY <1>2 DEF CallRecord, CallStep
<1> HIDE DEF new
<1>5. PICK l \in CallRecord :
         /\ Local(t, l) /\ l.pc = "check" /\ l.kind = k.kind /\ l.doc = k.doc
         /\ l.want = k.want /\ l.seen = 0 /\ l.epoch = k.epoch /\ l.index = k.index
         /\ l.slugs = k.slugs /\ l.docs = k.docs /\ l.body = k.body /\ l.quiet = k.quiet
  BY <1>1, <1>4
<1> HIDE DEF k
<1>6. Goes(l)
  <2>1. 0 <= Latest
    BY StampFits
  <2>2. QED
    BY <1>1, <1>2, <1>5, <2>1, GoesOn
<1>7. Holds(l)
  BY <1>2, <1>5, HoldsOn
<1>8. /\ cache' \in CacheRecord /\ cache'.stamp <= Latest /\ cache.epoch <= cache'.epoch
      /\ cache'.epoch = cache.epoch => cache' = cache /\ k.seen \in {0, cache.stamp}
      /\ cache'.epoch # cache.epoch =>
           /\ cache'.manifest = None /\ cache'.slugs = None /\ cache'.index = None
           /\ cache'.bodies = Empty /\ cache'.ids = Empty
  BY <1>1, <1>3, RefreshedFits
<1>9. l.epoch <= cache'.epoch
  BY <1>2, <1>5, <1>8 DEF CacheRecord
<1>10. ASSUME cache'.epoch = cache.epoch, Firm'
      PROVE  Firm
  <2>1. l.quiet => Firm
    <3>1. l.quiet => pull = None /\ k.seen = clone.stamp
      BY <1>1, <1>2, <1>5 DEF Holds
    <3>2. pull = None => clone.stamp # 0
      BY StampFits
    <3>3. QED
      BY <1>8, <1>10, <3>1, <3>2 DEF Firm, Settled
  <2>2. Past(l) => Firm
    BY <2>1 DEF Past
  <2>3. cache'.stamp = cache.stamp
    BY <1>8, <1>10
  <2>4. QED
    BY <1>1, <1>5, <1>10, <2>2, <2>3, FirmWas
<1>11. ASSUME Firm'
       PROVE  Current' /\ Brings(l)'
  <2>1. Brings(l)'
    BY <1>5 DEF Brings
  <2>2. CASE cache'.epoch = cache.epoch
    BY <1>1, <1>2, <1>8, <1>10, <1>11, <2>1, <2>2 DEF Current
  <2>3. CASE cache'.epoch # cache.epoch
    BY <1>8, <2>1, <2>3, BodiesFit DEF Current
  <2>4. QED
    BY <2>1, <2>2, <2>3
<1>12. cache' \in CacheRecord /\ cache'.stamp <= Latest /\ cache.epoch <= cache'.epoch
  BY <1>8
<1>13. QED
  BY <1>1, <1>5, <1>6, <1>7, <1>9, <1>10, <1>11, <1>12, StepKeeps

\* The index is looked at.
LEMMA CheckKeeps ==
  ASSUME IndInv, NEW t \in Thread, Check(t)
  PROVE  IndInv'
<1> DEFINE k == thread[t]
           l == [k EXCEPT !.pc = IF Wanted(t) # None THEN "take" ELSE "load"]
<1>1. Local(t, l) /\ UNCHANGED <<clone, pulls, pull, cache>> /\ k.pc = "check"
  BY DEF Check, Stands
<1>2. k \in CallRecord /\ Goes(k) /\ Holds(k) /\ k.epoch <= cache.epoch /\ (Past(k) => Firm)
  BY CallFits
<1>3. /\ l \in CallRecord /\ l.pc \in {"take", "load"} /\ l.kind = k.kind /\ l.doc = k.doc /\ l.want = k.want
      /\ l.seen = k.seen /\ l.epoch = k.epoch /\ l.index = k.index /\ l.slugs = k.slugs
      /\ l.docs = k.docs /\ l.body = k.body /\ l.quiet = k.quiet
  BY <1>2 DEF CallRecord, CallStep
<1> HIDE DEF k, l
<1>4. Goes(l)
  <2>1. k.seen <= Latest
    BY <1>2 DEF Goes
  <2>2. QED
    BY <1>1, <1>2, <1>3, <2>1, GoesOn
<1>5. Holds(l)
  BY <1>2, <1>3, HoldsOn
<1>6. (Past(l) => Firm) /\ Brings(l)
  BY <1>1, <1>2, <1>3 DEF Past, Brings
<1>7. QED
  BY <1>1, <1>2, <1>3, <1>4, <1>5, <1>6, LookKeeps

\* The index that was there is read again, to be returned.
LEMMA TakeKeeps ==
  ASSUME IndInv, NEW t \in Thread, Take(t)
  PROVE  IndInv'
<1> DEFINE k == thread[t]
<1>1. UNCHANGED <<clone, pulls, pull, cache>> /\ k.pc = "take" /\ Given(t, Wanted(t))
  BY DEF Take, Stands
<1>2. Wanted(t) \in Bodies \cup {None} /\ (k.want = "index" => Wanted(t) = cache.index)
  BY DEF IndInv, TypeOK, CacheRecord, Wanted
<1>3. k.quiet => Firm /\ Current
  BY <1>1, CallFits DEF Past
<1>4. PICK l \in CallRecord :
         /\ Local(t, l) /\ l.epoch <= cache.epoch /\ Goes(l) /\ Holds(l)
         /\ l.pc \notin {"remember", "keep"} /\ l.quiet = k.quiet
  <2>1. k.quiet /\ k.want = "index" /\ Wanted(t) # None => \A d \in DOMAIN Wanted(t) : Wanted(t)[d] = clone.page[d]
    BY <1>2, <1>3 DEF Current
  <2> HIDE DEF k
  <2>2. QED
    BY <1>1, <1>2, <2>1, GivenFits DEF k
<1>5. (Past(l) => Firm) /\ Brings(l)
  BY <1>3, <1>4 DEF Past, Brings
<1>6. QED
  BY <1>1, <1>4, <1>5, LookKeeps

\* The index is built under the lock, of the slugs that the call brought.
LEMMA LoadKeeps ==
  ASSUME IndInv, NEW t \in Thread, Load(t)
  PROVE  IndInv'
<1> DEFINE k == thread[t]
           v == CASE k.want = "index" -> cache'.index
                  [] k.want = "docs" -> cache'.manifest
                  [] OTHER -> cache'.slugs
           filled == [cache EXCEPT !.index = IndexOf(k.slugs)]
           listed == [cache EXCEPT !.manifest = clone.manifest]
<1>1. UNCHANGED <<clone, pulls, pull>> /\ k.pc = "load" /\ Given(t, v)
  BY DEF Load, Stands
<1>2. cache' = CASE k.want = "docs" -> IF cache.manifest = None /\ clone.stamp # 0 THEN listed ELSE cache
                 [] k.want = "index" -> IF cache.index = None THEN filled ELSE cache
                 [] OTHER -> IF cache.slugs # None THEN cache ELSE WithSlugs(cache)
  BY DEF Load
<1>3. cache.epoch \in Nat
  BY CallFits
<1>4. /\ k.want \in {"slugs", "index", "docs", "slugs again"}
      /\ k.quiet => Firm
      /\ Firm => Current
  BY <1>1, CallFits DEF Past, CallRecord, Want
<1>5. cache \in CacheRecord /\ cache.stamp <= Latest /\ clone.manifest \in Bodies
  BY DEF IndInv, TypeOK, Whole
<1> HIDE DEF k
<1>6. CASE k.want = "docs"
  <2>1. cache' \in {cache, listed}
    BY <1>2, <1>6
  <2>2. /\ listed \in CacheRecord /\ listed.stamp = cache.stamp /\ listed.epoch = cache.epoch
        /\ listed.manifest = clone.manifest /\ listed.slugs = cache.slugs /\ listed.index = cache.index
        /\ listed.bodies = cache.bodies /\ listed.ids = cache.ids
    BY <1>5 DEF CacheRecord
  <2> HIDE DEF listed
  <2>3. /\ cache' \in CacheRecord /\ cache'.stamp = cache.stamp /\ cache'.epoch = cache.epoch
        /\ Current => Current'
    BY <1>1, <1>5, <2>1, <2>2 DEF Current
  <2>4. v \in Bodies \cup {None}
    BY <1>6, <2>3 DEF CacheRecord
  <2> HIDE DEF v
  <2>5. PICK l \in CallRecord :
           /\ Local(t, l) /\ l.epoch <= cache.epoch /\ Goes(l) /\ Holds(l)
           /\ l.pc \notin {"remember", "keep"} /\ l.quiet = k.quiet
    BY <1>1, <1>6, <2>4, GivenFits DEF k
  <2>6. Past(l) => Firm
    BY <1>4, <2>5 DEF Past
  <2>7. Firm' => Firm
    BY <1>1, <2>3, <2>5, <2>6, FirmWas
  <2>8. Firm' => Current' /\ Brings(l)'
    BY <1>4, <2>3, <2>5, <2>7 DEF Brings
  <2>9. l.epoch <= cache'.epoch /\ cache.epoch <= cache'.epoch /\ cache'.stamp <= Latest
    BY <1>3, <1>5, <2>3, <2>5
  <2>10. QED
    BY <1>1, <2>3, <2>5, <2>7, <2>8, <2>9, StepKeeps
<1>7. CASE k.want = "index"
  <2>1. cache' = IF cache.index = None THEN filled ELSE cache
    BY <1>2, <1>7
  <2>2. IndexOf(k.slugs) \in Bodies /\ \A d \in DOMAIN IndexOf(k.slugs) : IndexOf(k.slugs)[d] = clone.page[d]
    <3>1. k.slugs \in Bodies
      BY <1>7, CallFits DEF k, Goes, CallRecord
    <3>2. clone.page \in [Doc -> Text] /\ DOMAIN k.slugs \subseteq Doc
      BY <3>1 DEF IndInv, TypeOK, Bodies
    <3>3. DOMAIN IndexOf(k.slugs) \subseteq Doc /\ IndexOf(k.slugs) \in [DOMAIN IndexOf(k.slugs) -> Text]
      BY <3>2 DEF IndexOf
    <3>4. \A d \in DOMAIN IndexOf(k.slugs) : IndexOf(k.slugs)[d] = clone.page[d]
      BY DEF IndexOf
    <3>5. QED
      BY <3>3, <3>4 DEF Bodies
  <2>3. /\ filled \in CacheRecord /\ filled.stamp = cache.stamp /\ filled.epoch = cache.epoch
        /\ filled.index = IndexOf(k.slugs) /\ filled.slugs = cache.slugs /\ filled.manifest = cache.manifest
        /\ filled.bodies = cache.bodies /\ filled.ids = cache.ids
    BY <1>5, <2>2 DEF CacheRecord
  <2> HIDE DEF filled
  <2>4. /\ cache' \in CacheRecord /\ cache'.stamp = cache.stamp /\ cache'.epoch = cache.epoch
        /\ Current => Current'
    BY <1>1, <1>5, <2>1, <2>2, <2>3 DEF Current
  <2>5. v = cache'.index /\ v \in Bodies \cup {None}
    BY <1>7, <2>4 DEF CacheRecord
  <2>6. k.quiet /\ v # None => \A d \in DOMAIN v : v[d] = clone.page[d]
    <3>1. CASE cache.index = None
      BY <2>1, <2>2, <2>3, <2>5, <3>1
    <3>2. CASE cache.index # None
      BY <1>4, <2>1, <2>5, <3>2 DEF Current
    <3>3. QED
      BY <3>1, <3>2
  <2> HIDE DEF v
  <2>7. PICK l \in CallRecord :
           /\ Local(t, l) /\ l.epoch <= cache.epoch /\ Goes(l) /\ Holds(l)
           /\ l.pc \notin {"remember", "keep"} /\ l.quiet = k.quiet
    BY <1>1, <2>5, <2>6, GivenFits DEF k
  <2>8. Past(l) => Firm
    BY <1>4, <2>7 DEF Past
  <2>9. Firm' => Firm
    BY <1>1, <2>4, <2>7, <2>8, FirmWas
  <2>10. Firm' => Current' /\ Brings(l)'
    BY <1>4, <2>4, <2>7, <2>9 DEF Brings
  <2>11. l.epoch <= cache'.epoch /\ cache.epoch <= cache'.epoch /\ cache'.stamp <= Latest
    BY <1>3, <1>5, <2>4, <2>7
  <2>12. QED
    BY <1>1, <2>4, <2>7, <2>9, <2>10, <2>11, StepKeeps
<1>8. CASE k.want \in {"slugs", "slugs again"}
  <2>1. cache' = IF cache.slugs # None THEN cache ELSE WithSlugs(cache)
    BY <1>2, <1>8
  <2>2. /\ cache' \in CacheRecord /\ cache'.stamp <= Latest /\ cache.epoch <= cache'.epoch
        /\ cache.slugs = None =>
             /\ pull = None => Current'
             /\ pull = None /\ cache'.epoch = cache.epoch => Firm
    <3>1. CASE cache.slugs # None
      BY <1>3, <1>5, <2>1, <3>1
    <3>2. CASE cache.slugs = None
      BY <1>1, <2>1, <3>2, SlugsFit
    <3>3. QED
      BY <3>1, <3>2
  <2>3. v \in Bodies \cup {None}
    BY <1>8, <2>2 DEF CacheRecord
  <2> HIDE DEF v
  <2>4. PICK l \in CallRecord :
           /\ Local(t, l) /\ l.epoch <= cache.epoch /\ Goes(l) /\ Holds(l)
           /\ l.pc \notin {"remember", "keep"} /\ l.quiet = k.quiet
    BY <1>1, <1>8, <2>3, GivenFits DEF k
  <2>5. Past(l) => Firm
    BY <1>4, <2>4 DEF Past
  <2>6. Firm' => pull = None
    BY <1>1, <2>4, FirmRests
  <2>7. ASSUME cache.slugs # None, Firm' PROVE Firm /\ Current'
    <3>1. cache' = cache
      BY <2>1, <2>7
    <3>2. Firm
      BY <1>1, <2>4, <2>5, <2>7, <3>1, FirmWas
    <3>3. QED
      BY <1>1, <1>4, <3>1, <3>2 DEF Current
  <2>8. Firm' => Current' /\ Brings(l)'
    BY <2>2, <2>4, <2>6, <2>7 DEF Brings
  <2>9. Firm' /\ cache'.epoch = cache.epoch => Firm
    BY <2>2, <2>6, <2>7
  <2>10. l.epoch <= cache'.epoch
    <3>1. l.epoch \in Nat /\ l.epoch <= cache.epoch
      BY <2>4 DEF CallRecord
    <3>2. cache'.epoch \in Nat /\ cache.epoch <= cache'.epoch
      BY <2>2 DEF CacheRecord
    <3>3. QED
      BY <1>3, <3>1, <3>2
  <2>11. QED
    BY <1>1, <2>2, <2>4, <2>8, <2>9, <2>10, StepKeeps
<1>9. QED
  BY <1>4, <1>6, <1>7, <1>8

\* A call that ends, and leaves the caches as they are.
LEMMA EndKeeps ==
  ASSUME IndInv, NEW t \in Thread, thread[t].doc \in Doc, NEW r \in Text \cup {None, Unknown, Failed},
         thread[t].quiet => r \in {0, Unknown, Failed, clone.page[thread[t].doc]},
         Done(t, r), UNCHANGED <<clone, pulls, pull, cache>>
  PROVE  IndInv'
<1> DEFINE l == Ended(t, r)
<1>1. /\ l \in CallRecord /\ l.epoch = 0
      /\ Goes(l) /\ Holds(l) /\ ~Past(l) /\ Brings(l)
  BY EndFits
<1>2. Local(t, l)
  BY DEF Done, Ended
<1>3. l.epoch <= cache.epoch
  BY <1>1, CallFits
<1> HIDE DEF l
<1>4. QED
  BY <1>1, <1>2, <1>3, LookKeeps

\* get_law reads the page, which must be there.
LEMMA ReadLawKeeps ==
  ASSUME IndInv, NEW t \in Thread, ReadLaw(t)
  PROVE  IndInv'
<1> DEFINE text == clone.page[thread[t].doc]
<1>1. thread[t].doc \in Doc
  BY CallFits DEF ReadLaw, Stands, Goes
<1>2. text \in Text
  BY <1>1 DEF IndInv, TypeOK
<1>3. Done(t, IF text = 0 THEN Failed ELSE text) /\ UNCHANGED <<clone, pulls, pull, cache>>
  BY DEF ReadLaw
<1>4. QED
  BY <1>1, <1>2, <1>3, EndKeeps

\* The sections that are remembered of an act.
LEMMA LookIdsKeeps ==
  ASSUME IndInv, NEW t \in Thread, LookIds(t)
  PROVE  IndInv'
<1> DEFINE k == thread[t]
           l == [k EXCEPT !.pc = "resolve"]
<1>1. k.pc = "look" /\ UNCHANGED <<clone, pulls, pull, cache>>
  BY DEF LookIds, Stands
<1>2. k \in CallRecord /\ Goes(k) /\ Holds(k) /\ k.epoch <= cache.epoch /\ k.doc \in Doc
  BY <1>1, CallFits DEF Goes
<1>3. k.quiet => Firm /\ Current
  BY <1>1, CallFits DEF Past
<1>4. CASE k.doc \in DOMAIN cache.ids
  <2>1. cache.ids[k.doc] \in Text
    BY <1>4 DEF IndInv, TypeOK, CacheRecord, Bodies
  <2>2. k.quiet => cache.ids[k.doc] \in {0, clone.page[k.doc]}
    BY <1>3, <1>4 DEF Current
  <2>3. Done(t, cache.ids[k.doc])
    BY <1>4 DEF LookIds
  <2> HIDE DEF k
  <2>4. QED
    BY <1>1, <1>2, <2>1, <2>2, <2>3, EndKeeps DEF k
<1>5. CASE k.doc \notin DOMAIN cache.ids
  <2>1. Local(t, l)
    BY <1>5 DEF LookIds
  <2>2. /\ l \in CallRecord /\ l.pc = "resolve" /\ l.kind = k.kind /\ l.doc = k.doc /\ l.want = k.want
        /\ l.seen = k.seen /\ l.epoch = k.epoch /\ l.index = k.index /\ l.slugs = k.slugs
        /\ l.docs = k.docs /\ l.body = k.body /\ l.quiet = k.quiet
    BY <1>2 DEF CallRecord, CallStep
  <2> HIDE DEF k, l
  <2>3. Goes(l)
    <3>1. k.seen <= Latest
      BY <1>2 DEF Goes
    <3>2. QED
      BY <1>1, <1>2, <2>2, <3>1, GoesOn
  <2>4. Holds(l)
    BY <1>2, <2>2, HoldsOn
  <2>5. (Past(l) => Firm) /\ Brings(l)
    BY <1>3, <2>2 DEF Past, Brings
  <2>6. QED
    BY <1>1, <1>2, <2>1, <2>2, <2>3, <2>4, <2>5, LookKeeps
<1>6. QED
  BY <1>4, <1>5

\* The body that is remembered of a page, or the index that holds it.
LEMMA LookBodyKeeps ==
  ASSUME IndInv, NEW t \in Thread, LookBody(t)
  PROVE  IndInv'
<1> DEFINE k == thread[t]
<1>1. k.pc = "body" /\ UNCHANGED <<clone, pulls, pull, cache>>
  BY DEF LookBody, Stands
<1>2. k \in CallRecord /\ Goes(k) /\ Holds(k) /\ k.epoch <= cache.epoch /\ k.doc \in Doc
  BY <1>1, CallFits DEF Goes
<1>3. (k.quiet => Firm /\ Current) /\ (Firm => Current) /\ (Past(k) => Firm)
  BY <1>1, CallFits DEF Past
<1>4. 0 \in Text /\ (cache.index # None => cache.index \in Bodies) /\ cache.bodies \in Bodies
  BY CallFits DEF IndInv, TypeOK, CacheRecord
<1>5. ASSUME NEW text \in Text, Local(t, [k EXCEPT !.pc = "keep", !.body = text]),
             Current => text \in {0, clone.page[k.doc]}
      PROVE  IndInv'
  <2> DEFINE l == [k EXCEPT !.pc = "keep", !.body = text]
  <2>1. Local(t, l)
    BY <1>5
  <2>2. /\ l \in CallRecord /\ l.pc = "keep" /\ l.kind = k.kind /\ l.doc = k.doc /\ l.want = k.want
        /\ l.seen = k.seen /\ l.epoch = k.epoch /\ l.index = k.index /\ l.slugs = k.slugs
        /\ l.docs = k.docs /\ l.body = text /\ l.quiet = k.quiet
    BY <1>2 DEF CallRecord, CallStep
  <2> HIDE DEF k, l
  <2>3. Goes(l)
    BY <1>1, <1>2, <2>2 DEF Goes
  <2>4. Holds(l)
    BY <1>2, <1>3, <1>5, <2>2 DEF Holds
  <2>5. (Past(l) => Firm) /\ (Firm => Brings(l))
    BY <1>3, <1>5, <2>2 DEF Past, Brings
  <2>6. QED
    BY <1>1, <1>2, <2>1, <2>2, <2>3, <2>4, <2>5, LookKeeps
<1>6. CASE cache.index # None
  <2>1. Local(t, [k EXCEPT !.pc = "keep", !.body = Entry(cache.index, k.doc)])
    BY <1>6 DEF LookBody
  <2>2. Entry(cache.index, k.doc) \in Text
    BY <1>4, <1>6 DEF Entry, Bodies
  <2>3. Current => Entry(cache.index, k.doc) \in {0, clone.page[k.doc]}
    BY <1>6 DEF Current, Entry
  <2>4. QED
    BY <1>5, <2>1, <2>2, <2>3
<1>7. CASE cache.index = None /\ k.doc \in DOMAIN cache.bodies
  <2>1. Local(t, [k EXCEPT !.pc = "keep", !.body = cache.bodies[k.doc]])
    BY <1>7 DEF LookBody
  <2>2. cache.bodies[k.doc] \in Text
    BY <1>4, <1>7 DEF Bodies
  <2>3. Current => cache.bodies[k.doc] \in {0, clone.page[k.doc]}
    BY <1>7 DEF Current
  <2>4. QED
    BY <1>5, <2>1, <2>2, <2>3
<1>8. CASE cache.index = None /\ k.doc \notin DOMAIN cache.bodies
  <2> DEFINE l == [k EXCEPT !.pc = "read"]
  <2>1. Local(t, l)
    BY <1>8 DEF LookBody
  <2>2. /\ l \in CallRecord /\ l.pc = "read" /\ l.kind = k.kind /\ l.doc = k.doc /\ l.want = k.want
        /\ l.seen = k.seen /\ l.epoch = k.epoch /\ l.index = k.index /\ l.slugs = k.slugs
        /\ l.docs = k.docs /\ l.body = k.body /\ l.quiet = k.quiet
    BY <1>2 DEF CallRecord, CallStep
  <2> HIDE DEF k, l
  <2>3. Goes(l)
    <3>1. k.seen <= Latest
      BY <1>2 DEF Goes
    <3>2. QED
      BY <1>1, <1>2, <2>2, <3>1, GoesOn
  <2>4. Holds(l)
    BY <1>2, <2>2, HoldsOn
  <2>5. (Past(l) => Firm) /\ Brings(l)
    BY <1>3, <2>2 DEF Past, Brings
  <2>6. QED
    BY <1>1, <1>2, <2>1, <2>2, <2>3, <2>4, <2>5, LookKeeps
<1>9. QED
  BY <1>6, <1>7, <1>8

\* The page is read without the lock.
LEMMA ReadPageKeeps ==
  ASSUME IndInv, NEW t \in Thread, ReadPage(t)
  PROVE  IndInv'
<1> DEFINE k == thread[t]
           l == [k EXCEPT !.pc = "remember", !.body = clone.page[k.doc]]
<1>1. k.pc = "read" /\ Local(t, l) /\ UNCHANGED <<clone, pulls, pull, cache>>
  BY DEF ReadPage, Stands
<1>2. k \in CallRecord /\ Goes(k) /\ Holds(k) /\ k.epoch <= cache.epoch /\ k.doc \in Doc
  BY <1>1, CallFits DEF Goes
<1>3. k.quiet => Firm
  BY <1>1, CallFits DEF Past
<1>4. clone.page[k.doc] \in Text
  BY <1>2 DEF IndInv, TypeOK
<1>5. /\ l \in CallRecord /\ l.pc = "remember" /\ l.kind = k.kind /\ l.doc = k.doc /\ l.want = k.want
      /\ l.seen = k.seen /\ l.epoch = k.epoch /\ l.index = k.index /\ l.slugs = k.slugs
      /\ l.docs = k.docs /\ l.body = clone.page[k.doc] /\ l.quiet = k.quiet
  BY <1>2, <1>4 DEF CallRecord, CallStep
<1> HIDE DEF k, l
<1>6. Goes(l)
  BY <1>1, <1>2, <1>5 DEF Goes
<1>7. Holds(l)
  BY <1>2, <1>5 DEF Holds
<1>8. (Past(l) => Firm) /\ Brings(l)
  BY <1>3, <1>5 DEF Past, Brings
<1>9. QED
  BY <1>1, <1>2, <1>5, <1>6, <1>7, <1>8, LookKeeps

\* The record and its epoch are read together, under the lock.
LEMMA ResolveKeeps ==
  ASSUME IndInv, NEW t \in Thread, Resolve(t)
  PROVE  IndInv'
<1> DEFINE k == thread[t]
<1>1. k.pc = "resolve" /\ UNCHANGED <<clone, pulls, pull>> /\ cache' = WithSlugs(cache)
  BY DEF Resolve, Stands
<1>2. k \in CallRecord /\ Goes(k) /\ Holds(k) /\ k.doc \in Doc /\ k.body = 0
  BY <1>1, CallFits DEF Goes
<1>3. /\ cache' \in CacheRecord /\ cache'.stamp <= Latest /\ cache.epoch <= cache'.epoch
      /\ pull = None => Current'
      /\ pull = None /\ cache'.epoch = cache.epoch => Firm
  BY <1>1, SlugsFit
<1>4. cache'.epoch \in Nat /\ 0 <= cache'.epoch
  BY <1>3 DEF CacheRecord
<1>5. ASSUME NEW l \in CallRecord, Local(t, l), Goes(l), Holds(l), l.epoch <= cache'.epoch,
             l.pc # "remember", l.body = 0
      PROVE  IndInv'
  <2>1. Firm' => pull = None
    BY <1>1, <1>5, FirmRests
  <2>2. Brings(l)'
    BY <1>5 DEF Brings
  <2>3. QED
    BY <1>1, <1>3, <1>5, <2>1, <2>2, StepKeeps
<1>6. ASSUME NEW r \in {Unknown, Failed}, Done(t, r)
      PROVE  IndInv'
  <2> DEFINE new == Ended(t, r)
  <2>1. /\ new \in CallRecord /\ new.epoch = 0 /\ new.pc = "done"
        /\ Goes(new) /\ Holds(new)
    BY <1>2, EndFits
  <2>2. Local(t, new) /\ new.body = 0
    BY <1>6, <2>1 DEF Done, Ended, Goes
  <2> HIDE DEF new
  <2>3. PICK l \in CallRecord : l = new
    BY <2>1
  <2>4. QED
    BY <1>4, <1>5, <2>1, <2>2, <2>3
<1>7. ASSUME NEW pc \in {"body", "keep"}, Local(t, [k EXCEPT !.epoch = cache'.epoch, !.pc = pc])
      PROVE  IndInv'
  <2> DEFINE new == [k EXCEPT !.epoch = cache'.epoch, !.pc = pc]
  <2>1. /\ new \in CallRecord /\ new.pc = pc /\ new.kind = k.kind /\ new.doc = k.doc /\ new.want = k.want
        /\ new.seen = k.seen /\ new.index = k.index /\ new.slugs = k.slugs
        /\ new.docs = k.docs /\ new.body = k.body /\ new.quiet = k.quiet
    BY <1>2, <1>4 DEF CallRecord, CallStep
  <2>2. new.epoch = cache'.epoch /\ new.epoch <= cache'.epoch
    BY <1>2, <1>4 DEF CallRecord
  <2>3. Local(t, new)
    BY <1>7
  <2> HIDE DEF k, new
  <2>4. Goes(new)
    BY <1>1, <1>2, <2>1 DEF Goes
  <2>5. Holds(new)
    BY <1>2, <2>1 DEF Holds
  <2>6. PICK l \in CallRecord : l = new
    BY <2>1
  <2>7. QED
    BY <1>2, <1>5, <2>1, <2>2, <2>3, <2>4, <2>5, <2>6
<1>8. \/ \E r \in {Unknown, Failed} : Done(t, r)
      \/ \E pc \in {"body", "keep"} : Local(t, [k EXCEPT !.epoch = cache'.epoch, !.pc = pc])
  <2> DEFINE c == WithSlugs(cache)
  <2>1. IF c.slugs = None THEN Done(t, Failed)
        ELSE IF k.doc \in DOMAIN c.slugs THEN Local(t, [[k EXCEPT !.epoch = c.epoch] EXCEPT !.pc = "body"])
        ELSE IF k.kind = "reference" THEN Local(t, [[k EXCEPT !.epoch = c.epoch] EXCEPT !.pc = "keep"])
        ELSE Done(t, Unknown)
    BY DEF Resolve
  <2>2. c = cache'
    BY <1>1
  <2> HIDE DEF c
  <2>3. \A pc : [[k EXCEPT !.epoch = c.epoch] EXCEPT !.pc = pc] = [k EXCEPT !.epoch = cache'.epoch, !.pc = pc]
    BY <2>2
  <2>4. QED
    BY <2>1, <2>3
<1>9. QED
  BY <1>6, <1>7, <1>8

\* What was read is remembered unless the epoch has moved.
LEMMA SetDefaultFits ==
  ASSUME NEW f \in Bodies, NEW d \in Doc, NEW text \in Text
  PROVE  LET g == SetDefault(f, d, text)
         IN  /\ g \in Bodies
             /\ \A e \in DOMAIN g : (g[e] = text /\ e = d) \/ (e \in DOMAIN f /\ g[e] = f[e])
<1> DEFINE g == SetDefault(f, d, text)
<1>1. DOMAIN f \subseteq Doc /\ f \in [DOMAIN f -> Text]
  BY DEF Bodies
<1>2. g = [e \in DOMAIN f \cup {d} |-> IF e \in DOMAIN f THEN f[e] ELSE text]
  BY DEF SetDefault
<1> HIDE DEF g
<1>3. g \in [DOMAIN f \cup {d} -> Text]
  BY <1>1, <1>2
<1>4. g \in Bodies
  BY <1>1, <1>3 DEF Bodies
<1>5. ASSUME NEW e \in DOMAIN g
      PROVE  (g[e] = text /\ e = d) \/ (e \in DOMAIN f /\ g[e] = f[e])
  <2>1. DOMAIN g = DOMAIN f \cup {d}
    BY <1>2
  <2>2. g[e] = IF e \in DOMAIN f THEN f[e] ELSE text
    BY <1>2, <2>1
  <2>3. QED
    BY <2>1, <2>2
<1>6. QED
  BY <1>4, <1>5 DEF g

\* _body_for_record, once the page is read.
LEMMA RememberBodyKeeps ==
  ASSUME IndInv, NEW t \in Thread, RememberBody(t)
  PROVE  IndInv'
<1> DEFINE k == thread[t]
           new == [k EXCEPT !.pc = "keep"]
           kept == SetDefault(cache.bodies, k.doc, k.body)
<1>1. k.pc = "remember" /\ Local(t, new) /\ UNCHANGED <<clone, pulls, pull>>
  BY DEF RememberBody, Stands
<1>2. cache' = IF k.epoch # cache.epoch THEN cache ELSE [cache EXCEPT !.bodies = kept]
  BY DEF RememberBody
<1>3. k \in CallRecord /\ Goes(k) /\ Holds(k) /\ k.doc \in Doc /\ k.body \in Text
  BY <1>1, CallFits DEF Goes, CallRecord
<1>4. (Past(k) => Firm) /\ (Firm => Current /\ Brings(k))
  BY CallFits
<1>5. cache \in CacheRecord /\ cache.bodies \in Bodies /\ cache.stamp <= Latest
  BY DEF IndInv, TypeOK, Whole, CacheRecord
<1>6. /\ kept \in Bodies
      /\ \A e \in DOMAIN kept :
            (kept[e] = k.body /\ e = k.doc) \/ (e \in DOMAIN cache.bodies /\ kept[e] = cache.bodies[e])
  BY <1>3, <1>5, SetDefaultFits
<1>7. /\ new \in CallRecord /\ new.pc = "keep" /\ new.kind = k.kind /\ new.doc = k.doc /\ new.want = k.want
      /\ new.seen = k.seen /\ new.epoch = k.epoch /\ new.index = k.index /\ new.slugs = k.slugs
      /\ new.docs = k.docs /\ new.body = k.body /\ new.quiet = k.quiet
  BY <1>3 DEF CallRecord, CallStep
<1>8. k.epoch <= cache.epoch /\ cache.epoch \in Nat
  BY CallFits
<1> HIDE DEF k, new, kept
<1>9. PICK l \in CallRecord :
         /\ Local(t, l) /\ l.pc = "keep" /\ l.kind = k.kind /\ l.doc = k.doc /\ l.want = k.want
         /\ l.seen = k.seen /\ l.epoch = k.epoch /\ l.index = k.index /\ l.slugs = k.slugs
         /\ l.docs = k.docs /\ l.body = k.body /\ l.quiet = k.quiet
  BY <1>1, <1>7
<1>10. Goes(l)
  BY <1>1, <1>3, <1>9 DEF Goes
<1>11. Holds(l)
  BY <1>1, <1>3, <1>9 DEF Holds
<1>12. /\ cache' \in CacheRecord /\ cache'.stamp = cache.stamp /\ cache'.epoch = cache.epoch
       /\ cache'.manifest = cache.manifest /\ cache'.slugs = cache.slugs /\ cache'.index = cache.index
       /\ cache'.ids = cache.ids
       /\ cache'.bodies = IF k.epoch # cache.epoch THEN cache.bodies ELSE kept
  BY <1>2, <1>5, <1>6 DEF CacheRecord
<1>13. Firm' => Firm
  <2>1. Past(l) => Firm
    BY <1>1, <1>4, <1>9 DEF Past
  <2>2. QED
    BY <1>1, <1>9, <1>12, <2>1, FirmWas
<1>14. ASSUME Firm
       PROVE  Current' /\ Brings(l)'
  <2>1. k.epoch = cache.epoch => k.body = clone.page[k.doc]
    BY <1>1, <1>4, <1>14 DEF Brings
  <2>2. \A d \in DOMAIN cache'.bodies : cache'.bodies[d] = clone.page[d]
    BY <1>4, <1>6, <1>12, <1>14, <2>1 DEF Current
  <2>3. Current'
    BY <1>1, <1>4, <1>12, <1>14, <2>2 DEF Current
  <2>4. Brings(l)'
    BY <1>1, <1>9, <1>12, <2>1 DEF Brings
  <2>5. QED
    BY <2>3, <2>4
<1>15. l.epoch <= cache'.epoch /\ cache.epoch <= cache'.epoch /\ cache'.stamp <= Latest
  BY <1>5, <1>8, <1>9, <1>12
<1>16. QED
  BY <1>1, <1>9, <1>10, <1>11, <1>12, <1>13, <1>14, <1>15, StepKeeps

\* _remember_section_ids, and the answer, or the check of a reference that the section makes.
LEMMA RememberIdsKeeps ==
  ASSUME IndInv, NEW t \in Thread, RememberIds(t)
  PROVE  IndInv'
<1> DEFINE k == thread[t]
           ids == SetDefault(cache.ids, k.doc, k.body)
           again(d) == [Fresh("reference", d) EXCEPT !.pc = "stat", !.quiet = k.quiet]
<1>1. k.pc = "keep" /\ UNCHANGED <<clone, pulls, pull>>
  BY DEF RememberIds, Stands
<1>2. cache' = IF k.epoch # cache.epoch THEN cache ELSE [cache EXCEPT !.ids = ids]
  BY DEF RememberIds
<1>3. k \in CallRecord /\ Goes(k) /\ Holds(k) /\ k.doc \in Doc /\ k.body \in Text
  BY <1>1, CallFits DEF Goes, CallRecord
<1>4. (k.quiet => Firm) /\ (Firm => Current /\ Brings(k))
  BY <1>1, CallFits DEF Past
<1>5. cache \in CacheRecord /\ cache.ids \in Bodies /\ cache.stamp <= Latest
  BY DEF IndInv, TypeOK, Whole, CacheRecord
<1>6. /\ ids \in Bodies
      /\ \A e \in DOMAIN ids :
            (ids[e] = k.body /\ e = k.doc) \/ (e \in DOMAIN cache.ids /\ ids[e] = cache.ids[e])
  BY <1>3, <1>5, SetDefaultFits
<1>7. cache.epoch \in Nat /\ 0 <= cache.epoch
  BY CallFits
<1>8. PICK l \in CallRecord :
         /\ Local(t, l) /\ l.epoch = 0 /\ l.pc \in {"done", "stat"} /\ l.quiet = k.quiet
         /\ Goes(l) /\ Holds(l)
  <2>1. CASE Done(t, k.body)
    <3> DEFINE new == Ended(t, k.body)
    <3>1. k.quiet => k.body \in {0, Unknown, Failed, clone.page[k.doc]}
      BY <1>1, <1>3 DEF Holds
    <3>2. /\ new \in CallRecord /\ new.epoch = 0 /\ new.pc = "done" /\ new.quiet = k.quiet
          /\ Goes(new) /\ Holds(new)
      BY <1>3, <3>1, EndFits
    <3>3. Local(t, new)
      BY <2>1 DEF Done, Ended
    <3> HIDE DEF k, new
    <3>4. QED
      BY <3>2, <3>3
  <2>2. ASSUME NEW d \in Doc, Local(t, again(d))
        PROVE  \E l \in CallRecord :
                  /\ Local(t, l) /\ l.epoch = 0 /\ l.pc \in {"done", "stat"} /\ l.quiet = k.quiet
                  /\ Goes(l) /\ Holds(l)
    <3> DEFINE new == again(d)
    <3>1. Fresh("reference", d) \in CallRecord /\ k.quiet \in BOOLEAN
      BY <1>3, FreshFits DEF Kind, CallRecord
    <3>2. /\ new \in CallRecord /\ new.pc = "stat" /\ new.kind = "reference" /\ new.doc = d
          /\ new.want = "slugs" /\ new.seen = 0 /\ new.epoch = 0 /\ new.index = None /\ new.body = 0
          /\ new.quiet = k.quiet
      BY <3>1 DEF Fresh, CallRecord, CallStep
    <3>3. Local(t, new)
      BY <2>2
    <3> HIDE DEF k, new
    <3>4. Goes(new)
      BY <3>2, StampFits DEF Goes
    <3>5. Holds(new)
      BY <1>3, <3>2 DEF Holds
    <3>6. QED
      BY <3>2, <3>3, <3>4, <3>5
  <2>3. Done(t, k.body) \/ \E d \in Doc : Local(t, again(d))
    BY DEF RememberIds
  <2> HIDE DEF again
  <2>4. QED
    BY <2>1, <2>2, <2>3
<1> HIDE DEF k, ids
<1>9. /\ cache' \in CacheRecord /\ cache'.stamp = cache.stamp /\ cache'.epoch = cache.epoch
      /\ cache'.manifest = cache.manifest /\ cache'.slugs = cache.slugs /\ cache'.index = cache.index
      /\ cache'.bodies = cache.bodies
      /\ cache'.ids = IF k.epoch # cache.epoch THEN cache.ids ELSE ids
  BY <1>2, <1>5, <1>6 DEF CacheRecord
<1>10. Firm' => Firm
  <2>1. Past(l) => Firm
    BY <1>4, <1>8 DEF Past
  <2>2. QED
    BY <1>1, <1>8, <1>9, <2>1, FirmWas
<1>11. ASSUME Firm
       PROVE  Current' /\ Brings(l)'
  <2>1. k.epoch = cache.epoch => k.body \in {0, clone.page[k.doc]}
    BY <1>1, <1>4, <1>11 DEF Brings
  <2>2. \A d \in DOMAIN cache'.ids : cache'.ids[d] \in {0, clone.page[d]}
    BY <1>4, <1>6, <1>9, <1>11, <2>1 DEF Current
  <2>3. Current'
    BY <1>1, <1>4, <1>9, <1>11, <2>2 DEF Current
  <2>4. Brings(l)'
    BY <1>8 DEF Brings
  <2>5. QED
    BY <2>3, <2>4
<1>12. l.epoch <= cache'.epoch /\ cache.epoch <= cache'.epoch /\ cache'.stamp <= Latest
  BY <1>5, <1>7, <1>8, <1>9
<1>13. QED
  BY <1>1, <1>8, <1>9, <1>10, <1>11, <1>12, StepKeeps

-----------------------------------------------------------------------------
(* The steps of a pull.                                                     *)

\* A pull under way: no call is undisturbed, and the caches bear an older stamp.
LEMMA PullUnder ==
  ASSUME IndInv, pull # None
  PROVE  \A t \in Thread : thread[t].quiet = FALSE
  BY DEF IndInv, TypeOK, CallRecord, Calls, Holds

\* A pull begins: what it brings is a manifest of old and new texts.
LEMMA PullBeginKeeps ==
  ASSUME IndInv, PullBegin
  PROVE  IndInv'
<1> USE DEF IndInv
<1>1. pull = None /\ pulls \in Nat /\ pulls + 1 <= MaxPulls /\ pulls' = pulls + 1 /\ UNCHANGED <<clone, cache>>
  BY ReaderAssumption DEF PullBegin, TypeOK
<1>2. pull' \in Bodies
  <2>1. PICK D \in SUBSET Doc : \E next \in [D -> {pulls + 2} \cup {Entry(clone.manifest, d) : d \in D}] : pull' = next
    BY DEF PullBegin
  <2>2. \A d \in D : Entry(clone.manifest, d) \in Text
    <3>1. clone.manifest \in [DOMAIN clone.manifest -> Text] /\ 0 \in Text
      BY ReaderAssumption DEF TypeOK, Bodies, Text
    <3>2. QED
      BY <3>1 DEF Entry
  <2>3. pulls + 2 \in Text
    BY <1>1, ReaderAssumption DEF Text
  <2>4. pull' \in [D -> Text]
    BY <2>1, <2>2, <2>3
  <2>5. QED
    BY <2>4 DEF Bodies
<1>3. pull' # None /\ Latest' = Latest
  BY <1>1, <1>2, NothingAssumption DEF Latest
<1>4. thread' = [t \in Thread |-> [thread[t] EXCEPT !.quiet = FALSE]]
  BY DEF PullBegin
<1>5. ASSUME NEW t \in Thread
      PROVE  thread'[t] \in CallRecord /\ thread'[t].quiet = FALSE /\ thread'[t].epoch = thread[t].epoch
  <2>1. thread[t] \in CallRecord /\ thread'[t] = [thread[t] EXCEPT !.quiet = FALSE]
    BY <1>4 DEF TypeOK
  <2>2. QED
    BY <2>1 DEF CallRecord
<1>6. TypeOK'
  <2>1. thread' \in [Thread -> CallRecord]
    BY <1>4, <1>5
  <2>2. pulls' \in 0..MaxPulls
    BY <1>1, ReaderAssumption
  <2>3. QED
    BY <1>1, <1>2, <2>1, <2>2 DEF TypeOK
<1>7. Whole'
  BY <1>1, <1>3 DEF Whole
<1>8. ASSUME NEW t \in Thread
      PROVE  Goes(thread[t])'
  <2> DEFINE k == thread[t]
             l == [k EXCEPT !.quiet = FALSE]
  <2>1. thread'[t] = l /\ k \in CallRecord /\ Goes(k)
    BY <1>4 DEF TypeOK, Calls
  <2>2. /\ l.pc = k.pc /\ l.kind = k.kind /\ l.doc = k.doc /\ l.want = k.want
        /\ l.seen = k.seen /\ l.index = k.index /\ l.slugs = k.slugs /\ l.docs = k.docs /\ l.body = k.body
    BY <2>1 DEF CallRecord
  <2> HIDE DEF k, l
  <2>3. QED
    BY <1>3, <2>1, <2>2 DEF Goes
<1>9. Calls'
  BY <1>1, <1>5, <1>8 DEF Calls, Holds
<1>10. ~Firm'
  BY <1>3, <1>5 DEF Firm, Settled, Past
<1>11. QED
  BY <1>6, <1>9, <1>10, <1>7 DEF Cached

\* What a pull does to the clone disturbs no call that it does not overlap, and there is none.
LEMMA PullKeeps ==
  ASSUME IndInv, pull # None, UNCHANGED <<pulls, cache, thread>>,
         clone' \in [page : [Doc -> Text], manifest : Bodies, stamp : Nat],
         pull' \in Bodies \cup {None}, clone'.stamp <= Latest', Latest <= Latest',
         pull' = None =>
            /\ clone'.stamp = pulls + 1 /\ cache.stamp # clone'.stamp
            /\ \A d \in Doc : clone'.page[d] = Entry(clone'.manifest, d)
  PROVE  IndInv'
<1> USE DEF IndInv
<1>1. Latest \in Nat /\ Latest' \in Nat
  BY StampFits DEF Latest, TypeOK
<1>2. TypeOK' /\ Whole'
  <2>1. cache.stamp \in Nat /\ cache.stamp <= Latest
    BY DEF TypeOK, CacheRecord, Whole
  <2>2. QED
    BY <1>1, <2>1 DEF TypeOK, Whole
<1>3. ASSUME NEW t \in Thread
      PROVE  (Goes(thread[t]) /\ Holds(thread[t]) /\ thread[t].epoch <= cache.epoch)' /\ ~Past(thread[t])'
  <2>1. thread[t].quiet = FALSE
    BY PullUnder
  <2>2. thread[t].seen \in Nat /\ thread[t].seen <= Latest
    BY DEF TypeOK, CallRecord, Calls, Goes
  <2>3. thread[t].seen <= Latest'
    BY <1>1, <2>2
  <2>4. Goes(thread[t])'
    BY <2>3 DEF Calls, Goes
  <2>5. QED
    BY <2>1, <2>4 DEF Calls, Holds, Past
<1>4. ~Firm'
  BY <1>3 DEF Firm, Settled
<1>5. QED
  BY <1>2, <1>3, <1>4 DEF Calls, Cached

\* Pages are unlinked and written, and then the manifest.
LEMMA PullStepsKeep ==
  ASSUME IndInv, PullManifest \/ \E d \in Doc : PullUnlink(d) \/ PullWrite(d)
  PROVE  IndInv'
<1>1. /\ clone \in [page : [Doc -> Text], manifest : Bodies, stamp : Nat] /\ clone.stamp <= Latest
      /\ pull \in Bodies \cup {None} /\ pulls \in Nat /\ Latest \in Nat /\ 0 \in Text
  BY StampFits, ReaderAssumption DEF IndInv, TypeOK, Whole, Text
<1>2. ASSUME NEW d \in Doc, NEW text \in Text, pull # None, clone' = [clone EXCEPT !.page[d] = text],
             UNCHANGED <<pulls, pull, cache, thread>>
      PROVE  IndInv'
  <2>1. /\ clone' \in [page : [Doc -> Text], manifest : Bodies, stamp : Nat]
        /\ clone'.stamp = clone.stamp
    BY <1>1, <1>2
  <2>2. Latest' = Latest
    BY <1>2 DEF Latest
  <2>3. QED
    BY <1>1, <1>2, <2>1, <2>2, PullKeeps
<1>3. ASSUME NEW d \in Doc, PullUnlink(d)
      PROVE  IndInv'
  BY <1>1, <1>2, <1>3 DEF PullUnlink
<1>4. ASSUME NEW d \in Doc, PullWrite(d)
      PROVE  IndInv'
  <2>1. pull # None /\ pull[d] \in Text
    BY <1>1, <1>4 DEF PullWrite, Entry, Bodies
  <2>2. QED
    BY <1>2, <1>4, <2>1 DEF PullWrite
<1>5. ASSUME PullManifest
      PROVE  IndInv'
  <2>1. /\ pull # None /\ \A d \in Doc : clone.page[d] = Entry(pull, d)
        /\ UNCHANGED <<pulls, cache, thread>>
    BY <1>5 DEF PullManifest
  <2>2. CASE clone.stamp # 0
    <3>1. clone' = [clone EXCEPT !.stamp = 0] /\ pull' = pull
      BY <1>5, <2>2 DEF PullManifest
    <3>2. /\ clone' \in [page : [Doc -> Text], manifest : Bodies, stamp : Nat]
          /\ clone'.stamp = 0
      BY <1>1, <3>1
    <3>3. Latest' = Latest
      BY <2>1, <3>1 DEF Latest
    <3>4. QED
      BY <1>1, <2>1, <3>1, <3>2, <3>3, PullKeeps
  <2>3. CASE clone.stamp = 0
    <3>1. clone' = [clone EXCEPT !.stamp = pulls + 1, !.manifest = pull] /\ pull' = None
      BY <1>5, <2>3 DEF PullManifest
    <3>2. /\ clone' \in [page : [Doc -> Text], manifest : Bodies, stamp : Nat]
          /\ clone'.stamp = pulls + 1 /\ clone'.page = clone.page /\ clone'.manifest = pull
      <4>1. pull \in Bodies /\ pulls + 1 \in Nat
        BY <1>1, <2>1
      <4>2. clone \in [page : [Doc -> Text], manifest : Bodies, stamp : Nat]
        BY <1>1
      <4>3. QED
        BY <3>1, <4>1, <4>2
    <3>3. Latest' = pulls + 1 /\ Latest = pulls
      BY <2>1, <3>1 DEF Latest
    <3>4. cache.stamp # clone'.stamp
      <4>1. cache.stamp \in Nat /\ cache.stamp <= pulls
        BY <3>3 DEF IndInv, TypeOK, CacheRecord, Whole
      <4>2. QED
        BY <1>1, <3>2, <4>1
    <3>5. QED
      BY <1>1, <2>1, <3>1, <3>2, <3>3, <3>4, PullKeeps
  <2>4. QED
    BY <2>2, <2>3
<1>6. QED
  BY <1>3, <1>4, <1>5

-----------------------------------------------------------------------------
(* The invariant, and what it says.                                         *)

\* The caches of a new server bear no stamp, and no call has been made.
LEMMA InitFits == ReaderInit => IndInv
<1> SUFFICES ASSUME ReaderInit PROVE IndInv
  OBVIOUS
<1>1. 0 \in Text /\ 1 \in Text /\ MaxPulls \in Nat
  BY ReaderAssumption DEF Text
<1>2. [d \in Listed |-> 1] \in Bodies
  BY <1>1, ReaderAssumption DEF Bodies
<1>3. Fresh("law", None) \in CallRecord
  BY FreshFits DEF Kind, Tool
<1>4. thread \in [Thread -> CallRecord] /\ \A t \in Thread : thread[t] = Fresh("law", None)
  BY <1>3 DEF ReaderInit
<1>5. TypeOK
  BY <1>1, <1>2, <1>4, BodiesFit DEF ReaderInit, TypeOK, CacheRecord
<1>6. Whole /\ Latest = 1
  BY <1>1, ReaderAssumption DEF ReaderInit, Whole, Latest, Entry
<1>7. \A t \in Thread :
         /\ thread[t].pc = "idle" /\ thread[t].want = "slugs" /\ thread[t].quiet = FALSE
         /\ thread[t].body = 0 /\ thread[t].seen = 0 /\ thread[t].epoch = 0
  BY <1>4 DEF Fresh
<1>8. Calls /\ ~Firm
  <2>1. cache.epoch = 0 /\ ~Settled
    BY DEF ReaderInit, Settled
  <2>2. ASSUME NEW t \in Thread
        PROVE  Goes(thread[t]) /\ Holds(thread[t]) /\ thread[t].epoch <= cache.epoch /\ ~Past(thread[t])
    <3> DEFINE k == thread[t]
    <3>1. k.pc = "idle" /\ k.want = "slugs" /\ k.body = 0 /\ k.seen <= Latest
      BY <1>6, <1>7
    <3> HIDE DEF k
    <3>2. Goes(k)
      BY <3>1 DEF Goes
    <3> USE DEF k
    <3>3. Holds(thread[t]) /\ ~Past(thread[t])
      BY <1>7 DEF Holds, Past
    <3>4. QED
      BY <1>7, <2>1, <3>2, <3>3
  <2>3. QED
    BY <2>1, <2>2 DEF Calls, Firm
<1>9. QED
  BY <1>5, <1>6, <1>8 DEF IndInv, Cached

LEMMA NextKeeps == IndInv /\ [ReaderNext]_readerVars => IndInv'
<1> SUFFICES ASSUME IndInv, [ReaderNext]_readerVars PROVE IndInv'
  OBVIOUS
<1>1. CASE Pull
  BY <1>1, PullBeginKeeps, PullStepsKeep DEF Pull
<1>2. ASSUME NEW t \in Thread, Call(t)
      PROVE  IndInv'
  BY <1>2, StartKeeps, StatKeeps, RefreshKeeps, CheckKeeps, TakeKeeps, LoadKeeps, ReadLawKeeps,
     LookIdsKeeps, ResolveKeeps, LookBodyKeeps, ReadPageKeeps, RememberBodyKeeps, RememberIdsKeeps
     DEF Call
<1>3. CASE UNCHANGED readerVars
  BY <1>3 DEF readerVars, IndInv, TypeOK, Whole, Latest, Calls, Goes, Holds, Cached, Firm, Settled, Past,
              Current, Brings
<1>4. QED
  BY <1>1, <1>2, <1>3 DEF ReaderNext

\* The invariant holds of every behaviour, whatever the pulls and however the threads take turns.
LEMMA Invariance == ReaderSpec => []IndInv
  BY InitFits, NextKeeps, PTL DEF ReaderSpec

\* Once a pull is over, nothing that is cached under its manifest's stamp is of an older corpus:
\* the invariant says it of a clone at rest whose stamp the caches bear.
THEOREM CachesStayCurrent == ReaderSpec => []CachesAreCurrent
<1>1. IndInv => CachesAreCurrent
  BY DEF IndInv, Cached, Firm, Current, CachesAreCurrent
<1>2. QED
  BY <1>1, Invariance, PTL

\* A call that no pull overlaps answers with the text that the corpus has: it has refreshed the
\* caches, and from then on they are current for it, whatever stamp they bear.
THEOREM AnswersAreNotOld == ReaderSpec => []NoOldText
<1>1. ASSUME IndInv, NEW t \in Thread, thread[t].pc = "done", thread[t].quiet,
             thread[t].answer \notin {0, Unknown, Failed}
      PROVE  thread[t].answer = Entry(clone.manifest, thread[t].doc)
  <2>1. thread[t].doc \in Doc /\ Holds(thread[t])
    BY <1>1, CallFits DEF Goes
  <2>2. pull = None /\ thread[t].answer = clone.page[thread[t].doc]
    BY <1>1, <2>1 DEF Holds
  <2>3. QED
    BY <1>1, <2>1, <2>2 DEF IndInv, Whole
<1>2. IndInv => NoOldText
  BY <1>1 DEF NoOldText
<1>3. QED
  BY <1>2, Invariance, PTL
-----------------------------------------------------------------------------
(* The historical states: the declared bytes *)

LEMMA LeastNumber ==
    ASSUME NEW A, A # {}, \A x \in A : x \in Nat
    PROVE  \E k \in A : \A m \in A : k <= m
<1> DEFINE R == OpToRel(<, Nat)
<1>1. IsWellFoundedOn(R, Nat)
  BY NatLessThanWellFounded
<1>2. A \subseteq Nat
  OBVIOUS
<1> HIDE DEF R
<1>3. PICK k \in A : \A m \in A : <<m, k>> \notin R
  BY <1>1, <1>2, WFMin
<1>4. ASSUME NEW m \in A PROVE k <= m
  <2>1. ~(m < k)
    BY <1>2, <1>3 DEF R, OpToRel
  <2> QED
    BY <1>2, <2>1
<1> QED
  BY <1>4

StateEntry == [commit : Commit, object : Object, cost : Nat]
OnePerCommit(es) == \A i, j \in 1..Len(es) : es[i].commit = es[j].commit => i = j

\* The costs up to each entry.
Costs(es, sum, n) ==
    sum = [i \in 0..n |-> IF i = 0 THEN 0 ELSE sum[i - 1] + es[i].cost]

LEMMA CostsExist ==
    ASSUME NEW es, NEW N \in Nat
    PROVE  \E sum : Costs(es, sum, N)
<1> DEFINE A == {n \in Nat : ~\E sum : Costs(es, sum, n)}
<1> SUFFICES ASSUME A # {} PROVE FALSE
  OBVIOUS
<1>1. PICK n \in A : \A m \in A : n <= m
  BY LeastNumber
<1>2. n \in Nat /\ ~\E sum : Costs(es, sum, n)
  BY <1>1
<1>3. CASE n = 0
  <2> DEFINE s == [i \in 0..0 |-> 0]
  <2>1. s = [i \in 0..0 |-> IF i = 0 THEN 0 ELSE s[i - 1] + es[i].cost]
    OBVIOUS
  <2>2. Costs(es, s, 0)
    BY <2>1 DEF Costs
  <2> QED
    BY <1>2, <1>3, <2>2
<1>4. CASE n > 0
  <2>1. n - 1 \in Nat /\ n - 1 \notin A
    BY <1>1, <1>2, <1>4
  <2>2. PICK s : Costs(es, s, n - 1)
    BY <2>1
  <2> DEFINE t == [i \in 0..n |-> IF i = 0 THEN 0 ELSE s[i - 1] + es[i].cost]
  <2>3. \A i \in 0..(n - 1) : s[i] = IF i = 0 THEN 0 ELSE s[i - 1] + es[i].cost
    BY <2>2 DEF Costs
  <2>4. \A i \in 0..n : t[i] = IF i = 0 THEN 0 ELSE s[i - 1] + es[i].cost
    OBVIOUS
  <2>5. \A i \in 0..(n - 1) : i \in 0..n
    BY <1>2
  <2> HIDE DEF t
  <2>6. \A i \in 0..(n - 1) : t[i] = s[i]
    BY <2>3, <2>4, <2>5
  <2>7. \A i \in 0..n : i # 0 => i - 1 \in 0..(n - 1)
    BY <1>2
  <2>8. \A i \in 0..n : i # 0 => t[i - 1] = s[i - 1]
    BY <2>6, <2>7
  <2>9. t = [i \in 0..n |-> IF i = 0 THEN 0 ELSE t[i - 1] + es[i].cost]
    BY <2>8 DEF t
  <2> QED
    BY <1>2, <2>9 DEF Costs
<1> QED
  BY <1>2, <1>3, <1>4

LEMMA CostIs ==
    ASSUME NEW es \in Seq(StateEntry)
    PROVE  \E sum : /\ Cost(es) = sum[Len(es)] /\ sum[0] = 0
                    /\ \A i \in 1..Len(es) : sum[i] = sum[i - 1] + es[i].cost
                    /\ \A i \in 0..Len(es) : sum[i] \in Nat
<1> DEFINE N == Len(es)
           sum == CHOOSE s : Costs(es, s, N)
<1>1. N \in Nat
  OBVIOUS
<1>2. Costs(es, sum, N)
  BY <1>1, CostsExist
<1>3. Cost(es) = sum[N]
  BY DEF Cost, Costs
<1> HIDE DEF sum
<1>4. \A i \in 0..N : sum[i] = IF i = 0 THEN 0 ELSE sum[i - 1] + es[i].cost
  BY <1>2 DEF Costs
<1>5. \A i \in 1..N : es[i].cost \in Nat
  <2>1. \A i \in 1..N : es[i] \in StateEntry
    OBVIOUS
  <2> QED
    BY <2>1 DEF StateEntry
<1>6. ASSUME NEW i \in 1..N
      PROVE  sum[i] = sum[i - 1] + es[i].cost /\ i - 1 \in 0..N
  <2>1. i \in 0..N /\ i # 0
    BY <1>1
  <2> QED
    BY <1>1, <1>4, <2>1
<1>7. sum[0] = 0
  BY <1>1, <1>4
<1>8. \A i \in 0..N : sum[i] \in Nat
  <2> DEFINE A == {i \in 0..N : sum[i] \notin Nat}
  <2> SUFFICES ASSUME A # {} PROVE FALSE
    OBVIOUS
  <2>1. \A x \in A : x \in Nat
    BY <1>1
  <2>2. PICK i \in A : \A m \in A : i <= m
    BY <2>1, LeastNumber
  <2>3. i \in 0..N /\ sum[i] \notin Nat
    BY <2>2
  <2>4. i \in 1..N
    BY <1>1, <1>7, <2>3
  <2>5. i - 1 \in 0..N /\ i - 1 < i
    BY <1>1, <2>4
  <2>6. sum[i - 1] \in Nat
    <3>1. i - 1 \notin A
      BY <1>1, <2>2, <2>3, <2>5
    <3> QED
      BY <2>5, <3>1
  <2> HIDE DEF A
  <2> QED
    BY <1>5, <1>6, <2>3, <2>4, <2>6
<1> QED
  BY <1>3, <1>6, <1>7, <1>8

\* What is left of the cache without one entry.
LEMMA Removed ==
    ASSUME NEW es \in Seq(StateEntry), NEW i \in 1..Len(es)
    PROVE  /\ RemoveAt(es, i) \in Seq(StateEntry) /\ Len(RemoveAt(es, i)) = Len(es) - 1
           /\ \A j \in 1..(Len(es) - 1) : RemoveAt(es, i)[j] = IF j < i THEN es[j] ELSE es[j + 1]
<1> DEFINE n == Len(es)
           left == SubSeq(es, 1, i - 1)
           right == SubSeq(es, i + 1, n)
<1>1. n \in Nat /\ i \in Int /\ 1 <= i /\ i <= n /\ \A j \in 1..n : es[j] \in StateEntry
  OBVIOUS
<1>2. /\ left \in Seq(StateEntry) /\ Len(left) = i - 1
      /\ \A j \in 1..(i - 1) : left[j] = es[j]
  <2>1. \A j \in 1..(i - 1) : es[j] \in StateEntry
    BY <1>1
  <2>2. 1 \in Int /\ i - 1 \in Int
    BY <1>1
  <2>3. /\ left \in Seq(StateEntry)
        /\ Len(left) = IF 1 <= i - 1 THEN (i - 1) - 1 + 1 ELSE 0
        /\ \A j \in 1..((i - 1) - 1 + 1) : left[j] = es[1 + j - 1]
    BY <2>1, <2>2, SubSeqProperties
  <2> HIDE DEF left
  <2>4. Len(left) = i - 1 /\ (i - 1) - 1 + 1 = i - 1
    BY <1>1, <2>3
  <2>5. \A j \in 1..(i - 1) : 1 + j - 1 = j
    OBVIOUS
  <2> QED
    BY <2>3, <2>4, <2>5
<1>3. /\ right \in Seq(StateEntry) /\ Len(right) = n - i
      /\ \A j \in 1..(n - i) : right[j] = es[i + j]
  <2>1. \A j \in (i + 1)..n : es[j] \in StateEntry
    BY <1>1
  <2>2. i + 1 \in Int /\ n \in Int
    BY <1>1
  <2>3. /\ right \in Seq(StateEntry)
        /\ Len(right) = IF i + 1 <= n THEN n - (i + 1) + 1 ELSE 0
        /\ \A j \in 1..(n - (i + 1) + 1) : right[j] = es[(i + 1) + j - 1]
    BY <2>1, <2>2, SubSeqProperties
  <2> HIDE DEF right, n
  <2>4. Len(right) = n - i /\ n - (i + 1) + 1 = n - i
    BY <1>1, <2>3
  <2>5. \A j \in 1..(n - i) : (i + 1) + j - 1 = i + j
    BY <1>1
  <2> QED
    BY <2>3, <2>4, <2>5
<1>4. RemoveAt(es, i) = left \o right
  BY DEF RemoveAt
<1> DEFINE rest == RemoveAt(es, i)
<1> HIDE DEF left, right, rest
<1>5. /\ rest \in Seq(StateEntry) /\ Len(rest) = Len(left) + Len(right)
      /\ \A j \in 1..(Len(left) + Len(right)) :
            rest[j] = IF j <= Len(left) THEN left[j] ELSE right[j - Len(left)]
  <2>1. left \in Seq(StateEntry) /\ right \in Seq(StateEntry) /\ rest = left \o right
    BY <1>2, <1>3, <1>4 DEF rest
  <2> QED
    BY <2>1, ConcatProperties
<1>6. Len(left) + Len(right) = n - 1
  BY <1>1, <1>2, <1>3
<1>7. ASSUME NEW j \in 1..(n - 1)
      PROVE  rest[j] = IF j < i THEN es[j] ELSE es[j + 1]
  <2>1. CASE j < i
    <3>1. j \in 1..(i - 1) /\ j <= Len(left)
      BY <1>1, <1>2, <2>1
    <3> QED
      BY <1>2, <1>5, <1>6, <2>1, <3>1
  <2>2. CASE ~(j < i)
    <3>1. /\ ~(j <= Len(left)) /\ j - Len(left) \in 1..(n - i)
          /\ i + (j - Len(left)) = j + 1
      BY <1>1, <1>2, <2>2
    <3>2. rest[j] = right[j - Len(left)]
      BY <1>5, <1>6, <3>1
    <3> QED
      BY <1>3, <2>2, <3>1, <3>2
  <2> QED
    BY <2>1, <2>2
<1> QED
  BY <1>5, <1>6, <1>7 DEF rest

\* The entry that was used last moves to the end: the declared bytes are the same.
LEMMA MovedToEnd ==
    ASSUME NEW es \in Seq(StateEntry), OnePerCommit(es), NEW i \in 1..Len(es)
    PROVE  LET new == Append(RemoveAt(es, i), es[i])
           IN  /\ new \in Seq(StateEntry) /\ OnePerCommit(new) /\ Cost(new) = Cost(es)
               /\ \A j \in 1..Len(new) : \E k \in 1..Len(es) : new[j] = es[k]
<1> DEFINE n == Len(es)
           rest == RemoveAt(es, i)
           new == Append(rest, es[i])
           At(j) == IF j < i THEN j ELSE IF j < n THEN j + 1 ELSE i
<1>1. n \in Nat /\ i \in Int /\ 1 <= i /\ i <= n /\ \A j \in 1..n : es[j] \in StateEntry
  OBVIOUS
<1>2. /\ rest \in Seq(StateEntry) /\ Len(rest) = n - 1
      /\ \A j \in 1..(n - 1) : rest[j] = IF j < i THEN es[j] ELSE es[j + 1]
  BY Removed
<1> HIDE DEF rest
<1>3. /\ new \in Seq(StateEntry) /\ Len(new) = n
      /\ \A j \in 1..n : new[j] = IF j = n THEN es[i] ELSE rest[j]
  <2>1. /\ new \in Seq(StateEntry) /\ Len(new) = Len(rest) + 1 /\ new[Len(rest) + 1] = es[i]
        /\ \A j \in 1..Len(rest) : new[j] = rest[j]
    BY <1>1, <1>2, AppendProperties
  <2>2. Len(rest) + 1 = n /\ \A j \in 1..n : j # n => j \in 1..Len(rest)
    BY <1>1, <1>2
  <2> QED
    BY <2>1, <2>2
<1> HIDE DEF new
<1>4. ASSUME NEW j \in 1..n
      PROVE  At(j) \in 1..n /\ new[j] = es[At(j)]
  <2>1. At(j) \in 1..n
    BY <1>1
  <2>2. CASE j = n
    BY <1>1, <1>3, <2>2
  <2>3. CASE j # n
    <3>1. j \in 1..(n - 1)
      BY <1>1, <2>3
    <3> QED
      BY <1>1, <1>2, <1>3, <2>3, <3>1
  <2> QED
    BY <2>1, <2>2, <2>3
<1>5. OnePerCommit(new)
  <2>1. ASSUME NEW j \in 1..n, NEW k \in 1..n, new[j].commit = new[k].commit
        PROVE  j = k
    <3>1. At(j) = At(k)
      BY <1>4, <2>1 DEF OnePerCommit
    <3> QED
      BY <1>1, <3>1
  <2> QED
    BY <1>3, <2>1 DEF OnePerCommit
<1>6. Cost(new) = Cost(es)
  <2>1. PICK a : /\ Cost(es) = a[n] /\ a[0] = 0
                 /\ \A j \in 1..n : a[j] = a[j - 1] + es[j].cost
                 /\ \A j \in 0..n : a[j] \in Nat
    BY CostIs
  <2>2. PICK b : /\ Cost(new) = b[n] /\ b[0] = 0
                 /\ \A j \in 1..n : b[j] = b[j - 1] + new[j].cost
                 /\ \A j \in 0..n : b[j] \in Nat
    BY <1>3, CostIs
  <2> DEFINE cost == es[i].cost
             Right(j) == IF j < i THEN b[j] = a[j] ELSE b[j] = a[j + 1] - cost
             A == {j \in 0..(n - 1) : ~Right(j)}
  <2>3. cost \in Nat /\ \A j \in 1..n : es[j].cost \in Nat
    BY <1>1 DEF StateEntry
  <2>4. A = {}
    <3> SUFFICES ASSUME A # {} PROVE FALSE
      OBVIOUS
    <3>1. \A x \in A : x \in Nat
      BY <1>1
    <3>2. PICK j \in A : \A m \in A : j <= m
      BY <3>1, LeastNumber
    <3>3. j \in 0..(n - 1) /\ ~Right(j)
      BY <3>2
    <3>4. j # 0
      <4>1. CASE i = 1
        <5>1. a[1] = a[0] + es[1].cost /\ a[1] \in Nat
          BY <1>1, <2>1
        <5> HIDE DEF A
        <5> QED
          BY <1>1, <2>1, <2>2, <2>3, <3>3, <4>1, <5>1
      <4>2. CASE i # 1
        <5>1. 0 < i
          BY <1>1
        <5> QED
          BY <2>1, <2>2, <3>3, <5>1
      <4> QED
        BY <4>1, <4>2
    <3>5. j - 1 \in 0..(n - 1) /\ j - 1 < j /\ j \in 1..n /\ j + 1 \in 1..n /\ j # n /\ j \in 0..n
      BY <1>1, <3>3, <3>4
    <3>6. Right(j - 1)
      <4>1. j - 1 \notin A
        BY <1>1, <3>2, <3>3, <3>5
      <4> QED
        BY <3>5, <4>1
    <3> HIDE DEF A
    <3>7. b[j] = b[j - 1] + new[j].cost /\ a[j] = a[j - 1] + es[j].cost
      BY <2>1, <2>2, <3>5
    <3>8. a[j + 1] = a[j] + es[j + 1].cost
      <4>1. a[j + 1] = a[(j + 1) - 1] + es[j + 1].cost /\ (j + 1) - 1 = j
        BY <1>1, <2>1, <3>3, <3>5
      <4> QED
        BY <4>1
    <3>9. new[j] = IF j < i THEN es[j] ELSE es[j + 1]
      <4>1. j < n
        BY <1>1, <3>3, <3>5
      <4> QED
        BY <1>4, <3>5, <4>1
    <3>10. a[j] \in Nat /\ a[j - 1] \in Nat /\ a[j + 1] \in Nat
      <4>1. j - 1 \in 0..n /\ j \in 0..n /\ j + 1 \in 0..n
        BY <1>1, <3>3, <3>5
      <4> QED
        BY <2>1, <4>1
    <3>11. es[j].cost \in Nat /\ es[j + 1].cost \in Nat
      BY <2>3, <3>5
    <3>12. CASE j < i
      <4>1. b[j - 1] = a[j - 1] /\ new[j] = es[j]
        BY <1>1, <3>3, <3>6, <3>9, <3>12
      <4> QED
        BY <3>3, <3>7, <3>12, <4>1
    <3>13. CASE ~(j < i) /\ j - 1 < i
      <4>1. j = i
        BY <1>1, <3>3, <3>13
      <4>2. b[j - 1] = a[j - 1] /\ new[j] = es[j + 1] /\ cost = es[j].cost
        BY <3>6, <3>9, <3>13, <4>1
      <4>3. b[j] = a[j - 1] + es[j + 1].cost
        BY <3>7, <4>2
      <4>4. b[j] = a[j + 1] - es[j].cost
        <5>1. \A x, y, z, c, d \in Nat : y = x + c /\ z = y + d => x + d = z - c
          OBVIOUS
        <5> QED
          BY <3>7, <3>8, <3>10, <3>11, <4>3, <5>1
      <4> QED
        BY <3>3, <3>13, <4>2, <4>4
    <3>14. CASE ~(j < i) /\ ~(j - 1 < i)
      <4>1. b[j - 1] = a[(j - 1) + 1] - cost /\ (j - 1) + 1 = j /\ new[j] = es[j + 1]
        BY <3>3, <3>6, <3>9, <3>14
      <4>2. b[j] = (a[j] - cost) + es[j + 1].cost
        BY <3>7, <4>1
      <4>3. b[j] = a[j + 1] - cost
        <5>1. \A y, z, c, d \in Nat : z = y + d => (y - c) + d = z - c
          OBVIOUS
        <5> QED
          BY <2>3, <3>8, <3>10, <3>11, <4>2, <5>1
      <4> QED
        BY <3>3, <3>14, <4>3
    <3> QED
      BY <3>12, <3>13, <3>14
  <2>5. n - 1 \in 0..(n - 1) /\ n \in 1..n /\ n - 1 \in 0..n
    BY <1>1
  <2>6. Right(n - 1)
    BY <2>4, <2>5
  <2>7. b[n] = b[n - 1] + cost
    BY <1>3, <2>2, <2>5
  <2>8. a[n] \in Nat /\ a[n - 1] \in Nat /\ b[n - 1] \in Nat
    BY <1>1, <2>1, <2>2, <2>5
  <2>9. CASE n - 1 < i
    <3>1. i = n
      BY <1>1, <2>9
    <3>2. b[n - 1] = a[n - 1] /\ a[n] = a[n - 1] + es[n].cost
      BY <2>1, <2>5, <2>6, <2>9
    <3> QED
      BY <2>1, <2>2, <2>7, <3>1, <3>2
  <2>10. CASE ~(n - 1 < i)
    <3>1. b[n - 1] = a[(n - 1) + 1] - cost /\ (n - 1) + 1 = n
      BY <1>1, <2>6, <2>10
    <3>2. b[n - 1] = a[n] - cost
      BY <3>1
    <3> HIDE DEF cost
    <3>3. b[n] = a[n]
      BY <2>3, <2>7, <2>8, <3>2
    <3> QED
      BY <2>1, <2>2, <3>3
  <2> QED
    BY <2>9, <2>10
<1> QED
  BY <1>3, <1>4, <1>5, <1>6 DEF new, rest


\* Whatever comes in is charged, and the oldest entries go until the bytes fit.
LEMMA ChargedFits ==
    ASSUME entries \in Seq(StateEntry), OnePerCommit(entries),
           NEW c \in Commit, NEW o \in Object, NEW k \in Nat
    PROVE  LET new == Charged(c, o, k)
               e == [commit |-> c, object |-> o, cost |-> k]
           IN  /\ new \in Seq(StateEntry) /\ OnePerCommit(new) /\ Cost(new) <= Budget
               /\ \A j \in 1..Len(new) :
                     \/ new[j] = e
                     \/ \E i \in 1..Len(entries) : new[j] = entries[i] /\ entries[i].commit # c
<1> DEFINE e == [commit |-> c, object |-> o, cost |-> k]
           n == Len(entries)
           at == CHOOSE i \in Held(c) : TRUE
           others == IF Held(c) = {} THEN entries ELSE RemoveAt(entries, at)
           full == Append(others, e)
           N == Len(full)
           new == EvictToBudget(full)
<1>1. e \in StateEntry /\ e.commit = c
  BY DEF StateEntry
<1>2. n \in Nat /\ DOMAIN entries = 1..n /\ \A i \in 1..n : entries[i] \in StateEntry
  OBVIOUS
<1>3. /\ others \in Seq(StateEntry) /\ OnePerCommit(others)
      /\ \A j \in 1..Len(others) :
            \E i \in 1..n : others[j] = entries[i] /\ entries[i].commit # c
  <2>1. CASE Held(c) = {}
    <3>1. \A i \in 1..n : entries[i].commit # c
      BY <1>2, <2>1 DEF Held
    <3> QED
      BY <2>1, <3>1
  <2>2. CASE Held(c) # {}
    <3> DEFINE rest == RemoveAt(entries, at)
    <3>1. at \in 1..n /\ entries[at].commit = c
      BY <1>2, <2>2 DEF Held
    <3> HIDE DEF at
    <3>2. /\ rest \in Seq(StateEntry) /\ Len(rest) = n - 1
          /\ \A j \in 1..(n - 1) : rest[j] = IF j < at THEN entries[j] ELSE entries[j + 1]
      BY <3>1, Removed
    <3> DEFINE At(j) == IF j < at THEN j ELSE j + 1
    <3> HIDE DEF rest
    <3>3. ASSUME NEW j \in 1..(n - 1)
          PROVE  At(j) \in 1..n /\ At(j) # at /\ rest[j] = entries[At(j)]
      BY <1>2, <3>1, <3>2
    <3>4. ASSUME NEW j \in 1..(n - 1), NEW m \in 1..(n - 1), rest[j].commit = rest[m].commit
          PROVE  j = m
      <4>1. At(j) = At(m)
        BY <3>3, <3>4 DEF OnePerCommit
      <4> QED
        BY <1>2, <3>1, <4>1
    <3>5. ASSUME NEW j \in 1..(n - 1)
          PROVE  \E i \in 1..n : rest[j] = entries[i] /\ entries[i].commit # c
      <4>1. entries[At(j)].commit # c
        BY <3>1, <3>3 DEF OnePerCommit
      <4> QED
        BY <3>3, <4>1
    <3>6. others = rest
      BY <2>2 DEF rest
    <3> HIDE DEF others
    <3> QED
      BY <3>2, <3>4, <3>5, <3>6 DEF OnePerCommit
  <2> QED
    BY <2>1, <2>2
<1> HIDE DEF others, e
<1>4. /\ full \in Seq(StateEntry) /\ N = Len(others) + 1 /\ full[N] = e
      /\ \A j \in 1..(N - 1) : full[j] = others[j]
  <2>1. /\ full \in Seq(StateEntry) /\ N = Len(others) + 1 /\ full[Len(others) + 1] = e
        /\ \A j \in 1..Len(others) : full[j] = others[j]
    BY <1>1, <1>3, AppendProperties
  <2> HIDE DEF full
  <2>2. N - 1 = Len(others)
    BY <1>3, <2>1
  <2> QED
    BY <2>1, <2>2
<1> HIDE DEF full
<1>5. N \in Nat /\ N >= 1 /\ \A j \in 1..N : full[j] \in StateEntry
  BY <1>3, <1>4
<1>6. OnePerCommit(full)
  <2>1. ASSUME NEW j \in 1..N, NEW m \in 1..N, full[j].commit = full[m].commit
        PROVE  j = m
    <3>1. \A x \in 1..N : x = N \/ x \in 1..(N - 1)
      BY <1>5
    <3>2. \A x \in 1..(N - 1) : full[x].commit # c /\ x \in 1..Len(others)
      BY <1>3, <1>4
    <3>3. full[N].commit = c
      BY <1>1, <1>4
    <3>4. CASE j = N \/ m = N
      BY <2>1, <3>1, <3>2, <3>3, <3>4
    <3>5. CASE j # N /\ m # N
      <4>1. /\ j \in 1..Len(others) /\ m \in 1..Len(others)
            /\ full[j] = others[j] /\ full[m] = others[m]
        BY <1>4, <3>1, <3>2, <3>5
      <4> QED
        BY <1>3, <2>1, <4>1 DEF OnePerCommit
    <3> QED
      BY <3>4, <3>5
  <2> QED
    BY <2>1 DEF OnePerCommit
<1> DEFINE Fits(i) == Cost(SubSeq(full, i, N)) <= Budget
           First(i) == Fits(i) /\ \A j \in 1..(i - 1) : ~Fits(j)
           i0 == CHOOSE i \in 1..(N + 1) : First(i)
<1>7. \E i \in 1..(N + 1) : First(i)
  <2> DEFINE A == {i \in 1..(N + 1) : Fits(i)}
  <2>1. Fits(N + 1)
    <3>1. SubSeq(full, N + 1, N) = <<>>
      <4>1. \A j \in (N + 1)..N : full[j] \in StateEntry
        BY <1>5
      <4>2. N + 1 \in Int /\ N \in Int /\ ~(N + 1 <= N)
        BY <1>5
      <4>3. SubSeq(full, N + 1, N) \in Seq(StateEntry) /\ Len(SubSeq(full, N + 1, N)) = 0
        BY <4>1, <4>2, SubSeqProperties
      <4> QED
        BY <4>3
    <3>2. <<>> \in Seq(StateEntry) /\ Len(<<>>) = 0
      OBVIOUS
    <3>3. Cost(<<>>) = 0
      BY <3>2, CostIs
    <3>4. 0 <= Budget
      BY StateCacheAssumption
    <3> QED
      BY <3>1, <3>3, <3>4
  <2> HIDE DEF Fits
  <2>2. A # {} /\ \A x \in A : x \in Nat
    BY <1>5, <2>1
  <2>3. PICK i \in A : \A m \in A : i <= m
    BY <2>2, LeastNumber
  <2>4. ASSUME NEW j \in 1..(i - 1) PROVE ~Fits(j)
    <3>1. j \in 1..(N + 1) /\ ~(i <= j)
      BY <1>5, <2>3
    <3> QED
      BY <2>3, <3>1
  <2> QED
    BY <2>3, <2>4
<1>8. i0 \in 1..(N + 1) /\ Fits(i0)
  BY <1>7
<1>9. new = SubSeq(full, i0, N)
  BY DEF EvictToBudget
<1> HIDE DEF i0, new, Fits
<1>10. Cost(new) <= Budget
  BY <1>8, <1>9 DEF Fits
<1>11. i0 \in Int /\ 1 <= i0 /\ i0 <= N + 1
  BY <1>5, <1>8
<1>12. /\ new \in Seq(StateEntry) /\ Len(new) = N - i0 + 1
       /\ \A j \in 1..(N - i0 + 1) : new[j] = full[i0 + j - 1]
  <2>1. \A j \in i0..N : full[j] \in StateEntry
    BY <1>5, <1>11
  <2>2. /\ new \in Seq(StateEntry) /\ Len(new) = IF i0 <= N THEN N - i0 + 1 ELSE 0
        /\ \A j \in 1..(N - i0 + 1) : new[j] = full[i0 + j - 1]
    BY <1>5, <1>9, <1>11, <2>1, SubSeqProperties
  <2>3. Len(new) = N - i0 + 1
    BY <1>5, <1>11, <2>2
  <2> QED
    BY <2>2, <2>3
<1>13. ASSUME NEW j \in 1..Len(new)
       PROVE  i0 + j - 1 \in 1..N /\ new[j] = full[i0 + j - 1]
  BY <1>5, <1>11, <1>12
<1>14. OnePerCommit(new)
  <2>1. ASSUME NEW j \in 1..Len(new), NEW m \in 1..Len(new), new[j].commit = new[m].commit
        PROVE  j = m
    <3>1. i0 + j - 1 = i0 + m - 1
      BY <1>6, <1>13, <2>1 DEF OnePerCommit
    <3>2. j \in Int /\ m \in Int
      BY <1>12
    <3> QED
      BY <1>11, <3>1, <3>2
  <2> QED
    BY <2>1 DEF OnePerCommit
<1>15. ASSUME NEW j \in 1..Len(new)
       PROVE  \/ new[j] = e
              \/ \E i \in 1..n : new[j] = entries[i] /\ entries[i].commit # c
  <2> DEFINE x == i0 + j - 1
  <2>1. x \in 1..N /\ new[j] = full[x]
    BY <1>13
  <2> HIDE DEF x
  <2>2. CASE x = N
    BY <1>4, <2>1, <2>2
  <2>3. CASE x # N
    <3>1. x \in 1..(N - 1) /\ x \in 1..Len(others)
      BY <1>3, <1>4, <1>5, <2>1, <2>3
    <3> QED
      BY <1>3, <1>4, <2>1, <3>1
  <2> QED
    BY <2>2, <2>3
<1>16. Charged(c, o, k) = new
  BY DEF Charged, new, full, others, e
<1> QED
  BY <1>10, <1>12, <1>14, <1>15, <1>16 DEF e

-----------------------------------------------------------------------------
(* The historical states: the inductive invariant *)

StateCalls ==
    /\ call = [t \in Caller |-> call[t]]
    /\ \A t \in Caller :
          /\ call[t] \in [pc : {"idle", "look", "resize", "keep"},
                          commit : {call[t].commit}, object : {call[t].object}]
          /\ call[t].pc # "idle" => call[t].commit \in Commit /\ call[t].object \in Object

\* An object is of one commit, whoever refers to it.
OneObject ==
    /\ \A i, j \in 1..Len(entries) : entries[i].object = entries[j].object => i = j
    /\ \A t \in Caller, i \in 1..Len(entries) :
          call[t].pc # "idle" /\ call[t].object = entries[i].object =>
              call[t].commit = entries[i].commit

\* Who is about to keep its bodies keeps them on an object that is charged for them, or on one that
\* the cache has dropped.
KeptIsCharged ==
    \A t \in Caller, i \in 1..Len(entries) :
        call[t].pc = "keep" /\ call[t].object = entries[i].object =>
            entries[i].cost = Full(entries[i].commit)

StateInv ==
    /\ entries \in Seq(StateEntry) /\ OnePerCommit(entries) /\ Cost(entries) <= Budget
    /\ StateCalls /\ OneObject /\ KeptIsCharged /\ ResidentIsCharged

LEMMA SpareObject ==
    ASSUME StateInv
    PROVE  \E o \in Object : o \notin InUse
<1> SUFFICES ASSUME \A o \in Object : o \in InUse PROVE FALSE
  OBVIOUS
<1> DEFINE n == Len(entries)
           A == {o \in Object : \E i \in 1..n : entries[i].object = o}
           B == {o \in Object : \E t \in Caller : call[t].object = o}
           Place(o) == CHOOSE i \in 1..n : entries[i].object = o
           Holder(o) == CHOOSE t \in Caller : call[t].object = o
           f == [o \in A |-> entries[Place(o)].commit]
           g == [o \in B |-> Holder(o)]
<1>1. DOMAIN entries = 1..n /\ \A i \in 1..n : entries[i] \in StateEntry
  BY DEF StateInv
<1>2. Object = A \cup B
  BY <1>1 DEF InUse
<1>3. IsFiniteSet(A) /\ Cardinality(A) <= Cardinality(Commit)
  <2>1. \A o \in A : Place(o) \in 1..n /\ entries[Place(o)].object = o
    OBVIOUS
  <2> HIDE DEF Place
  <2>2. f \in [A -> Commit]
    BY <1>1, <2>1 DEF StateEntry
  <2>3. ASSUME NEW o \in A, NEW p \in A, f[o] = f[p] PROVE o = p
    <3>1. Place(o) = Place(p)
      BY <2>1, <2>3 DEF StateInv, OnePerCommit
    <3> QED
      BY <2>1, <3>1
  <2> HIDE DEF f, A
  <2>4. f \in Injection(A, Commit)
    BY <2>2, <2>3 DEF Injection, IsInjective
  <2> QED
    BY <2>4, FS_Injection, StateCacheAssumption
<1>4. IsFiniteSet(B) /\ Cardinality(B) <= Cardinality(Caller)
  <2>1. \A o \in B : Holder(o) \in Caller /\ call[Holder(o)].object = o
    OBVIOUS
  <2> HIDE DEF Holder
  <2>2. g \in [B -> Caller]
    BY <2>1
  <2>3. ASSUME NEW o \in B, NEW p \in B, g[o] = g[p] PROVE o = p
    BY <2>1, <2>3
  <2> HIDE DEF g, B
  <2>4. g \in Injection(B, Caller)
    BY <2>2, <2>3 DEF Injection, IsInjective
  <2> QED
    BY <2>4, FS_Injection, StateCacheAssumption
<1> HIDE DEF A, B
<1>5. /\ IsFiniteSet(Object)
      /\ Cardinality(Object) = Cardinality(A) + Cardinality(B) - Cardinality(A \cap B)
  BY <1>2, <1>3, <1>4, FS_Union
<1>6. Cardinality(A \cap B) \in Nat /\ Cardinality(A) \in Nat /\ Cardinality(B) \in Nat
  <2>1. IsFiniteSet(A \cap B)
    BY <1>3, FS_Intersection
  <2> QED
    BY <1>3, <1>4, <2>1, FS_CardinalityType
<1>7. Cardinality(Commit) \in Nat /\ Cardinality(Caller) \in Nat
  BY StateCacheAssumption, FS_CardinalityType
<1>8. Cardinality(Object) > Cardinality(Commit) + Cardinality(Caller)
  BY <1>5, StateCacheAssumption
<1> QED
  BY <1>3, <1>4, <1>5, <1>6, <1>7, <1>8

LEMMA CalledOne ==
    ASSUME StateInv, NEW t \in Caller, NEW pc \in {"idle", "look", "resize", "keep"},
           NEW c, NEW o, pc # "idle" => c \in Commit /\ o \in Object,
           call' = [call EXCEPT ![t] = [pc |-> pc, commit |-> c, object |-> o]]
    PROVE  /\ StateCalls' /\ call'[t] = [pc |-> pc, commit |-> c, object |-> o]
           /\ \A u \in Caller : u # t => call'[u] = call[u]
  BY DEF StateInv, StateCalls

\* A call that ends or goes on without a word to the cache.
LEMMA CallMoves ==
    ASSUME StateInv, NEW t \in Caller, Answer(t) \/ LoadBodies(t) \/ Keep(t)
    PROVE  StateInv'
<1> DEFINE c == call[t].commit  o == call[t].object
<1>1. /\ call[t].pc \in {"look", "keep"} /\ c \in Commit /\ o \in Object /\ entries' = entries
      /\ call[t] = [pc |-> call[t].pc, commit |-> c, object |-> o]
  BY DEF StateInv, StateCalls, Answer, LoadBodies, Keep
<1>2. /\ StateCalls' /\ \A u \in Caller : u # t => call'[u] = call[u]
      /\ call'[t].pc \in {"idle", "resize"}
      /\ call'[t].pc # "idle" => call'[t].commit = c /\ call'[t].object = o
  <2>1. CASE LoadBodies(t)
    <3>1. call' = [call EXCEPT ![t] = [call[t] EXCEPT !.pc = "resize"]]
      BY <2>1 DEF LoadBodies
    <3>2. [call[t] EXCEPT !.pc = "resize"] = [pc |-> "resize", commit |-> c, object |-> o]
      BY <1>1
    <3>3. /\ StateCalls' /\ call'[t] = [pc |-> "resize", commit |-> c, object |-> o]
          /\ \A u \in Caller : u # t => call'[u] = call[u]
      BY <1>1, <3>1, <3>2, CalledOne
    <3> QED
      BY <3>3
  <2>2. CASE Answer(t) \/ Keep(t)
    <3>1. call' = [call EXCEPT ![t] = [pc |-> "idle", commit |-> NoObject, object |-> NoObject]]
      BY <2>2 DEF Answer, Keep, NoCall
    <3>2. /\ StateCalls' /\ call'[t] = [pc |-> "idle", commit |-> NoObject, object |-> NoObject]
          /\ \A u \in Caller : u # t => call'[u] = call[u]
      BY <3>1, CalledOne
    <3> QED
      BY <3>2
  <2> QED
    BY <2>1, <2>2
<1>3. OneObject' /\ KeptIsCharged'
  BY <1>1, <1>2 DEF StateInv, OneObject, KeptIsCharged
<1>4. ResidentIsCharged'
  <2>1. CASE bodies' = bodies
    BY <1>1, <2>1 DEF StateInv, ResidentIsCharged
  <2>2. CASE Keep(t)
    <3>1. bodies' = bodies \cup {o} /\ call[t].pc = "keep"
      BY <2>2 DEF Keep
    <3>2. DOMAIN entries = 1..Len(entries)
      BY DEF StateInv
    <3>3. \A i \in 1..Len(entries) : entries[i].object = o => entries[i].cost = Full(entries[i].commit)
      BY <3>1 DEF StateInv, KeptIsCharged
    <3> QED
      BY <1>1, <3>1, <3>2, <3>3 DEF StateInv, ResidentIsCharged
  <2> QED
    BY <2>1, <2>2 DEF Answer, LoadBodies
<1> QED
  BY <1>1, <1>2, <1>3, <1>4 DEF StateInv

\* A state that the cache has: its entry moves to the end.
LEMMA HitKeeps ==
    ASSUME StateInv, NEW t \in Caller, NEW c \in Commit, call[t] = NoCall,
           NEW i \in Held(c), entries' = Append(RemoveAt(entries, i), entries[i]),
           call' = [call EXCEPT ![t] = [pc |-> "look", commit |-> c, object |-> entries[i].object]],
           bodies' = bodies \cap InUse
    PROVE  StateInv'
<1> DEFINE n == Len(entries)  new == Append(RemoveAt(entries, i), entries[i])  o == entries[i].object
<1>1. /\ n \in Nat /\ DOMAIN entries = 1..n /\ i \in 1..n /\ entries[i].commit = c
      /\ entries \in Seq(StateEntry) /\ OnePerCommit(entries) /\ Cost(entries) <= Budget
      /\ entries[i] \in StateEntry
  BY DEF StateInv, Held
<1>2. /\ new \in Seq(StateEntry) /\ OnePerCommit(new) /\ Cost(new) = Cost(entries)
      /\ \A j \in 1..Len(new) : \E k \in 1..n : new[j] = entries[k]
  BY <1>1, MovedToEnd
<1>3. entries' = new
  OBVIOUS
<1>4. o \in Object
  BY <1>1 DEF StateEntry
<1> HIDE DEF new
<1>5. /\ StateCalls' /\ call'[t] = [pc |-> "look", commit |-> c, object |-> o]
      /\ \A u \in Caller : u # t => call'[u] = call[u]
  BY <1>4, CalledOne
<1>6. OneObject'
  <2>1. ASSUME NEW j \in 1..Len(new), NEW m \in 1..Len(new), new[j].object = new[m].object
        PROVE  j = m
    <3>1. PICK k \in 1..n : new[j] = entries[k]
      BY <1>2
    <3>2. PICK l \in 1..n : new[m] = entries[l]
      BY <1>2
    <3>3. k = l
      BY <2>1, <3>1, <3>2 DEF StateInv, OneObject
    <3> QED
      BY <1>2, <3>1, <3>2, <3>3 DEF OnePerCommit
  <2>2. ASSUME NEW u \in Caller, NEW j \in 1..Len(new),
               call'[u].pc # "idle", call'[u].object = new[j].object
        PROVE  call'[u].commit = new[j].commit
    <3>1. PICK k \in 1..n : new[j] = entries[k]
      BY <1>2
    <3>2. CASE u = t
      <4>1. k = i
        BY <1>1, <1>5, <2>2, <3>1, <3>2 DEF StateInv, OneObject
      <4> QED
        BY <1>1, <1>5, <3>1, <3>2, <4>1
    <3>3. CASE u # t
      BY <1>5, <2>2, <3>1, <3>3 DEF StateInv, OneObject
    <3> QED
      BY <3>2, <3>3
  <2> QED
    BY <1>3, <2>1, <2>2 DEF OneObject
<1>7. KeptIsCharged'
  BY <1>2, <1>3, <1>5 DEF StateInv, KeptIsCharged
<1>8. ResidentIsCharged'
  <2>1. DOMAIN new = 1..Len(new)
    BY <1>2
  <2> QED
    BY <1>1, <1>2, <1>3, <2>1 DEF StateInv, ResidentIsCharged
<1> QED
  BY <1>2, <1>3, <1>1, <1>5, <1>6, <1>7, <1>8 DEF StateInv

\* A state that it has not: a new object, which nobody refers to, with an entry of its own.
LEMMA MissKeeps ==
    ASSUME StateInv, NEW t \in Caller, NEW c \in Commit, call[t] = NoCall, NEW o \in Object,
           o \notin InUse,
           entries' = IF Overhead > Budget THEN entries ELSE Charged(c, o, Overhead),
           call' = [call EXCEPT ![t] = [pc |-> "look", commit |-> c, object |-> o]],
           bodies' = (bodies \cap InUse) \ {o}
    PROVE  StateInv'
<1> DEFINE n == Len(entries)
           e == [commit |-> c, object |-> o, cost |-> Overhead]
<1>1. /\ n \in Nat /\ DOMAIN entries = 1..n /\ Overhead \in Nat
      /\ entries \in Seq(StateEntry) /\ OnePerCommit(entries) /\ Cost(entries) <= Budget
  BY StateCacheAssumption DEF StateInv
<1>2. /\ entries' \in Seq(StateEntry) /\ OnePerCommit(entries') /\ Cost(entries') <= Budget
      /\ \A j \in 1..Len(entries') : entries'[j] = e \/ \E k \in 1..n : entries'[j] = entries[k]
  <2>1. CASE Overhead > Budget
    BY <1>1, <2>1
  <2>2. CASE ~(Overhead > Budget)
    <3> DEFINE new == Charged(c, o, Overhead)
    <3>1. /\ new \in Seq(StateEntry) /\ OnePerCommit(new) /\ Cost(new) <= Budget
          /\ \A j \in 1..Len(new) :
                new[j] = e \/ \E k \in 1..n : new[j] = entries[k] /\ entries[k].commit # c
      BY <1>1, ChargedFits
    <3> HIDE DEF new
    <3>2. entries' = new
      BY <2>2 DEF new
    <3> QED
      BY <3>1, <3>2
  <2> QED
    BY <2>1, <2>2
<1>3. e.object = o /\ e.commit = c
  OBVIOUS
<1>4. /\ \A k \in 1..n : entries[k].object # o
      /\ \A u \in Caller : call[u].object # o
  BY <1>1 DEF InUse
<1>5. /\ StateCalls' /\ call'[t] = [pc |-> "look", commit |-> c, object |-> o]
      /\ \A u \in Caller : u # t => call'[u] = call[u]
  BY CalledOne
<1> HIDE DEF e
<1>6. OneObject'
  <2>1. ASSUME NEW j \in 1..Len(entries'), NEW m \in 1..Len(entries'),
               entries'[j].object = entries'[m].object
        PROVE  j = m
    <3>1. entries'[j].commit = entries'[m].commit
      BY <1>2, <1>3, <1>4, <2>1 DEF StateInv, OneObject
    <3> QED
      BY <1>2, <3>1 DEF OnePerCommit
  <2>2. ASSUME NEW u \in Caller, NEW j \in 1..Len(entries'),
               call'[u].pc # "idle", call'[u].object = entries'[j].object
        PROVE  call'[u].commit = entries'[j].commit
    <3>1. CASE u = t
      BY <1>2, <1>3, <1>4, <1>5, <2>2, <3>1
    <3>2. CASE u # t
      BY <1>2, <1>3, <1>4, <1>5, <2>2, <3>2 DEF StateInv, OneObject
    <3> QED
      BY <3>1, <3>2
  <2> QED
    BY <2>1, <2>2 DEF OneObject
<1>7. KeptIsCharged'
  <2>1. ASSUME NEW u \in Caller, NEW j \in 1..Len(entries'),
               call'[u].pc = "keep", call'[u].object = entries'[j].object
        PROVE  entries'[j].cost = Full(entries'[j].commit)
    <3>1. u # t /\ call'[u] = call[u]
      BY <1>5, <2>1
    <3>2. entries'[j] # e
      BY <1>3, <1>4, <2>1, <3>1
    <3>3. PICK k \in 1..n : entries'[j] = entries[k]
      BY <1>2, <3>2
    <3> QED
      BY <2>1, <3>1, <3>3 DEF StateInv, KeptIsCharged
  <2> QED
    BY <2>1 DEF KeptIsCharged, Full
<1>8. ResidentIsCharged'
  <2>1. DOMAIN entries' = 1..Len(entries')
    BY <1>2
  <2>2. ASSUME NEW j \in 1..Len(entries'), entries'[j].object \in bodies'
        PROVE  entries'[j].cost = Full(entries'[j].commit)
    BY <1>1, <1>2, <1>3, <2>2 DEF StateInv, ResidentIsCharged
  <2> QED
    BY <2>1, <2>2 DEF ResidentIsCharged, Full
<1> QED
  BY <1>2, <1>5, <1>6, <1>7, <1>8 DEF StateInv

\* The bodies are declared to the entry of the commit, or the call goes without.
LEMMA ResizeKeeps ==
    ASSUME StateInv, NEW t \in Caller, Resize(t)
    PROVE  StateInv'
<1> DEFINE n == Len(entries)
           c == call[t].commit
           fits == Held(c) # {} /\ Full(c) <= Budget
           at == CHOOSE i \in Held(c) : TRUE
           o == entries[at].object
           e == [commit |-> c, object |-> o, cost |-> Full(c)]
<1>1. /\ n \in Nat /\ DOMAIN entries = 1..n /\ c \in Commit /\ call[t].object \in Object
      /\ entries \in Seq(StateEntry) /\ OnePerCommit(entries) /\ Cost(entries) <= Budget
      /\ \A k \in 1..n : entries[k] \in StateEntry
      /\ call[t] = [pc |-> "resize", commit |-> c, object |-> call[t].object]
      /\ bodies' = bodies
  BY DEF StateInv, StateCalls, Resize
<1>2. CASE ~fits
  <2>1. entries' = entries /\ call' = [call EXCEPT ![t] = [pc |-> "idle", commit |-> NoObject, object |-> NoObject]]
    BY <1>2 DEF Resize, NoCall
  <2>2. /\ StateCalls' /\ call'[t] = [pc |-> "idle", commit |-> NoObject, object |-> NoObject]
        /\ \A u \in Caller : u # t => call'[u] = call[u]
    BY <2>1, CalledOne
  <2>3. OneObject' /\ KeptIsCharged'
    BY <2>1, <2>2 DEF StateInv, OneObject, KeptIsCharged
  <2>4. ResidentIsCharged'
    BY <1>1, <2>1 DEF StateInv, ResidentIsCharged
  <2> QED
    BY <1>1, <2>1, <2>2, <2>3, <2>4 DEF StateInv
<1>3. CASE fits
  <2> DEFINE new == Charged(c, o, Full(c))
  <2>1. /\ entries' = new
        /\ call' = [call EXCEPT ![t] = [pc |-> "keep", commit |-> c, object |-> call[t].object]]
    <3>1. [call[t] EXCEPT !.pc = "keep"] = [pc |-> "keep", commit |-> c, object |-> call[t].object]
      BY <1>1
    <3>2. call' = [call EXCEPT ![t] = [call[t] EXCEPT !.pc = "keep"]]
      BY <1>3 DEF Resize
    <3>3. entries' = new
      BY <1>3 DEF Resize
    <3> QED
      BY <3>1, <3>2, <3>3
  <2>2. at \in 1..n /\ entries[at].commit = c
    BY <1>1, <1>3 DEF Held
  <2>3. o \in Object /\ Full(c) \in Nat
    BY <1>1, <2>2, StateCacheAssumption DEF StateEntry, Full
  <2> HIDE DEF at
  <2>4. /\ new \in Seq(StateEntry) /\ OnePerCommit(new) /\ Cost(new) <= Budget
        /\ \A j \in 1..Len(new) :
              new[j] = e \/ \E k \in 1..n : new[j] = entries[k] /\ entries[k].commit # c
    BY <1>1, <2>3, ChargedFits
  <2> HIDE DEF new
  <2>5. e.object = o /\ e.commit = c /\ e.cost = Full(e.commit)
    OBVIOUS
  <2>6. /\ StateCalls' /\ call'[t] = [pc |-> "keep", commit |-> c, object |-> call[t].object]
        /\ \A u \in Caller : u # t => call'[u] = call[u]
    BY <1>1, <2>1, CalledOne
  <2>7. \A k \in 1..n : entries[k].commit # c => entries[k].object # o
    BY <2>2 DEF StateInv, OneObject
  <2> HIDE DEF e
  <2>8. OneObject'
    <3>1. ASSUME NEW j \in 1..Len(new), NEW m \in 1..Len(new), new[j].object = new[m].object
          PROVE  j = m
      <4>1. new[j].commit = new[m].commit
        BY <2>4, <2>5, <2>7, <3>1 DEF StateInv, OneObject
      <4> QED
        BY <2>4, <4>1 DEF OnePerCommit
    <3>2. ASSUME NEW u \in Caller, NEW j \in 1..Len(new),
                 call'[u].pc # "idle", call'[u].object = new[j].object
          PROVE  call'[u].commit = new[j].commit
      <4>1. /\ call[u].pc # "idle" /\ call'[u].object = call[u].object
            /\ call'[u].commit = call[u].commit
        BY <1>1, <2>6, <3>2
      <4>2. CASE new[j] = e
        BY <2>2, <2>5, <3>2, <4>1, <4>2 DEF StateInv, OneObject
      <4>3. CASE new[j] # e
        <5>1. PICK k \in 1..n : new[j] = entries[k]
          BY <2>4, <4>3
        <5>2. call[u].object = entries[k].object
          BY <3>2, <4>1, <5>1
        <5>3. call[u].commit = entries[k].commit
          BY <4>1, <5>2 DEF StateInv, OneObject
        <5> QED
          BY <4>1, <5>1, <5>3
      <4> QED
        BY <4>2, <4>3
    <3> QED
      BY <2>1, <3>1, <3>2 DEF OneObject
  <2>9. KeptIsCharged'
    <3>1. ASSUME NEW u \in Caller, NEW j \in 1..Len(new),
                 call'[u].pc = "keep", call'[u].object = new[j].object
          PROVE  new[j].cost = Full(new[j].commit)
      <4>1. CASE new[j] = e
        BY <2>5, <4>1
      <4>2. CASE new[j] # e
        <5>1. PICK k \in 1..n : new[j] = entries[k] /\ entries[k].commit # c
          BY <2>4, <4>2
        <5>2. CASE u = t
          <6>1. call[t].pc # "idle" /\ call[t].object = entries[k].object
            BY <1>1, <2>6, <3>1, <5>1, <5>2
          <6> QED
            BY <5>1, <6>1 DEF StateInv, OneObject
        <5>3. CASE u # t
          BY <2>6, <3>1, <5>1, <5>3 DEF StateInv, KeptIsCharged
        <5> QED
          BY <5>2, <5>3
      <4> QED
        BY <4>1, <4>2
    <3> QED
      BY <2>1, <3>1 DEF KeptIsCharged, Full
  <2>10. ResidentIsCharged'
    <3>1. DOMAIN new = 1..Len(new)
      BY <2>4
    <3>2. ASSUME NEW j \in 1..Len(new), new[j].object \in bodies
          PROVE  new[j].cost = Full(new[j].commit)
      BY <1>1, <2>4, <2>5, <3>2 DEF StateInv, ResidentIsCharged
    <3> QED
      BY <1>1, <2>1, <3>1, <3>2 DEF ResidentIsCharged, Full
  <2> QED
    BY <2>1, <2>4, <2>6, <2>8, <2>9, <2>10 DEF StateInv
<1> QED
  BY <1>2, <1>3

LEMMA StateDataKeeps ==
    ASSUME StateInv, NEW t \in Caller, NEW c \in Commit, StateData(t, c)
    PROVE  StateInv'
<1> DEFINE new == CHOOSE o \in Object : o \notin InUse
<1>1. new \in Object /\ new \notin InUse
  BY SpareObject
<1> HIDE DEF new
<1>2. CASE Held(c) = {}
  <2>1. /\ call[t] = NoCall
        /\ entries' = IF Overhead > Budget THEN entries ELSE Charged(c, new, Overhead)
        /\ call' = [call EXCEPT ![t] = [pc |-> "look", commit |-> c, object |-> new]]
        /\ bodies' = (bodies \cap InUse) \ {new}
    BY <1>2 DEF StateData, new
  <2> QED
    BY <1>1, <2>1, MissKeeps
<1>3. CASE Held(c) # {}
  <2>1. PICK i \in Held(c) :
           /\ entries' = Append(RemoveAt(entries, i), entries[i])
           /\ call' = [call EXCEPT ![t] = [pc |-> "look", commit |-> c, object |-> entries[i].object]]
           /\ bodies' = bodies \cap InUse
    BY <1>3 DEF StateData
  <2>2. call[t] = NoCall
    BY DEF StateData
  <2> QED
    BY <2>1, <2>2, HitKeeps
<1> QED
  BY <1>2, <1>3

LEMMA StateInitHolds == StateInit => StateInv
<1> SUFFICES ASSUME StateInit PROVE StateInv
  OBVIOUS
<1>1. /\ entries = <<>> /\ bodies = {} /\ call = [t \in Caller |-> NoCall]
      /\ \A t \in Caller : call[t] = [pc |-> "idle", commit |-> NoObject, object |-> NoObject]
  BY DEF StateInit, NoCall
<1>2. entries \in Seq(StateEntry) /\ Len(entries) = 0 /\ 1..Len(entries) = {}
  BY <1>1
<1>3. Cost(entries) <= Budget
  <2>1. Cost(entries) = 0
    BY <1>2, CostIs
  <2> QED
    BY <2>1, StateCacheAssumption
<1>4. StateCalls
  BY <1>1 DEF StateCalls
<1> QED
  BY <1>1, <1>2, <1>3, <1>4 DEF StateInv, OnePerCommit, OneObject, KeptIsCharged, ResidentIsCharged

LEMMA StateStepKeeps == StateInv /\ [StateNext]_stateVars => StateInv'
<1> SUFFICES ASSUME StateInv, [StateNext]_stateVars PROVE StateInv'
  OBVIOUS
<1>1. CASE StateNext
  BY <1>1, StateDataKeeps, CallMoves, ResizeKeeps DEF StateNext, Serve
<1>2. CASE UNCHANGED stateVars
  BY <1>2 DEF stateVars, StateInv, StateCalls, OneObject, KeptIsCharged, ResidentIsCharged
<1> QED
  BY <1>1, <1>2

\* state_cache.py and its use in mcp.py: for any budget, sizes, commits and threads, the declared
\* bytes are within the budget, and what the cached states keep in memory has been declared.
THEOREM MemoryStaysAccounted == StateSpec => []MemoryIsAccounted
<1>1. StateInv => MemoryIsAccounted
  BY DEF StateInv, MemoryIsAccounted, WithinBudget, OnePerCommit
<1> QED
  BY <1>1, StateInitHolds, StateStepKeeps, PTL DEF StateSpec

=============================================================================
