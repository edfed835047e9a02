--------------------------- MODULE TrustApi_proofs ---------------------------
(***************************************************************************)
(* The Trust API's cache, capacity guard, books, rate limit and reconcile, *)
(* for any number of actors, keys and requests and any limits.             *)
(*                                                                         *)
(* The eviction loop takes keys off the front of an order list that holds  *)
(* keys several times and keys that are cached no more.  That it always    *)
(* finds room rests on one fact about the list: every cached key is on it. *)
(* The stored totals are sums over all actors; a batch adds to each actor  *)
(* what is its own, and by classes that is what it adds to the network's.  *)
(* The rate limit rests on the bucket: for every window that still         *)
(* matters it holds an entry for each accepted event in it.                *)
(***************************************************************************)
EXTENDS TrustApi, Sums_proofs, TLAPS, FiniteSetTheorems, WellFoundedInduction

\* A cache is a table and an order list with every key of the table on it.
CacheOK(c) ==
    /\ c = [data |-> c.data, order |-> c.order]
    /\ c.order \in Seq(CacheKeys)
    /\ DOMAIN c.data \subseteq First(c, Len(c.order))
    /\ IsFiniteSet(DOMAIN c.data) /\ Cardinality(DOMAIN c.data) <= CacheMax

GuardExact ==
    /\ IsFiniteSet(requests)
    /\ inFlight = Cardinality(requests) /\ inFlight <= MaxConcurrent

ApiInv ==
    /\ CacheOK(cache) /\ GuardExact
    /\ tampers \in Nat
    /\ CachedIsCurrent

LEMMA CacheMaxIsNat == CacheMax \in Nat \ {0} /\ MaxConcurrent \in Nat \ {0}
  BY ApiAssumption

LEMMA KeysKnown == ASSUME NEW c, CacheOK(c) PROVE DOMAIN c.data \subseteq CacheKeys
  BY DEF CacheOK, First

\* Dropping keys takes them out of the table and changes nothing else.
LEMMA KeepOK ==
    ASSUME NEW c, CacheOK(c), NEW keys
    PROVE  LET d == CacheKeep(c, keys)
           IN  /\ CacheOK(d) /\ d.order = c.order
               /\ DOMAIN d.data = DOMAIN c.data \cap keys
               /\ \A k \in DOMAIN d.data : d.data[k] = c.data[k]
  <1> DEFINE d == CacheKeep(c, keys)
  <1>1. d = [data |-> [k \in DOMAIN c.data \cap keys |-> c.data[k]], order |-> c.order]
    BY DEF CacheKeep, CacheOK
  <1>2. /\ d.order = c.order /\ DOMAIN d.data = DOMAIN c.data \cap keys
        /\ \A k \in DOMAIN d.data : d.data[k] = c.data[k]
        /\ d = [data |-> d.data, order |-> d.order]
    BY <1>1
  <1> HIDE DEF d
  <1>3. /\ IsFiniteSet(DOMAIN d.data)
        /\ Cardinality(DOMAIN d.data) <= Cardinality(DOMAIN c.data)
    BY <1>2, FS_Subset DEF CacheOK
  <1>4. Cardinality(DOMAIN d.data) \in Nat /\ Cardinality(DOMAIN c.data) \in Nat
    BY <1>3, FS_CardinalityType DEF CacheOK
  <1>5. Cardinality(DOMAIN d.data) <= CacheMax
    BY <1>3, <1>4, CacheMaxIsNat DEF CacheOK
  <1>6. CacheOK(d)
    BY <1>2, <1>3, <1>5 DEF CacheOK, First
  <1> QED BY <1>2, <1>6 DEF d

\* The eviction loop stops, with room for one more key.
LEMMA EvictionFindsRoom ==
    ASSUME NEW c, CacheOK(c)
    PROVE  Evictions(c) \in 0 .. Len(c.order) /\ ~FullAfter(c, Evictions(c))
  <1> DEFINE L == Len(c.order)
             T == {n \in 0 .. L : ~FullAfter(c, n)}
  <1>1. L \in Nat
    BY DEF CacheOK
  <1>2. ~FullAfter(c, L)
    <2>1. DOMAIN c.data \ First(c, L) = {}
      BY DEF CacheOK
    <2>2. Cardinality(DOMAIN c.data \ First(c, L)) = 0
      BY <2>1, FS_EmptySet
    <2> QED BY <2>2, CacheMaxIsNat DEF FullAfter
  <1>3. L \in T /\ T \subseteq Nat
    BY <1>1, <1>2
  <1>4. PICK n \in T : \A m \in T : ~(<<m, n>> \in OpToRel(<, Nat))
    BY <1>3, NatLessThanWellFounded, WFMin, Zenon
  <1>5. \A m \in 0 .. n - 1 : FullAfter(c, m)
    <2> SUFFICES ASSUME NEW m \in 0 .. n - 1, ~FullAfter(c, m) PROVE FALSE
      OBVIOUS
    <2>1. m \in T /\ m < n /\ m \in Nat /\ n \in Nat
      BY <1>1
    <2>2. <<m, n>> \in OpToRel(<, Nat)
      BY <2>1 DEF OpToRel
    <2> QED BY <1>4, <2>1, <2>2
  <1>6. n \in 0 .. L /\ (FullAfter(c, n) => n = L)
    OBVIOUS
  <1>7. /\ Evictions(c) \in 0 .. L
        /\ FullAfter(c, Evictions(c)) => Evictions(c) = L
    BY <1>5, <1>6 DEF Evictions
  <1> QED BY <1>2, <1>7

\* A key that is set is cached, the others as they were or evicted.
LEMMA SetOK ==
    ASSUME NEW c, CacheOK(c), NEW k \in CacheKeys, NEW v
    PROVE  LET d == CacheSet(c, k, v)
           IN  /\ CacheOK(d)
               /\ k \in DOMAIN d.data /\ d.data[k].value = v
               /\ \A j \in DOMAIN d.data \ {k} : j \in DOMAIN c.data /\ d.data[j] = c.data[j]
  <1> DEFINE n == Evictions(c)
             kept == CacheKeep(c, CacheKeys \ First(c, n))
             e == CacheEvict(c)
             d == CacheSet(c, k, v)
             L == Len(c.order)
             K == DOMAIN c.data \ First(c, n)
  <1>1. n \in 0 .. L /\ ~FullAfter(c, n) /\ L \in Nat
    BY EvictionFindsRoom DEF CacheOK
  <1> HIDE DEF n
  <1>2. /\ kept = [data |-> kept.data, order |-> c.order]
        /\ DOMAIN kept.data = K
        /\ \A j \in DOMAIN kept.data : kept.data[j] = c.data[j]
    <2>1. DOMAIN c.data \subseteq CacheKeys
      BY KeysKnown
    <2>2. DOMAIN kept.data = DOMAIN c.data \cap (CacheKeys \ First(c, n))
      BY KeepOK
    <2>3. CacheOK(kept) /\ kept.order = c.order
      BY KeepOK
    <2>4. kept = [data |-> kept.data, order |-> c.order]
      BY <2>3 DEF CacheOK
    <2>5. \A j \in DOMAIN kept.data : kept.data[j] = c.data[j]
      BY KeepOK
    <2> QED BY <2>1, <2>2, <2>4, <2>5
  <1>3. e = [data |-> kept.data, order |-> SubSeq(c.order, n + 1, L)]
    <2>1. e = [kept EXCEPT !.order = SubSeq(c.order, n + 1, L)]
      BY DEF CacheEvict, n
    <2> HIDE DEF e, kept
    <2> QED BY <1>2, <2>1
  <1> HIDE DEF kept
  <1>4. d = [data |-> [j \in DOMAIN e.data \cup {k} |->
                         IF j = k THEN [at |-> now, value |-> v] ELSE e.data[j]],
             order |-> Append(e.order, k)]
    BY DEF CacheSet
  <1> HIDE DEF e, d
  <1>5. /\ DOMAIN d.data = K \cup {k}
        /\ d.data[k].value = v
        /\ \A j \in K \ {k} : d.data[j] = c.data[j]
    BY <1>2, <1>3, <1>4
  <1>6. d = [data |-> d.data, order |-> d.order]
    BY <1>4
  <1> DEFINE rest == SubSeq(c.order, n + 1, L)
  <1>7. /\ rest \in Seq(CacheKeys) /\ Len(rest) = L - n
        /\ \A i \in 1 .. L - n : rest[i] = c.order[n + i]
    BY <1>1 DEF CacheOK
  <1>8. d.order = Append(rest, k)
    BY <1>3, <1>4
  <1> HIDE DEF rest
  <1>9. /\ d.order \in Seq(CacheKeys) /\ Len(d.order) = L - n + 1
        /\ d.order[L - n + 1] = k
        /\ \A i \in 1 .. L - n : d.order[i] = c.order[n + i]
    BY <1>1, <1>7, <1>8
  <1>10. DOMAIN d.data \subseteq First(d, Len(d.order))
    <2> SUFFICES ASSUME NEW j \in K \cup {k} PROVE \E i \in 1 .. L - n + 1 : j = d.order[i]
      BY <1>5, <1>9 DEF First
    <2>1. CASE j = k
      BY <1>1, <1>9, <2>1
    <2>2. CASE j # k
      <3>1. PICK i \in 1 .. L : j = c.order[i]
        BY <2>2 DEF CacheOK, First
      <3>2. ~(i \in 1 .. n)
        BY <2>2, <3>1 DEF First
      <3>3. i - n \in 1 .. L - n /\ n + (i - n) = i
        BY <1>1, <3>1, <3>2
      <3> DEFINE m == i - n
      <3>4. m \in 1 .. L - n /\ n + m = i
        BY <3>3
      <3> HIDE DEF m
      <3>5. d.order[m] = j
        BY <1>9, <3>1, <3>4
      <3>6. m \in 1 .. L - n + 1
        BY <1>1, <3>4
      <3> QED BY <3>5, <3>6
    <2> QED BY <2>1, <2>2
  <1>11. IsFiniteSet(K) /\ Cardinality(K) \in Nat /\ Cardinality(K) < CacheMax
    <2>1. IsFiniteSet(K)
      BY FS_Subset DEF CacheOK
    <2>2. Cardinality(K) \in Nat
      BY <2>1, FS_CardinalityType
    <2> QED BY <1>1, <2>1, <2>2, CacheMaxIsNat DEF FullAfter
  <1>12. IsFiniteSet(DOMAIN d.data) /\ Cardinality(DOMAIN d.data) <= CacheMax
    <2>1. IsFiniteSet(K \cup {k})
          /\ Cardinality(K \cup {k}) = IF k \in K THEN Cardinality(K) ELSE Cardinality(K) + 1
      BY <1>11, FS_AddElement
    <2> QED BY <1>5, <1>11, <2>1, CacheMaxIsNat
  <1>13. CacheOK(d)
    BY <1>6, <1>9, <1>10, <1>12 DEF CacheOK
  <1> QED BY <1>5, <1>13 DEF d

-----------------------------------------------------------------------------
LEMMA InitHolds == Init => ApiInv
  <1> SUFFICES ASSUME Init PROVE ApiInv
    OBVIOUS
  <1>1. cache = [data |-> << >>, order |-> << >>] /\ requests = {} /\ inFlight = 0 /\ tampers = 0
    BY DEF Init
  <1>2. DOMAIN cache.data = {} /\ cache.order = << >>
    BY <1>1
  <1>3. CacheOK(cache)
    BY <1>1, <1>2, FS_EmptySet, CacheMaxIsNat DEF CacheOK
  <1>4. GuardExact
    BY <1>1, FS_EmptySet, CacheMaxIsNat DEF GuardExact
  <1>5. CachedIsCurrent
    BY <1>2 DEF CachedIsCurrent
  <1> QED BY <1>1, <1>3, <1>4, <1>5 DEF ApiInv

\* A request that is answered leaves the guard right.
LEMMA ReleaseKeeps ==
    ASSUME GuardExact, NEW r, Release(r)
    PROVE  GuardExact'
  <1>1. /\ IsFiniteSet(requests \ {r})
        /\ Cardinality(requests \ {r}) = Cardinality(requests) - 1
    BY FS_RemoveElement DEF GuardExact, Release
  <1>2. Cardinality(requests) \in Nat /\ Cardinality(requests \ {r}) \in Nat
    BY <1>1, FS_CardinalityType DEF GuardExact
  <1> QED BY <1>1, <1>2, CacheMaxIsNat DEF GuardExact, Release

LEMMA ArriveKeeps ==
    ASSUME GuardExact, NEW r, Arrive(r)
    PROVE  GuardExact'
  <1>1. /\ IsFiniteSet(requests \cup {r})
        /\ Cardinality(requests \cup {r}) = Cardinality(requests) + 1
    <2>1. IsFiniteSet(requests) /\ r \notin requests
      BY DEF GuardExact, Arrive
    <2> QED BY <2>1, FS_AddElement
  <1>2. Cardinality(requests) \in Nat
    BY FS_CardinalityType DEF GuardExact
  <1>3. \/ requests' = requests \cup {r} /\ inFlight' = inFlight + 1
        \/ requests' = requests /\ inFlight' = inFlight
    BY DEF Arrive
  <1>4. inFlight < MaxConcurrent
    BY DEF Arrive
  <1>5. CASE requests' = requests \cup {r} /\ inFlight' = inFlight + 1
    <2>1. inFlight' = Cardinality(requests') /\ inFlight' <= MaxConcurrent
      BY <1>1, <1>2, <1>4, <1>5, CacheMaxIsNat DEF GuardExact
    <2> QED BY <1>1, <1>5, <2>1 DEF GuardExact
  <1>6. CASE requests' = requests /\ inFlight' = inFlight
    BY <1>6 DEF GuardExact
  <1> QED BY <1>3, <1>5, <1>6

\* Steps that neither touch the database nor cache an answer keep every cached
\* answer as current as it was.
LEMMA StaysCurrent ==
    ASSUME CachedIsCurrent, db' = db, tampers' = tampers,
           DOMAIN cache'.data \subseteq DOMAIN cache.data,
           \A k \in DOMAIN cache'.data : cache'.data[k] = cache.data[k],
           \A k \in DOMAIN cache'.data : k \in dropping => k \in dropping'
    PROVE  CachedIsCurrent'
  <1>1. \A k : Answer(k)' = Answer(k)
    BY DEF Answer
  <1> QED BY <1>1 DEF CachedIsCurrent

\* An answer read from the cache or freshly computed and cached.
LEMMA GetKeeps ==
    ASSUME CacheOK(cache), CachedIsCurrent, NEW r, NEW k \in CacheKeys, Get(r, k)
    PROVE  CacheOK(cache)' /\ CachedIsCurrent'
  <1>1. db' = db /\ tampers' = tampers /\ dropping' = dropping
    BY DEF Get, boundVars
  <1>2. CASE CacheHit(cache, k)
    <2>1. cache' = cache
      BY <1>2 DEF Get
    <2> QED BY <1>1, <2>1, StaysCurrent DEF CacheOK, First
  <1>3. CASE ~CacheHit(cache, k)
    <2> DEFINE c == CacheDrop(cache, k)
               d == CacheSet(c, k, Answer(k))
    <2>1. cache' = d
      BY <1>3 DEF Get
    <2>2. CacheOK(c) /\ DOMAIN c.data \subseteq DOMAIN cache.data
          /\ \A j \in DOMAIN c.data : c.data[j] = cache.data[j]
      BY KeepOK DEF CacheDrop
    <2> HIDE DEF c
    <2>3. /\ CacheOK(d)
          /\ k \in DOMAIN d.data /\ d.data[k].value = Answer(k)
          /\ \A j \in DOMAIN d.data \ {k} : j \in DOMAIN c.data /\ d.data[j] = c.data[j]
      BY <2>2, SetOK
    <2> HIDE DEF d
    <2>4. \A j : Answer(j)' = Answer(j)
      BY <1>1 DEF Answer
    <2>5. CachedIsCurrent'
      <3> SUFFICES ASSUME NEW j \in DOMAIN d.data, j[1] \in {"trust", "status"},
                          d.data[j].value # Answer(j)
                   PROVE  j \in dropping \/ tampers > 0
        BY <1>1, <2>1, <2>4 DEF CachedIsCurrent
      <3>1. j # k
        BY <2>3
      <3>2. j \in DOMAIN cache.data /\ d.data[j] = cache.data[j]
        BY <2>2, <2>3, <3>1
      <3> QED BY <3>2 DEF CachedIsCurrent
    <2>6. CacheOK(cache)'
      BY <2>1, <2>3 DEF CacheOK, First
    <2> QED BY <2>5, <2>6
  <1> QED BY <1>2, <1>3

\* A batch changes the answers it starts invalidations for, and the ones that
\* CachedIsCurrent says nothing about.
LEMMA FlushKeeps ==
    ASSUME CacheOK(cache), CachedIsCurrent, Flush
    PROVE  CachedIsCurrent'
  <1>1. /\ cache' = cache /\ tampers' = tampers
        /\ db' = Written(db, batch) /\ dropping' = dropping \cup Invalidated(batch)
    BY DEF Flush, boundVars
  <1> SUFFICES ASSUME NEW k \in DOMAIN cache.data, k[1] \in {"trust", "status"},
                      cache.data[k].value # Answer(k)'
               PROVE  k \in dropping' \/ tampers > 0
    BY <1>1 DEF CachedIsCurrent
  <1>2. k \in CacheKeys
    BY KeysKnown
  <1>3. CASE k = StatusKey
    BY <1>1, <1>3 DEF Invalidated
  <1>4. CASE \E a \in Actors : k = TrustKey(a)
    <2>1. PICK a \in Actors : k = TrustKey(a)
      BY <1>4
    <2>2. CASE Of(batch, a) = {}
      <3>1. db'.actors[a] = db.actors[a]
        BY <1>1, <2>2 DEF Written
      <3>2. Answer(k)' = Answer(k)
        BY <2>1, <3>1 DEF Answer, TrustKey
      <3> QED BY <1>1, <3>2 DEF CachedIsCurrent
    <2>3. CASE Of(batch, a) # {}
      <3>1. PICK i \in DOMAIN batch : batch[i].actor = a
        BY <2>3 DEF Of
      <3>2. k \in Invalidated(batch)
        BY <2>1, <3>1 DEF Invalidated
      <3> QED BY <1>1, <3>2
    <2> QED BY <2>2, <2>3
  <1>5. \/ k = StatusKey \/ \E a \in Actors : k = TrustKey(a)
    BY <1>2 DEF CacheKeys, TrustKey, HistoryKey, LeaderboardKey, StatusKey
  <1> QED BY <1>3, <1>4, <1>5

LEMMA StepHolds == ApiInv /\ [Next]_vars => ApiInv'
  <1> SUFFICES ASSUME ApiInv, [Next]_vars PROVE ApiInv'
    OBVIOUS
  <1>0. CacheOK(cache) /\ GuardExact /\ tampers \in Nat /\ CachedIsCurrent
    BY DEF ApiInv
  <1> USE DEF loopVars, historyVars, boundVars
  <1>1. ASSUME NEW r \in Requests, NEW k \in CacheKeys, Get(r, k) PROVE ApiInv'
    <2>1. Release(r) /\ tampers' = tampers
      BY <1>1 DEF Get
    <2> QED BY <1>0, <1>1, <2>1, GetKeeps, ReleaseKeeps DEF ApiInv
  <1>2. CASE Flush
    <2>1. UNCHANGED <<cache, requests, inFlight, tampers>>
      BY <1>2 DEF Flush
    <2> QED BY <1>0, <1>2, <2>1, FlushKeeps DEF ApiInv, GuardExact, CacheOK, First
  <1>3. ASSUME NEW k \in dropping, Invalidate(k) PROVE ApiInv'
    <2>1. UNCHANGED <<requests, inFlight, tampers, db>> /\ dropping' = dropping \ {k}
          /\ cache' = CacheDrop(cache, k)
      BY <1>3 DEF Invalidate
    <2>2. /\ CacheOK(cache') /\ DOMAIN cache'.data = DOMAIN cache.data \cap (CacheKeys \ {k})
          /\ \A j \in DOMAIN cache'.data : cache'.data[j] = cache.data[j]
      BY <1>0, <2>1, KeepOK DEF CacheDrop
    <2>3. CachedIsCurrent'
      BY <1>0, <2>1, <2>2, StaysCurrent
    <2>4. GuardExact' /\ CacheOK(cache)'
      BY <1>0, <2>1, <2>2 DEF GuardExact, CacheOK, First
    <2> QED BY <1>0, <2>1, <2>3, <2>4 DEF ApiInv
  <1>4. CASE Stop
    <2>1. /\ cache' = [data |-> << >>, order |-> << >>] /\ requests' = {} /\ inFlight' = 0
          /\ tampers' = tampers
      BY <1>4 DEF Stop
    <2>2. DOMAIN cache'.data = {} /\ cache'.order = << >>
      BY <2>1
    <2>3. CacheOK(cache)'
      BY <2>1, <2>2, FS_EmptySet, CacheMaxIsNat DEF CacheOK
    <2>4. GuardExact'
      BY <2>1, FS_EmptySet, CacheMaxIsNat DEF GuardExact
    <2>5. CachedIsCurrent'
      BY <2>2 DEF CachedIsCurrent
    <2> QED BY <1>0, <2>1, <2>3, <2>4, <2>5 DEF ApiInv
  <1>5. ASSUME NEW a \in Actors, Tamper(a) PROVE ApiInv'
    <2>1. UNCHANGED <<cache, requests, inFlight>> /\ tampers' = tampers + 1
      BY <1>5 DEF Tamper
    <2>2. tampers' \in Nat /\ tampers' > 0
      BY <1>0, <2>1
    <2> QED BY <1>0, <2>1, <2>2 DEF ApiInv, CachedIsCurrent, GuardExact, CacheOK, First
  \* Steps that leave the cache and the database alone.
  <1>6. ASSUME UNCHANGED <<cache, db, tampers>>, dropping \subseteq dropping', GuardExact'
        PROVE  ApiInv'
    <2>1. CachedIsCurrent'
      BY <1>0, <1>6, StaysCurrent
    <2>2. CacheOK(cache)'
      BY <1>0, <1>6 DEF CacheOK, First
    <2> QED BY <1>0, <1>6, <2>1, <2>2 DEF ApiInv
  <1>7. ASSUME NEW r \in Requests, Arrive(r) PROVE ApiInv'
    <2>1. UNCHANGED <<cache, db, tampers, dropping>>
      BY <1>7 DEF Arrive
    <2> QED BY <1>0, <1>6, <1>7, <2>1, ArriveKeeps
  <1>8. ASSUME NEW r \in Requests,
               \/ Refuse(r)
               \/ \E k \in ApiKeys, a \in Actors : Submit(r, k, a)
        PROVE  ApiInv'
    <2>1. Release(r) /\ UNCHANGED <<cache, db, tampers, dropping>>
      BY <1>8 DEF Refuse, Submit
    <2> QED BY <1>0, <1>6, <2>1, ReleaseKeeps
  <1>9. ASSUME UNCHANGED <<cache, db, tampers, requests, inFlight>>, dropping \subseteq dropping'
        PROVE  ApiInv'
    BY <1>0, <1>6, <1>9 DEF GuardExact
  <1>10. CASE \/ \E k \in ApiKeys, scope \in SUBSET Actors : MintKey(k, scope)
              \/ Collect \/ Starting \/ SelectEvents \/ SelectStats \/ SelectActors
              \/ \E recorded \in BOOLEAN : RecordVerdict(recorded)
              \/ Tick \/ UNCHANGED vars
    <2>1. UNCHANGED <<cache, db, tampers, requests, inFlight, dropping>>
      BY <1>10 DEF MintKey, Collect, Starting, SelectEvents, SelectStats, SelectActors,
                   RecordVerdict, Tick, vars
    <2> QED BY <1>9, <2>1
  <1>11. CASE FlushFails
    <2>1. UNCHANGED <<cache, db, tampers, requests, inFlight>> /\ dropping \subseteq dropping'
      BY <1>11 DEF FlushFails
    <2> QED BY <1>9, <2>1
  <1> QED BY <1>1, <1>2, <1>3, <1>4, <1>5, <1>7, <1>8, <1>10, <1>11 DEF Next

LEMMA Inductive == Spec => []ApiInv
  BY InitHolds, StepHolds, PTL DEF Spec

-----------------------------------------------------------------------------
\* A cached trust or status answer that differs from the database is about to be
\* dropped, unless somebody edited the file (_flush and its invalidate tasks).
THEOREM Current == Spec => []CachedIsCurrent
  <1>1. ApiInv => CachedIsCurrent
    BY DEF ApiInv
  <1> QED BY Inductive, <1>1, PTL

\* The capacity guard counts the requests being served, and the cache never
\* outgrows its bound, whatever is invalidated or cached twice (CapacityGuard,
\* TTLCache.set).
THEOREM Bounded == Spec => [](InFlightExact /\ CacheBounded)
  <1>1. ApiInv => InFlightExact /\ CacheBounded
    BY DEF ApiInv, GuardExact, CacheOK, InFlightExact, CacheBounded
  <1> QED BY Inductive, <1>1, PTL

-----------------------------------------------------------------------------
(* Counting the events of an actor in a sequence.                          *)

LEMMA IntervalCount ==
    ASSUME NEW n \in Nat
    PROVE  IsFiniteSet(1 .. n) /\ Cardinality(1 .. n) = n
  <1>1. IsFiniteSet(1 .. n) /\ Cardinality(1 .. n) = IF 1 > n THEN 0 ELSE n - 1 + 1
    BY FS_Interval
  <1> QED BY <1>1

\* A set of whole numbers moved by n has as many members.
LEMMA MovedSet ==
    ASSUME NEW S \in SUBSET Int, IsFiniteSet(S), NEW n \in Int,
           NEW T \in SUBSET Int, \A j \in T : j + n \in S, \A i \in S : i - n \in T
    PROVE  IsFiniteSet(T) /\ Cardinality(T) = Cardinality(S)
  <1> DEFINE f == [i \in S |-> i - n]
  <1>1. f \in Bijection(S, T)
    <2>1. f \in [S -> T] /\ \A j \in T : \E i \in S : f[i] = j
      <3>1. \A j \in T : j + n \in S /\ f[j + n] = j
        OBVIOUS
      <3> QED BY <3>1
    <2>2. \A i, j \in S : f[i] = f[j] => i = j
      OBVIOUS
    <2> HIDE DEF f
    <2> QED BY <2>1, <2>2 DEF Bijection, Injection, Surjection, IsInjective
  <1>2. ExistsBijection(S, T)
    BY <1>1 DEF ExistsBijection
  <1> QED BY <1>2, FS_Bijection

LEMMA OfFinite ==
    ASSUME NEW R, NEW s \in Seq(R), NEW a
    PROVE  /\ Of(s, a) \in SUBSET Nat /\ IsFiniteSet(Of(s, a))
           /\ Cardinality(Of(s, a)) \in Nat
  <1>1. Len(s) \in Nat /\ DOMAIN s = 1 .. Len(s)
    OBVIOUS
  <1>2. IsFiniteSet(1 .. Len(s))
    BY <1>1, FS_Interval
  <1>3. Of(s, a) \in SUBSET (1 .. Len(s))
    BY <1>1 DEF Of
  <1>4. IsFiniteSet(Of(s, a))
    BY <1>2, <1>3, FS_Subset
  <1> QED BY <1>1, <1>3, <1>4, FS_CardinalityType

LEMMA OfEmpty == \A a : Of(<< >>, a) = {} /\ Cardinality(Of(<< >>, a)) = 0
  BY FS_EmptySet DEF Of

\* One event more is counted for its actor and for nobody else.
LEMMA OfAppend ==
    ASSUME NEW R, NEW s \in Seq(R), NEW e \in R, NEW a
    PROVE  Cardinality(Of(Append(s, e), a))
             = Cardinality(Of(s, a)) + (IF e.actor = a THEN 1 ELSE 0)
  <1> DEFINE t == Append(s, e)
             n == Len(s) + 1
  <1>1. Len(s) \in Nat /\ DOMAIN s = 1 .. Len(s) /\ DOMAIN t = DOMAIN s \cup {n}
        /\ t[n] = e /\ (\A i \in DOMAIN s : t[i] = s[i]) /\ n \notin DOMAIN s
    OBVIOUS
  <1>2. IsFiniteSet(Of(s, a)) /\ Cardinality(Of(s, a)) \in Nat
    BY OfFinite
  <1> HIDE DEF t, n
  <1>3. CASE e.actor = a
    <2>1. Of(t, a) = Of(s, a) \cup {n} /\ n \notin Of(s, a)
      BY <1>1, <1>3 DEF Of
    <2> QED BY <1>2, <1>3, <2>1, FS_AddElement DEF t
  <1>4. CASE e.actor # a
    <2>1. Of(t, a) = Of(s, a)
      BY <1>1, <1>4 DEF Of
    <2> QED BY <1>2, <1>4, <2>1 DEF t
  <1> QED BY <1>3, <1>4

\* What is taken from the front is counted no more.
LEMMA OfTail ==
    ASSUME NEW R, NEW s \in Seq(R), s # << >>, NEW a
    PROVE  Cardinality(Of(s, a))
             = Cardinality(Of(Tail(s), a)) + (IF Head(s).actor = a THEN 1 ELSE 0)
  <1> DEFINE t == Tail(s)
             L == Len(s)
             S == Of(s, a) \ {1}
  <1>1. L \in Nat \ {0} /\ DOMAIN s = 1 .. L /\ t \in Seq(R) /\ DOMAIN t = 1 .. L - 1
        /\ Head(s) = s[1] /\ \A i \in 1 .. L - 1 : t[i] = s[i + 1]
    OBVIOUS
  <1>2. Of(s, a) \in SUBSET Nat /\ IsFiniteSet(Of(s, a)) /\ Cardinality(Of(s, a)) \in Nat
    BY OfFinite
  <1> HIDE DEF t, L
  <1>3. /\ Of(t, a) \in SUBSET Int
        /\ \A j \in Of(t, a) : j + 1 \in S
        /\ \A i \in S : i - 1 \in Of(t, a)
    <2>1. ASSUME NEW j \in Of(t, a) PROVE j \in Int /\ j + 1 \in S
      <3>1. j \in 1 .. L - 1 /\ t[j].actor = a
        BY <1>1 DEF Of
      <3> QED BY <1>1, <3>1 DEF Of
    <2>2. ASSUME NEW i \in S PROVE i - 1 \in Of(t, a)
      <3>1. i \in 2 .. L /\ s[i].actor = a
        BY <1>1 DEF Of
      <3>2. i - 1 \in 1 .. L - 1 /\ (i - 1) + 1 = i
        BY <1>1, <3>1
      <3>3. t[i - 1] = s[i]
        BY <1>1, <3>2
      <3> QED BY <1>1, <3>1, <3>2, <3>3 DEF Of
    <2> QED BY <2>1, <2>2
  <1>4. IsFiniteSet(S) /\ S \in SUBSET Int /\ Cardinality(S) \in Nat
    BY <1>2, FS_Subset, FS_CardinalityType
  <1>5. Cardinality(Of(t, a)) = Cardinality(S)
    <2>1. Of(t, a) \in SUBSET Int /\ 1 \in Int
      BY <1>3
    <2> HIDE DEF S
    <2> QED BY <1>3, <1>4, <2>1, MovedSet
  <1>6. CASE Head(s).actor = a
    <2>1. 1 \in Of(s, a)
      BY <1>1, <1>6 DEF Of
    <2>2. Cardinality(S) = Cardinality(Of(s, a)) - 1
      BY <1>2, <2>1, FS_RemoveElement
    <2> QED BY <1>2, <1>5, <1>6, <2>2 DEF t
  <1>7. CASE Head(s).actor # a
    <2>1. 1 \notin Of(s, a)
      BY <1>1, <1>7 DEF Of
    <2>2. Cardinality(S) = Cardinality(Of(s, a))
      <3>1. S = Of(s, a)
        BY <2>1
      <3> QED BY <3>1
    <2> HIDE DEF S
    <2> QED BY <1>4, <1>5, <1>7, <2>2 DEF t
  <1> QED BY <1>6, <1>7

\* The events of two sequences, one after the other.
LEMMA OfConcat ==
    ASSUME NEW R, NEW s \in Seq(R), NEW t \in Seq(R), NEW a
    PROVE  Cardinality(Of(s \o t, a)) = Cardinality(Of(s, a)) + Cardinality(Of(t, a))
  <1> DEFINE u == s \o t
             L == Len(s)
             M == Len(t)
             S == {i \in Of(u, a) : i > L}
  <1>1. L \in Nat /\ M \in Nat /\ DOMAIN s = 1 .. L /\ DOMAIN t = 1 .. M
        /\ u \in Seq(R) /\ DOMAIN u = 1 .. L + M
        /\ (\A i \in 1 .. L : u[i] = s[i]) /\ \A i \in 1 .. M : u[L + i] = t[i]
    OBVIOUS
  <1>2. Of(u, a) \in SUBSET Nat /\ IsFiniteSet(Of(u, a)) /\ IsFiniteSet(Of(s, a))
        /\ Of(s, a) \in SUBSET Nat
        /\ Cardinality(Of(s, a)) \in Nat /\ Cardinality(Of(t, a)) \in Nat
    BY <1>1, OfFinite
  <1> HIDE DEF u, L, M
  <1>3. /\ Of(t, a) \in SUBSET Int
        /\ \A j \in Of(t, a) : j + L \in S
        /\ \A i \in S : i - L \in Of(t, a)
    <2>1. ASSUME NEW j \in Of(t, a) PROVE j \in Int /\ j + L \in S
      <3>1. j \in 1 .. M /\ t[j].actor = a
        BY <1>1 DEF Of
      <3>2. L + j \in 1 .. L + M /\ L + j > L /\ j + L = L + j /\ u[L + j] = t[j]
        BY <1>1, <3>1
      <3> QED BY <1>1, <3>1, <3>2 DEF Of
    <2>2. ASSUME NEW i \in S PROVE i - L \in Of(t, a)
      <3>1. i \in 1 .. L + M /\ i > L /\ u[i].actor = a
        BY <1>1 DEF Of
      <3>2. i - L \in 1 .. M /\ L + (i - L) = i
        BY <1>1, <3>1
      <3>3. t[i - L] = u[i]
        BY <1>1, <3>2
      <3> QED BY <1>1, <3>1, <3>2, <3>3 DEF Of
    <2> QED BY <2>1, <2>2
  <1>4. IsFiniteSet(S) /\ S \in SUBSET Int /\ Cardinality(S) \in Nat
    BY <1>2, FS_Subset, FS_CardinalityType
  <1>5. Cardinality(Of(t, a)) = Cardinality(S)
    <2>1. L \in Int
      BY <1>1
    <2> HIDE DEF S
    <2> QED BY <1>3, <1>4, <2>1, MovedSet
  <1>6. Of(u, a) = Of(s, a) \cup S
    BY <1>1 DEF Of
  <1>7. Of(s, a) \cap S = {}
    BY <1>1 DEF Of
  <1>8. Cardinality(Of(s, a) \cap S) = 0
    BY <1>7, FS_EmptySet
  <1>9. Cardinality(Of(u, a)) = Cardinality(Of(s, a)) + Cardinality(S) - 0
    BY <1>2, <1>4, <1>6, <1>8, FS_Union
  <1> QED BY <1>2, <1>4, <1>5, <1>9 DEF u

-----------------------------------------------------------------------------
(* What a batch adds to the stored totals.                                 *)

LEMMA ActorsFinite == IsFiniteSet(Actors)
  BY ApiAssumption

LEMMA EventsTyped ==
    ASSUME NEW ev \in Events
    PROVE  /\ Len(ev) \in Nat /\ DOMAIN ev = 1 .. Len(ev)
           /\ IsFiniteSet(DOMAIN ev) /\ Cardinality(DOMAIN ev) = Len(ev)
           /\ \A i \in DOMAIN ev : ev[i].actor \in Actors /\ ev[i].minted \in Nat
  <1> DEFINE E == [actor : Actors, minted : Nat]
  <1>1. ev \in Seq(E)
    BY DEF Events
  <1> HIDE DEF E
  <1>2. Len(ev) \in Nat /\ DOMAIN ev = 1 .. Len(ev) /\ \A i \in 1 .. Len(ev) : ev[i] \in E
    BY <1>1
  <1>3. IsFiniteSet(1 .. Len(ev)) /\ Cardinality(1 .. Len(ev)) = Len(ev)
    BY <1>2, IntervalCount
  <1>4. \A i \in DOMAIN ev : ev[i].actor \in Actors /\ ev[i].minted \in Nat
    BY <1>2 DEF E
  <1> QED BY <1>2, <1>3, <1>4

LEMMA MintedIsNat ==
    ASSUME NEW ev \in Events, NEW rows \in SUBSET DOMAIN ev
    PROVE  MintedIn(ev, rows) \in Nat
  <1>2. IsFiniteSet(rows)
    BY EventsTyped, FS_Subset
  <1>3. \A i \in DOMAIN ev : ev[i].minted \in Nat
    BY EventsTyped
  <1> DEFINE f == [i \in DOMAIN ev |-> ev[i].minted]
  <1>4. \A i \in rows : f[i] \in Nat
    BY <1>3
  <1> HIDE DEF f
  <1>5. SumFunctionOnSet(f, rows) \in Nat
    BY <1>2, <1>4, SumNat
  <1> QED BY <1>5 DEF f, MintedIn

LEMMA NoneOfNobody ==
    ASSUME NEW ev \in Events, NEW a, Of(ev, a) = {}
    PROVE  Cardinality(Of(ev, a)) = 0 /\ MintedOf(ev, a) = 0
  BY FS_EmptySet, SumEmpty DEF MintedOf, MintedIn

LEMMA TotalEvents ==
    ASSUME NEW d \in Database, NEW ev \in Events
    PROVE  Total(Written(d, ev).events) = Total(d.events) + Len(ev)
  <1> DEFINE S == DOMAIN ev
             ones == [i \in S |-> 1]
             who == [i \in S |-> ev[i].actor]
             rows == [a \in Actors |-> Of(ev, a)]
             counts == [a \in Actors |-> Cardinality(Of(ev, a))]
             new == Written(d, ev).events
  <1>1. Len(ev) \in Nat /\ S = 1 .. Len(ev) /\ IsFiniteSet(S) /\ Cardinality(S) = Len(ev)
    BY EventsTyped
  <1>2. \A i \in S : ev[i].actor \in Actors /\ ev[i].minted \in Nat
    BY EventsTyped
  <1>3. \A a \in Actors : IsFiniteSet(Of(ev, a)) /\ Cardinality(Of(ev, a)) \in Nat
    BY OfFinite DEF Events
  <1>4. \A i \in S : ones[i] \in Int /\ ones[i] = 1 /\ who[i] \in Actors
    BY <1>2
  <1>5. \A a \in Actors : /\ rows[a] = Of(ev, a) /\ rows[a] \in SUBSET S
                            /\ \A i \in S : i \in rows[a] <=> who[i] = a
    BY DEF Of
  <1>6. new = [a \in Actors |-> d.events[a] + counts[a]]
    BY DEF Written
  <1>7. d.events \in [Actors -> Nat]
    BY DEF Database
  <1>8. \A a \in Actors : counts[a] = Cardinality(Of(ev, a)) /\ counts[a] \in Nat
    BY <1>3
  <1> HIDE DEF ones, who, rows, counts, new, S
  <1>9. \A a \in Actors : counts[a] = SumFunctionOnSet(ones, rows[a])
    <2> TAKE a \in Actors
    <2>1. \A i \in Of(ev, a) : ones[i] = 1
      BY <1>4, <1>5
    <2>2. SumFunctionOnSet(ones, Of(ev, a)) = Cardinality(Of(ev, a))
      BY <1>3, <2>1, SumOnes
    <2> QED BY <1>5, <1>8, <2>2
  <1>10. SumFunctionOnSet(counts, Actors) = SumFunctionOnSet(ones, S)
    <2>1. \A y \in S : ones[y] \in Int /\ who[y] \in Actors
      BY <1>4
    <2>2. \A a \in Actors : rows[a] \in SUBSET S /\ \A i \in S : i \in rows[a] <=> who[i] = a
      BY <1>5
    <2>3. IsFiniteSet(S)
      BY <1>1
    <2> QED BY <1>9, <2>2, <2>3, <2>1, ActorsFinite, SumByClass
  <1>11. SumFunctionOnSet(ones, S) = Len(ev)
    BY <1>1, <1>4, SumOnes
  <1>12. SumFunctionOnSet(new, Actors)
           = SumFunctionOnSet(d.events, Actors) + SumFunctionOnSet(counts, Actors)
    <2>1. \A a \in Actors : d.events[a] \in Int /\ counts[a] \in Int
                            /\ new[a] = d.events[a] + counts[a]
      BY <1>6, <1>7, <1>8
    <2> QED BY <2>1, ActorsFinite, SumPlus
  <1> QED BY <1>10, <1>11, <1>12 DEF Total, new

LEMMA TotalMinted ==
    ASSUME NEW d \in Database, NEW ev \in Events
    PROVE  Total(Written(d, ev).minted) = Total(d.minted) + MintedIn(ev, DOMAIN ev)
  <1> DEFINE S == DOMAIN ev
             amount == [i \in S |-> ev[i].minted]
             who == [i \in S |-> ev[i].actor]
             rows == [a \in Actors |-> Of(ev, a)]
             mints == [a \in Actors |-> MintedOf(ev, a)]
             new == Written(d, ev).minted
  <1>1. IsFiniteSet(S)
    BY EventsTyped
  <1>2. \A i \in S : ev[i].actor \in Actors /\ ev[i].minted \in Nat
    BY EventsTyped
  <1>3. \A i \in S : amount[i] \in Int /\ who[i] \in Actors
    BY <1>2
  <1>4. \A a \in Actors : /\ rows[a] = Of(ev, a) /\ rows[a] \in SUBSET S
                            /\ \A i \in S : i \in rows[a] <=> who[i] = a
    BY DEF Of
  <1>5. \A a \in Actors : mints[a] = SumFunctionOnSet(amount, Of(ev, a))
    BY DEF MintedOf, MintedIn
  <1>6. \A a \in Actors : mints[a] \in Nat
    <2> TAKE a \in Actors
    <2>1. Of(ev, a) \in SUBSET DOMAIN ev
      BY DEF Of
    <2> QED BY <2>1, MintedIsNat DEF MintedOf
  <1>7. new = [a \in Actors |-> d.minted[a] + mints[a]]
    BY DEF Written
  <1>8. d.minted \in [Actors -> Int]
    BY DEF Database
  <1>9. MintedIn(ev, S) = SumFunctionOnSet(amount, S)
    BY DEF MintedIn
  <1> HIDE DEF amount, who, rows, mints, new, S
  <1>10. SumFunctionOnSet(mints, Actors) = SumFunctionOnSet(amount, S)
    <2>1. \A a \in Actors : mints[a] = SumFunctionOnSet(amount, rows[a])
      BY <1>4, <1>5
    <2> QED BY <1>1, <1>3, <1>4, <2>1, ActorsFinite, SumByClass
  <1>11. SumFunctionOnSet(new, Actors)
           = SumFunctionOnSet(d.minted, Actors) + SumFunctionOnSet(mints, Actors)
    <2>1. \A a \in Actors : d.minted[a] \in Int /\ mints[a] \in Int
                            /\ new[a] = d.minted[a] + mints[a]
      BY <1>6, <1>7, <1>8
    <2> QED BY <2>1, ActorsFinite, SumPlus
  <1> QED BY <1>9, <1>10, <1>11 DEF Total, new, S

-----------------------------------------------------------------------------
(* The books: what is stored, queued, lost, and what a reconcile has seen. *)

\* Every stored total is what the events behind it add up to.
Tied(d) ==
    /\ d.stats.events = Total(d.events) /\ d.stats.mined = Total(d.minted)
    /\ \A a \in Actors : /\ d.actors[a].score = d.minted[a]
                         /\ d.actors[a].count = d.events[a]
                         /\ ~d.actors[a].known => d.events[a] = 0

Waiting(a) == Cardinality(Of(queue, a)) + Cardinality(Of(batch, a))

BooksTyped ==
    /\ queue \in Events /\ batch \in Events /\ db \in Database
    /\ tally \in [Actors -> Nat] /\ lost \in [Actors -> Nat] /\ tampers \in Nat

BooksRight ==
    tampers = 0 => /\ Tied(db)
                   /\ \A a \in Actors : tally[a] = Waiting(a) + db.events[a] + lost[a]

\* What a reconcile has in hand is about the version its first SELECT saw.
ReconOK ==
    /\ recon.pc \in {"idle", "stats", "actors", "record"} /\ recon.boot \in BOOLEAN
    /\ recon.pc = "stats" =>
         recon.events = Total(recon.snap.events) /\ recon.minted = Total(recon.snap.minted)
    /\ recon.pc = "actors" =>
         /\ recon = [pc |-> recon.pc, boot |-> recon.boot, snap |-> recon.snap, ok |-> recon.ok]
         /\ recon.ok <=> recon.snap.stats = [events |-> Total(recon.snap.events),
                                             mined |-> Total(recon.snap.minted)]
    /\ recon.pc = "record" => (recon.ok <=> Consistent(recon.snap))

BooksInv == BooksTyped /\ BooksRight /\ ReconOK

LEMMA TotalOfNat == ASSUME NEW f \in [Actors -> Nat] PROVE Total(f) \in Nat
  <1>1. \A a \in Actors : f[a] \in Nat
    OBVIOUS
  <1> QED BY <1>1, ActorsFinite, SumNat DEF Total

LEMMA OfEventsFinite ==
    ASSUME NEW ev \in Events, NEW a
    PROVE  IsFiniteSet(Of(ev, a)) /\ Cardinality(Of(ev, a)) \in Nat
  <1> DEFINE E == [actor : Actors, minted : Nat]
  <1>1. ev \in Seq(E)
    BY DEF Events
  <1> QED BY <1>1, OfFinite

LEMMA MintedOfIsNat == ASSUME NEW ev \in Events, NEW a PROVE MintedOf(ev, a) \in Nat
  <1>1. Of(ev, a) \in SUBSET DOMAIN ev
    BY DEF Of
  <1> QED BY <1>1, MintedIsNat DEF MintedOf

LEMMA DatabaseFields ==
    ASSUME NEW d
    PROVE  d \in Database <=>
             /\ d = [events |-> d.events, minted |-> d.minted,
                     actors |-> d.actors, stats |-> d.stats]
             /\ d.events \in [Actors -> Nat] /\ d.minted \in [Actors -> Int]
             /\ d.actors \in [Actors -> [score : Nat, count : Nat, known : BOOLEAN]]
             /\ d.stats \in [events : Nat, mined : Nat]
  BY DEF Database

LEMMA WrittenTyped ==
    ASSUME NEW d \in Database, NEW ev \in Events
    PROVE  Written(d, ev) \in Database
  <1> DEFINE w == Written(d, ev)
  <1>1. /\ d.events \in [Actors -> Nat] /\ d.minted \in [Actors -> Int]
        /\ d.actors \in [Actors -> [score : Nat, count : Nat, known : BOOLEAN]]
        /\ d.stats \in [events : Nat, mined : Nat]
    BY DatabaseFields
  <1>2. \A a \in Actors : Cardinality(Of(ev, a)) \in Nat /\ MintedOf(ev, a) \in Nat
    BY OfEventsFinite, MintedOfIsNat
  <1>3. Len(ev) \in Nat /\ MintedIn(ev, DOMAIN ev) \in Nat
    BY EventsTyped, MintedIsNat
  <1>4. w.events \in [Actors -> Nat]
    BY <1>1, <1>2 DEF Written
  <1>5. w.minted \in [Actors -> Int]
    BY <1>1, <1>2 DEF Written
  <1>6. w.actors \in [Actors -> [score : Nat, count : Nat, known : BOOLEAN]]
    <2> DEFINE R == [score : Nat, count : Nat, known : BOOLEAN]
    <2>1. \A a \in Actors : d.actors[a] \in R /\ d.actors[a].score \in Nat /\ d.actors[a].count \in Nat
      BY <1>1
    <2>2. \A a \in Actors :
            [score |-> d.actors[a].score + MintedOf(ev, a),
             count |-> d.actors[a].count + Cardinality(Of(ev, a)), known |-> TRUE] \in R
      BY <1>2, <2>1
    <2>3. w.actors = [a \in Actors |->
                   IF Of(ev, a) = {} THEN d.actors[a]
                   ELSE [score |-> d.actors[a].score + MintedOf(ev, a),
                         count |-> d.actors[a].count + Cardinality(Of(ev, a)),
                         known |-> TRUE]]
      BY DEF Written
    <2> HIDE DEF R, w
    <2> QED BY <2>1, <2>2, <2>3 DEF R
  <1>7. w.stats \in [events : Nat, mined : Nat]
    BY <1>1, <1>3 DEF Written
  <1>8. w = [events |-> w.events, minted |-> w.minted, actors |-> w.actors, stats |-> w.stats]
    BY DEF Written
  <1> HIDE DEF w
  <1>9. w \in Database
    BY <1>4, <1>5, <1>6, <1>7, <1>8, DatabaseFields
  <1> QED BY <1>9 DEF w

\* A batch written whole leaves every total tied to the events behind it.
LEMMA WrittenTied ==
    ASSUME NEW d \in Database, NEW ev \in Events, Tied(d)
    PROVE  Tied(Written(d, ev))
  <1> DEFINE w == Written(d, ev)
  <1>1. /\ d.events \in [Actors -> Nat] /\ d.minted \in [Actors -> Int]
        /\ d.actors \in [Actors -> [score : Nat, count : Nat, known : BOOLEAN]]
        /\ d.stats \in [events : Nat, mined : Nat]
    BY DatabaseFields
  <1>2. w.stats.events = Total(w.events) /\ w.stats.mined = Total(w.minted)
    <2>1. w.stats.events = d.stats.events + Len(ev)
          /\ w.stats.mined = d.stats.mined + MintedIn(ev, DOMAIN ev)
      BY DEF Written
    <2> HIDE DEF w
    <2> QED BY <2>1, TotalEvents, TotalMinted DEF Tied, w
  <1>3. ASSUME NEW a \in Actors
        PROVE  /\ w.actors[a].score = w.minted[a] /\ w.actors[a].count = w.events[a]
               /\ ~w.actors[a].known => w.events[a] = 0
    <2>1. /\ d.actors[a].score = d.minted[a] /\ d.actors[a].count = d.events[a]
          /\ ~d.actors[a].known => d.events[a] = 0
          /\ d.events[a] \in Nat /\ d.minted[a] \in Int
      BY <1>1 DEF Tied
    <2>2. /\ w.events[a] = d.events[a] + Cardinality(Of(ev, a))
          /\ w.minted[a] = d.minted[a] + MintedOf(ev, a)
      BY DEF Written
    <2>3. CASE Of(ev, a) = {}
      <3>1. w.actors[a] = d.actors[a]
        BY <2>3 DEF Written
      <3>2. Cardinality(Of(ev, a)) = 0 /\ MintedOf(ev, a) = 0
        BY <2>3, NoneOfNobody
      <3> HIDE DEF w
      <3> QED BY <2>1, <2>2, <3>1, <3>2
    <2>4. CASE Of(ev, a) # {}
      <3>1. /\ w.actors[a].score = d.actors[a].score + MintedOf(ev, a)
            /\ w.actors[a].count = d.actors[a].count + Cardinality(Of(ev, a))
            /\ w.actors[a].known
        BY <2>4 DEF Written
      <3> HIDE DEF w
      <3> QED BY <2>1, <2>2, <3>1
    <2> QED BY <2>3, <2>4
  <1> HIDE DEF w
  <1>4. Tied(w)
    BY <1>2, <1>3 DEF Tied
  <1> QED BY <1>4 DEF w

LEMMA TiedIsConsistent ==
    ASSUME NEW d \in Database, Tied(d)
    PROVE  Consistent(d)
  <1>1. d.stats \in [events : Nat, mined : Nat]
    BY DatabaseFields
  <1>2. d.stats = [events |-> d.stats.events, mined |-> d.stats.mined]
    BY <1>1
  <1>3. d.stats = [events |-> Total(d.events), mined |-> Total(d.minted)]
    BY <1>2 DEF Tied
  <1>4. \A a \in Actors : ActorAgrees(d, a)
    BY DEF Tied, ActorAgrees
  <1> QED BY <1>3, <1>4 DEF Consistent

LEMMA BooksInit == Init => BooksInv
  <1> SUFFICES ASSUME Init PROVE BooksInv
    OBVIOUS
  <1>1. queue = << >> /\ batch = << >> /\ tampers = 0 /\ recon = NoRun
        /\ tally = [a \in Actors |-> 0] /\ lost = [a \in Actors |-> 0]
    BY DEF Init
  <1>2. db = [events |-> [a \in Actors |-> 0], minted |-> [a \in Actors |-> 0],
              actors |-> [a \in Actors |-> NoActor], stats |-> [events |-> 0, mined |-> 0]]
    BY DEF Init
  <1>3. << >> \in Events
    BY DEF Events
  <1>4. db \in Database
    BY <1>2 DEF Database, NoActor
  <1>5. /\ db.events = [a \in Actors |-> 0] /\ db.minted = [a \in Actors |-> 0]
        /\ db.actors = [a \in Actors |-> NoActor] /\ db.stats = [events |-> 0, mined |-> 0]
    BY <1>2
  <1>6. Total([a \in Actors |-> 0]) = 0
    <2> DEFINE z == [a \in Actors |-> 0]
    <2>1. \A a \in Actors : z[a] = 0
      OBVIOUS
    <2> HIDE DEF z
    <2>2. SumFunctionOnSet(z, Actors) = 0
      BY <2>1, ActorsFinite, SumZero
    <2> QED BY <2>2 DEF Total, z
  <1>7. Tied(db)
    BY <1>5, <1>6 DEF Tied, NoActor
  <1>8. \A a \in Actors : Waiting(a) = 0
    BY <1>1, OfEmpty DEF Waiting
  <1>9. BooksRight
    BY <1>1, <1>5, <1>7, <1>8 DEF BooksRight
  <1>10. BooksTyped
    BY <1>1, <1>3, <1>4 DEF BooksTyped
  <1>11. ReconOK
    BY <1>1 DEF ReconOK, NoRun
  <1> QED BY <1>9, <1>10, <1>11 DEF BooksInv

\* Steps that touch neither the books nor the reconcile.
LEMMA BooksStay ==
    ASSUME BooksInv, UNCHANGED <<queue, batch, db, recon, tampers, tally, lost>>
    PROVE  BooksInv'
  BY DEF BooksInv, BooksTyped, BooksRight, Waiting, Of, Tied, Total, ReconOK, Consistent, ActorAgrees

LEMMA ReconStays == ASSUME ReconOK, recon' = recon PROVE ReconOK'
  BY DEF ReconOK, Total, Consistent, ActorAgrees

\* Steps of the reconcile.
LEMMA ReconBooks ==
    ASSUME BooksInv, UNCHANGED <<queue, batch, db, tampers, tally, lost>>, ReconOK'
    PROVE  BooksInv'
  BY DEF BooksInv, BooksTyped, BooksRight, Waiting, Of, Tied, Total

LEMMA SubmitBooks ==
    ASSUME BooksInv, NEW r, NEW k, NEW a \in Actors, Submit(r, k, a)
    PROVE  BooksInv'
  <1> DEFINE e == [actor |-> a, minted |-> Mint]
  <1>1. UNCHANGED <<batch, db, recon, tampers, lost>>
    BY DEF Submit, boundVars
  <1>2. CASE UNCHANGED <<queue, tally>>
    BY <1>1, <1>2, BooksStay
  <1>3. CASE queue' = Append(queue, e) /\ tally' = [tally EXCEPT ![a] = @ + 1]
    <2> DEFINE E == [actor : Actors, minted : Nat]
    <2>1. queue \in Seq(E) /\ e \in E
      BY ApiAssumption DEF BooksInv, BooksTyped, Events
    <2>2. queue' \in Events
      BY <1>3, <2>1 DEF Events
    <2>3. \A b \in Actors : Cardinality(Of(queue', b))
                              = Cardinality(Of(queue, b)) + (IF a = b THEN 1 ELSE 0)
      <3> TAKE b \in Actors
      <3>1. Cardinality(Of(Append(queue, e), b))
              = Cardinality(Of(queue, b)) + (IF e.actor = b THEN 1 ELSE 0)
        BY <2>1, OfAppend
      <3> QED BY <1>3, <3>1
    <2>4. /\ tally \in [Actors -> Nat] /\ lost \in [Actors -> Nat] /\ db.events \in [Actors -> Nat]
          /\ db \in Database /\ batch \in Events /\ queue \in Events /\ tampers \in Nat
      BY DatabaseFields DEF BooksInv, BooksTyped
    <2>5. tally' \in [Actors -> Nat]
          /\ \A b \in Actors : tally'[b] = tally[b] + (IF a = b THEN 1 ELSE 0)
      BY <1>3, <2>4
    <2>6. BooksTyped'
      BY <1>1, <2>2, <2>4, <2>5 DEF BooksTyped, Database, Events
    <2>7. BooksRight'
      <3> SUFFICES ASSUME tampers = 0
                   PROVE  /\ Tied(db)
                          /\ \A b \in Actors : tally'[b] = Waiting(b)' + db.events[b] + lost[b]
        BY <1>1 DEF BooksRight, Tied, Total
      <3>1. Tied(db)
        BY DEF BooksInv, BooksRight
      <3>2. ASSUME NEW b \in Actors PROVE tally'[b] = Waiting(b)' + db.events[b] + lost[b]
        <4>1. tally[b] = Waiting(b) + db.events[b] + lost[b]
          BY DEF BooksInv, BooksRight
        <4>2. Waiting(b)' = Waiting(b) + (IF a = b THEN 1 ELSE 0)
          <5>1. Waiting(b)' = Cardinality(Of(queue', b)) + Cardinality(Of(batch, b))
            BY <1>1 DEF Waiting, Of
          <5>2. Cardinality(Of(queue, b)) \in Nat /\ Cardinality(Of(batch, b)) \in Nat
            BY <2>4, OfEventsFinite
          <5> QED BY <2>3, <5>1, <5>2 DEF Waiting
        <4>3. Waiting(b) \in Nat /\ db.events[b] \in Nat /\ lost[b] \in Nat
          BY <2>4, OfEventsFinite DEF Waiting
        <4> QED BY <2>5, <4>1, <4>2, <4>3
      <3> QED BY <3>1, <3>2
    <2>8. ReconOK'
      BY <1>1, ReconStays DEF BooksInv
    <2> QED BY <2>6, <2>7, <2>8 DEF BooksInv
  <1> QED BY <1>2, <1>3 DEF Submit

LEMMA CollectBooks ==
    ASSUME BooksInv, Collect
    PROVE  BooksInv'
  <1> DEFINE E == [actor : Actors, minted : Nat]
             e == Head(queue)
  <1>1. UNCHANGED <<db, recon, tampers, tally, lost>> /\ queue # << >>
        /\ batch' = Append(batch, e) /\ queue' = Tail(queue)
    BY DEF Collect, boundVars, historyVars
  <1>2. queue \in Seq(E) /\ batch \in Seq(E)
    BY DEF BooksInv, BooksTyped, Events
  <1> HIDE DEF E
  <1>3. e \in E /\ batch' \in Seq(E) /\ queue' \in Seq(E)
    BY <1>1, <1>2
  <1> HIDE DEF e
  <1>4. BooksTyped'
    BY <1>1, <1>3 DEF BooksInv, BooksTyped, Database, Events, E
  <1>5. \A b \in Actors : Waiting(b)' = Waiting(b)
    <2> TAKE b \in Actors
    <2>1. Cardinality(Of(batch', b)) = Cardinality(Of(batch, b)) + (IF e.actor = b THEN 1 ELSE 0)
      BY <1>1, <1>2, <1>3, OfAppend
    <2>2. Cardinality(Of(queue, b)) = Cardinality(Of(queue', b)) + (IF e.actor = b THEN 1 ELSE 0)
      BY <1>1, <1>2, OfTail DEF e
    <2>3. Cardinality(Of(queue', b)) \in Nat /\ Cardinality(Of(batch, b)) \in Nat
      BY <1>2, <1>3, OfFinite
    <2>4. Waiting(b)' = Cardinality(Of(queue', b)) + Cardinality(Of(batch', b))
      BY DEF Waiting, Of
    <2> QED BY <2>1, <2>2, <2>3, <2>4 DEF Waiting
  <1>6. BooksRight'
    BY <1>1, <1>5 DEF BooksInv, BooksRight, Tied, Total
  <1>7. ReconOK'
    BY <1>1, ReconStays DEF BooksInv
  <1> QED BY <1>4, <1>6, <1>7 DEF BooksInv

\* The batch is stored and no longer waits.
LEMMA FlushBooks ==
    ASSUME BooksInv, Flush
    PROVE  BooksInv'
  <1>1. UNCHANGED <<queue, recon, tampers, tally, lost>>
        /\ db' = Written(db, batch) /\ batch' = << >>
    BY DEF Flush, boundVars, historyVars
  <1>2. db \in Database /\ batch \in Events /\ queue \in Events
    BY DEF BooksInv, BooksTyped
  <1>3. db' \in Database
    BY <1>1, <1>2, WrittenTyped
  <1>4. BooksTyped'
    BY <1>1, <1>3 DEF BooksInv, BooksTyped, Database, Events
  <1>5. BooksRight'
    <2> SUFFICES ASSUME tampers = 0
                 PROVE  Tied(db') /\ \A b \in Actors : tally[b] = Waiting(b)' + db'.events[b] + lost[b]
      BY <1>1 DEF BooksRight, Tied, Total
    <2>1. Tied(db')
      BY <1>1, <1>2, WrittenTied DEF BooksInv, BooksRight
    <2>2. ASSUME NEW b \in Actors PROVE tally[b] = Waiting(b)' + db'.events[b] + lost[b]
      <3>1. tally[b] = Waiting(b) + db.events[b] + lost[b]
        BY DEF BooksInv, BooksRight
      <3>2. db'.events[b] = db.events[b] + Cardinality(Of(batch, b))
        BY <1>1 DEF Written
      <3>3. Waiting(b)' = Cardinality(Of(queue, b)) + 0
        <4>1. Of(batch', b) = {} /\ Cardinality(Of(batch', b)) = 0
          BY <1>1, OfEmpty
        <4> QED BY <1>1, <4>1 DEF Waiting, Of
      <3>4. Cardinality(Of(queue, b)) \in Nat /\ Cardinality(Of(batch, b)) \in Nat
        BY <1>2, OfEventsFinite
      <3>5. db.events[b] \in Nat /\ lost[b] \in Nat
        BY <1>2, DatabaseFields DEF BooksInv, BooksTyped
      <3> QED BY <3>1, <3>2, <3>3, <3>4, <3>5 DEF Waiting
    <2> QED BY <2>1, <2>2
  <1>6. ReconOK'
    BY <1>1, ReconStays DEF BooksInv
  <1> QED BY <1>4, <1>5, <1>6 DEF BooksInv

\* Events that a failed batch or a stop drops are counted as lost.
LEMMA LosesBooks ==
    ASSUME BooksTyped, BooksRight, ReconOK', UNCHANGED <<db, tampers, tally>>,
           NEW gone \in Events, lost' = LostWith(gone),
           queue' \in Events, batch' \in Events,
           \A b \in Actors : Waiting(b) = Waiting(b)' + Cardinality(Of(gone, b))
    PROVE  BooksInv'
  <1>1. lost \in [Actors -> Nat] /\ \A b \in Actors : Cardinality(Of(gone, b)) \in Nat
    BY OfEventsFinite DEF BooksTyped
  <1>2. lost' \in [Actors -> Nat]
        /\ \A b \in Actors : lost'[b] = lost[b] + Cardinality(Of(gone, b))
    BY <1>1 DEF LostWith
  <1>3. BooksTyped'
    BY <1>2 DEF BooksTyped, Database, Events
  <1>4. BooksRight'
    <2> SUFFICES ASSUME tampers = 0
                 PROVE  Tied(db) /\ \A b \in Actors : tally[b] = Waiting(b)' + db.events[b] + lost'[b]
      BY DEF BooksRight, Tied, Total
    <2>1. ASSUME NEW b \in Actors PROVE tally[b] = Waiting(b)' + db.events[b] + lost'[b]
      <3>1. tally[b] = Waiting(b) + db.events[b] + lost[b]
        BY DEF BooksRight
      <3>2. Waiting(b)' \in Nat
        <4>1. Cardinality(Of(queue', b)) \in Nat /\ Cardinality(Of(batch', b)) \in Nat
          BY OfEventsFinite
        <4>2. Waiting(b)' = Cardinality(Of(queue', b)) + Cardinality(Of(batch', b))
          BY DEF Waiting, Of
        <4> QED BY <4>1, <4>2
      <3>3. db.events[b] \in Nat /\ lost[b] \in Nat /\ Cardinality(Of(gone, b)) \in Nat
        BY <1>1, DatabaseFields DEF BooksTyped
      <3> QED BY <1>2, <3>1, <3>2, <3>3
    <2> QED BY <2>1 DEF BooksRight
  <1> QED BY <1>3, <1>4 DEF BooksInv

LEMMA FlushFailsBooks ==
    ASSUME BooksInv, FlushFails
    PROVE  BooksInv'
  <1>1. UNCHANGED <<queue, db, recon, tampers, tally>>
        /\ lost' = LostWith(batch) /\ batch' = << >>
    BY DEF FlushFails, boundVars
  <1>2. batch \in Events /\ queue \in Events /\ << >> \in Events
    BY DEF BooksInv, BooksTyped, Events
  <1>3. \A b \in Actors : Waiting(b) = Waiting(b)' + Cardinality(Of(batch, b))
    <2> TAKE b \in Actors
    <2>1. Cardinality(Of(batch', b)) = 0
      BY <1>1, OfEmpty
    <2>2. Waiting(b)' = Cardinality(Of(queue, b)) + 0
      BY <1>1, <2>1 DEF Waiting, Of
    <2>3. Cardinality(Of(queue, b)) \in Nat /\ Cardinality(Of(batch, b)) \in Nat
      BY <1>2, OfEventsFinite
    <2> QED BY <2>2, <2>3 DEF Waiting
  <1>4. ReconOK'
    BY <1>1, ReconStays DEF BooksInv
  <1>5. queue' \in Events /\ batch' \in Events
    BY <1>1, <1>2
  <1> QED BY <1>1, <1>2, <1>3, <1>4, <1>5, LosesBooks DEF BooksInv

LEMMA StopBooks ==
    ASSUME BooksInv, Stop
    PROVE  BooksInv'
  <1> DEFINE E == [actor : Actors, minted : Nat]
  <1>1. UNCHANGED <<db, tampers, tally>> /\ recon' = NoRun
        /\ lost' = LostWith(queue \o batch) /\ batch' = << >> /\ queue' = << >>
    BY DEF Stop
  <1>2. queue \in Seq(E) /\ batch \in Seq(E)
    BY DEF BooksInv, BooksTyped, Events
  <1> HIDE DEF E
  <1>3. queue \o batch \in Seq(E) /\ << >> \in Seq(E)
    BY <1>2
  <1>4. queue \o batch \in Events /\ << >> \in Events
    BY <1>3 DEF Events, E
  <1>5. \A b \in Actors : Waiting(b) = Waiting(b)' + Cardinality(Of(queue \o batch, b))
    <2> TAKE b \in Actors
    <2>1. Cardinality(Of(queue \o batch, b)) = Cardinality(Of(queue, b)) + Cardinality(Of(batch, b))
      BY <1>2, OfConcat
    <2>2. Cardinality(Of(batch', b)) = 0 /\ Cardinality(Of(queue', b)) = 0
      BY <1>1, OfEmpty
    <2>3. Waiting(b)' = 0 + 0
      BY <2>2 DEF Waiting, Of
    <2>4. Cardinality(Of(queue, b)) \in Nat /\ Cardinality(Of(batch, b)) \in Nat
      BY <1>2, OfFinite
    <2> QED BY <2>1, <2>3, <2>4 DEF Waiting
  <1>6. ReconOK'
    BY <1>1 DEF ReconOK, NoRun
  <1>7. queue' \in Events /\ batch' \in Events
    BY <1>1, <1>4
  <1> QED BY <1>1, <1>4, <1>5, <1>6, <1>7, LosesBooks DEF BooksInv

LEMMA TamperBooks ==
    ASSUME BooksInv, NEW a \in Actors, Tamper(a)
    PROVE  BooksInv'
  <1> DEFINE R == [score : Nat, count : Nat, known : BOOLEAN]
  <1>1. UNCHANGED <<queue, batch, recon, tally, lost>> /\ tampers' = tampers + 1
    BY DEF Tamper, loopVars, historyVars
  <1>2. db \in Database /\ tampers \in Nat
    BY DEF BooksInv, BooksTyped
  <1>3. /\ db = [events |-> db.events, minted |-> db.minted,
                 actors |-> db.actors, stats |-> db.stats]
        /\ db.events \in [Actors -> Nat] /\ db.minted \in [Actors -> Int]
        /\ db.actors \in [Actors -> R]
        /\ db.stats \in [events : Nat, mined : Nat]
    BY <1>2, DatabaseFields
  <1>6. ASSUME db' \in Database PROVE BooksInv'
    <2>1. tampers' \in Nat /\ tampers' # 0
      BY <1>1, <1>2
    <2>2. BooksRight'
      BY <2>1 DEF BooksRight
    <2>3. /\ queue' \in Events /\ batch' \in Events
          /\ tally' \in [Actors -> Nat] /\ lost' \in [Actors -> Nat]
      BY <1>1 DEF BooksInv, BooksTyped
    <2>4. BooksTyped'
      BY <1>6, <2>1, <2>3 DEF BooksTyped, Database, Events
    <2>5. ReconOK'
      BY <1>1, ReconStays DEF BooksInv
    <2> QED BY <2>2, <2>4, <2>5 DEF BooksInv
  <1>4. CASE db.events[a] > 0 /\ db' = [db EXCEPT !.events[a] = @ - 1, !.minted[a] = @ - Mint]
    <2>1. db' = [events |-> [db.events EXCEPT ![a] = @ - 1],
                 minted |-> [db.minted EXCEPT ![a] = @ - Mint],
                 actors |-> db.actors, stats |-> db.stats]
      BY <1>3, <1>4
    <2>2. /\ [db.events EXCEPT ![a] = @ - 1] \in [Actors -> Nat]
          /\ [db.minted EXCEPT ![a] = @ - Mint] \in [Actors -> Int]
      BY <1>3, <1>4, ApiAssumption
    <2>3. db' \in Database
      BY <1>3, <2>1, <2>2 DEF Database
    <2> QED BY <1>6, <2>3
  <1>5. CASE db' = [db EXCEPT !.actors[a] = NoActor]
    <2>1. NoActor \in R
      BY DEF NoActor
    <2> HIDE DEF R
    <2>2. db' = [events |-> db.events, minted |-> db.minted,
                 actors |-> [db.actors EXCEPT ![a] = NoActor], stats |-> db.stats]
      BY <1>3, <1>5
    <2>3. [db.actors EXCEPT ![a] = NoActor] \in [Actors -> R]
      BY <1>3, <2>1
    <2>4. db' \in Database
      BY <1>3, <2>2, <2>3 DEF Database, R
    <2> QED BY <1>6, <2>4
  <1> QED BY <1>4, <1>5 DEF Tamper

\* A reconcile: what it holds after each SELECT is about the version the first saw.
LEMMA SelectKeeps ==
    ASSUME ReconOK, SelectEvents \/ SelectStats \/ SelectActors
                    \/ \E recorded \in BOOLEAN : RecordVerdict(recorded)
    PROVE  ReconOK'
  <1>1. CASE SelectEvents
    <2>1. recon' = [pc |-> "stats", boot |-> service = "boot", snap |-> db,
                    events |-> Total(db.events), minted |-> Total(db.minted)]
      BY <1>1 DEF SelectEvents
    <2>2. /\ recon'.pc = "stats" /\ recon'.snap = db /\ recon'.boot \in BOOLEAN
          /\ recon'.events = Total(db.events) /\ recon'.minted = Total(db.minted)
      BY <2>1
    <2> QED BY <2>2 DEF ReconOK, Total
  <1>2. CASE SelectStats
    <2> DEFINE agrees == recon.snap.stats = [events |-> Total(recon.snap.events),
                                             mined |-> Total(recon.snap.minted)]
               verdict == Seen.stats = [events |-> recon.events, mined |-> recon.minted]
    <2>1. /\ recon.pc = "stats"
          /\ recon' = [pc |-> "actors", boot |-> recon.boot, snap |-> recon.snap, ok |-> verdict]
      BY <1>2 DEF SelectStats
    <2>2. verdict <=> agrees
      BY <2>1 DEF ReconOK, Seen
    <2> HIDE DEF verdict
    <2>3. /\ recon'.pc = "actors" /\ recon'.snap = recon.snap /\ recon'.boot = recon.boot
          /\ recon'.ok = verdict
          /\ recon' = [pc |-> recon'.pc, boot |-> recon'.boot, snap |-> recon'.snap,
                       ok |-> recon'.ok]
      BY <2>1
    <2>4. recon'.ok <=> agrees
      BY <2>2, <2>3
    <2> HIDE DEF agrees
    <2>5. agrees <=> recon'.snap.stats = [events |-> Total(recon'.snap.events),
                                          mined |-> Total(recon'.snap.minted)]
      BY <2>3 DEF agrees
    <2> QED BY <2>3, <2>4, <2>5 DEF ReconOK, Total
  <1>3. CASE SelectActors
    <2> DEFINE rest == \A a \in Actors : ActorAgrees(Seen, a)
               first == recon.snap.stats = [events |-> Total(recon.snap.events),
                                            mined |-> Total(recon.snap.minted)]
    <2>1. /\ recon.pc = "actors"
          /\ recon' = [recon EXCEPT !.pc = "record", !.ok = @ /\ rest]
      BY <1>3 DEF SelectActors
    <2>2. /\ recon = [pc |-> recon.pc, boot |-> recon.boot, snap |-> recon.snap, ok |-> recon.ok]
          /\ recon.ok <=> first
      BY <2>1 DEF ReconOK
    <2>3. first /\ rest <=> Consistent(recon.snap)
      BY DEF Consistent, Seen
    <2> HIDE DEF rest, first
    <2>4. recon' = [pc |-> "record", boot |-> recon.boot, snap |-> recon.snap,
                    ok |-> recon.ok /\ rest]
      BY <2>1, <2>2
    <2>5. /\ recon'.pc = "record" /\ recon'.boot = recon.boot /\ recon'.snap = recon.snap
          /\ recon'.ok <=> recon.ok /\ rest
      BY <2>4
    <2>6. recon'.ok <=> Consistent(recon'.snap)
      BY <2>2, <2>3, <2>5
    <2> QED BY <2>5, <2>6 DEF ReconOK, Consistent, Total, ActorAgrees
  <1>4. CASE \E recorded \in BOOLEAN : RecordVerdict(recorded)
    <2>1. recon' = NoRun
      BY <1>4 DEF RecordVerdict
    <2> QED BY <2>1 DEF ReconOK, NoRun
  <1> QED BY <1>1, <1>2, <1>3, <1>4

LEMMA BooksStep == BooksInv /\ [Next]_vars => BooksInv'
  <1> SUFFICES ASSUME BooksInv, [Next]_vars PROVE BooksInv'
    OBVIOUS
  <1>1. CASE \/ \E r \in Requests : Arrive(r) \/ Refuse(r)
             \/ \E r \in Requests, k \in CacheKeys : Get(r, k)
             \/ \E k \in ApiKeys, scope \in SUBSET Actors : MintKey(k, scope)
             \/ \E k \in dropping : Invalidate(k)
             \/ Starting \/ Tick \/ UNCHANGED vars
    <2>1. UNCHANGED <<queue, batch, db, recon, tampers, tally, lost>>
      BY <1>1 DEF Arrive, Refuse, Get, MintKey, Invalidate, Starting, Tick, vars, loopVars,
                  historyVars, boundVars
    <2> QED BY <2>1, BooksStay
  <1>2. CASE \/ SelectEvents \/ SelectStats \/ SelectActors
             \/ \E recorded \in BOOLEAN : RecordVerdict(recorded)
    <2>1. UNCHANGED <<queue, batch, db, tampers, tally, lost>>
      BY <1>2 DEF SelectEvents, SelectStats, SelectActors, RecordVerdict, loopVars,
                  historyVars, boundVars
    <2>2. ReconOK'
      BY <1>2, SelectKeeps DEF BooksInv
    <2> QED BY <2>1, <2>2, ReconBooks
  <1> QED BY <1>1, <1>2, SubmitBooks, CollectBooks, FlushBooks, FlushFailsBooks, StopBooks,
             TamperBooks DEF Next

LEMMA BooksInductive == Spec => []BooksInv
  BY BooksInit, BooksStep, PTL DEF Spec

\* A reconcile's verdict is the truth about the version of hexis.db its first
\* SELECT saw, whatever commits while it runs, and the worker leaves a consistent
\* database behind it (read_snapshot, _flush).
THEOREM VerdictIsTrue == Spec => []ReconcileTrue
  <1>1. BooksInv => ReconcileTrue
    BY TiedIsConsistent DEF BooksInv, BooksTyped, BooksRight, ReconOK, ReconcileTrue
  <1> QED BY BooksInductive, <1>1, PTL

-----------------------------------------------------------------------------
(* The rate limit.                                                         *)

\* The entries of a bucket at t or later, and an actor's accepted events.
After(s, t) == {i \in DOMAIN s : s[i] >= t}
AcceptedAfter(a, t) == {i \in Of(accepted, a) : accepted[i].at >= t}
InWindow(s, a, t) == {j \in Of(s, a) : s[j].at \in t - Window["actor"] .. t}

Span == Window["actor"]

RateTyped ==
    /\ now \in Nat
    /\ buckets \in [BucketKeys -> Seq(Nat)]
    /\ accepted \in Seq([actor : Actors, at : Nat])

\* Whatever window still matters, an actor's bucket holds an entry for each
\* accepted event in it.
BucketCovers ==
    \A a \in Actors : \A t \in Int :
        t >= now - Span => Cardinality(AcceptedAfter(a, t)) <= Cardinality(After(buckets[a], t))

NotAhead == \A i \in DOMAIN accepted : accepted[i].at <= now

RateInv == RateTyped /\ BucketCovers /\ NotAhead /\ RateHolds

LEMMA RateConstants ==
    /\ Span \in Nat /\ Limit["actor"] \in Nat \ {0}
    /\ \A a \in Actors : a \in BucketKeys /\ LimitOf(a) = "actor"
    /\ \A b \in BucketKeys : Window[LimitOf(b)] \in Nat
  BY ApiAssumption DEF Limits, Span, BucketKeys, LimitOf

LEMMA AfterFinite ==
    ASSUME NEW s \in Seq(Nat), NEW t
    PROVE  /\ After(s, t) \in SUBSET Int /\ IsFiniteSet(After(s, t))
           /\ Cardinality(After(s, t)) \in Nat /\ Cardinality(After(s, t)) <= Len(s)
  <1>1. Len(s) \in Nat /\ DOMAIN s = 1 .. Len(s)
    OBVIOUS
  <1>2. IsFiniteSet(1 .. Len(s)) /\ Cardinality(1 .. Len(s)) = Len(s)
    BY <1>1, IntervalCount
  <1>3. After(s, t) \in SUBSET (1 .. Len(s))
    BY <1>1 DEF After
  <1>4. IsFiniteSet(After(s, t)) /\ Cardinality(After(s, t)) <= Len(s)
    BY <1>2, <1>3, FS_Subset
  <1> QED BY <1>1, <1>3, <1>4, FS_CardinalityType

LEMMA AcceptedFinite ==
    ASSUME RateTyped, NEW a, NEW t
    PROVE  IsFiniteSet(AcceptedAfter(a, t)) /\ Cardinality(AcceptedAfter(a, t)) \in Nat
  <1> DEFINE E == [actor : Actors, at : Nat]
  <1>1. accepted \in Seq(E)
    BY DEF RateTyped
  <1> HIDE DEF E
  <1>2. IsFiniteSet(Of(accepted, a))
    BY <1>1, OfFinite
  <1>3. AcceptedAfter(a, t) \in SUBSET Of(accepted, a)
    BY DEF AcceptedAfter
  <1> QED BY <1>2, <1>3, FS_Subset, FS_CardinalityType

LEMMA AcceptedTyped ==
    ASSUME RateTyped
    PROVE  /\ Len(accepted) \in Nat /\ DOMAIN accepted = 1 .. Len(accepted)
           /\ \A i \in DOMAIN accepted : accepted[i].actor \in Actors /\ accepted[i].at \in Nat
  <1> DEFINE E == [actor : Actors, at : Nat]
  <1>1. accepted \in Seq(E)
    BY DEF RateTyped
  <1> HIDE DEF E
  <1>2. Len(accepted) \in Nat /\ DOMAIN accepted = 1 .. Len(accepted)
        /\ \A i \in 1 .. Len(accepted) : accepted[i] \in E
    BY <1>1
  <1> QED BY <1>2 DEF E

\* popleft takes off expired entries only: those a window can still hold stay.
LEMMA LiveKeeps ==
    ASSUME RateTyped, NEW b \in BucketKeys
    PROVE  /\ Live(b) \in Seq(Nat)
           /\ \A t \in Int : t >= now - Window[LimitOf(b)] =>
                Cardinality(After(Live(b), t)) = Cardinality(After(buckets[b], t))
  <1> DEFINE w == Window[LimitOf(b)]
             s == buckets[b]
             len == Len(s)
             Front(n) == \A i \in 1 .. n : Expired(s[i], w)
             Stops(n) == n < len => ~Expired(s[n + 1], w)
             gone == CHOOSE n \in 0 .. len : Front(n) /\ Stops(n)
             T == {n \in 0 .. len : Stops(n)}
  <1>1. s \in Seq(Nat) /\ len \in Nat /\ DOMAIN s = 1 .. len /\ \A i \in 1 .. len : s[i] \in Nat
    BY DEF RateTyped
  <1>2. w \in Nat /\ now \in Nat
    BY RateConstants DEF RateTyped
  <1>3. Live(b) = SubSeq(s, gone + 1, len)
    BY DEF Live
  <1> HIDE DEF w, s, len
  <1>4. len \in T /\ T \subseteq Nat
    BY <1>1
  <1>5. PICK n \in T : \A m \in T : ~(<<m, n>> \in OpToRel(<, Nat))
    BY <1>4, NatLessThanWellFounded, WFMin, Zenon
  <1>6. Front(n)
    <2> SUFFICES ASSUME NEW i \in 1 .. n, ~Expired(s[i], w) PROVE FALSE
      OBVIOUS
    <2> DEFINE m == i - 1
    <2>0. n \in 0 .. len
      OBVIOUS
    <2>1. m \in 0 .. len /\ m < n /\ m \in Nat /\ n \in Nat /\ m + 1 = i
      BY <1>1, <2>0
    <2> HIDE DEF m
    <2>2. m \in T
      BY <2>1
    <2>3. <<m, n>> \in OpToRel(<, Nat)
      BY <2>1 DEF OpToRel
    <2> QED BY <1>5, <2>2, <2>3
  <1>7. n \in 0 .. len /\ Front(n) /\ Stops(n)
    BY <1>5, <1>6
  <1> HIDE DEF Front, Stops
  <1>8. gone \in 0 .. len /\ Front(gone)
    BY <1>7
  <1> HIDE DEF gone
  <1> DEFINE r == Live(b)
  <1>9. r \in Seq(Nat) /\ Len(r) = len - gone /\ DOMAIN r = 1 .. len - gone
        /\ \A i \in 1 .. len - gone : r[i] = s[gone + i]
    BY <1>1, <1>3, <1>8
  <1> HIDE DEF r
  <1>10. ASSUME NEW t \in Int, t >= now - w
         PROVE  Cardinality(After(r, t)) = Cardinality(After(s, t))
    <2>1. After(s, t) \in SUBSET Int /\ IsFiniteSet(After(s, t)) /\ After(r, t) \in SUBSET Int
      BY <1>1, <1>9, AfterFinite
    <2>2. \A j \in After(r, t) : j + gone \in After(s, t)
      <3> TAKE j \in After(r, t)
      <3>1. j \in 1 .. len - gone /\ r[j] >= t
        BY <1>9 DEF After
      <3>2. gone + j = j + gone /\ gone + j \in 1 .. len
        BY <1>1, <1>8, <3>1
      <3> QED BY <1>1, <1>9, <3>1, <3>2 DEF After
    <2>3. \A i \in After(s, t) : i - gone \in After(r, t)
      <3> TAKE i \in After(s, t)
      <3>1. i \in 1 .. len /\ s[i] >= t /\ s[i] \in Nat
        BY <1>1 DEF After
      <3>2. ~Expired(s[i], w)
        BY <1>2, <1>10, <3>1 DEF Expired
      <3>3. ~(i \in 1 .. gone)
        BY <1>8, <3>2 DEF Front
      <3>4. i - gone \in 1 .. len - gone /\ gone + (i - gone) = i
        BY <1>1, <1>8, <3>1, <3>3
      <3>5. r[i - gone] = s[i]
        BY <1>9, <3>4
      <3> QED BY <1>9, <3>1, <3>4, <3>5 DEF After
    <2>4. gone \in Int
      BY <1>8
    <2> QED BY <2>1, <2>2, <2>3, <2>4, MovedSet
  <1> QED BY <1>9, <1>10 DEF r, s, w

LEMMA CountedKeeps ==
    ASSUME RateTyped, NEW b \in BucketKeys
    PROVE  /\ Counted(b) \in Seq(Nat)
           /\ \A t \in Int : t >= now - Window[LimitOf(b)] =>
                Cardinality(After(Counted(b), t))
                  = Cardinality(After(buckets[b], t))
                    + (IF Allowed(b) /\ now >= t THEN 1 ELSE 0)
  <1> DEFINE r == Live(b)
             n == Len(r) + 1
  <1>1. r \in Seq(Nat) /\ now \in Nat
    BY LiveKeeps DEF RateTyped
  <1>2. ASSUME NEW t \in Int, t >= now - Window[LimitOf(b)]
        PROVE  Cardinality(After(r, t)) = Cardinality(After(buckets[b], t))
    BY <1>2, LiveKeeps
  <1>3. \A t : After(r, t) \in SUBSET Int /\ IsFiniteSet(After(r, t)) /\ Cardinality(After(r, t)) \in Nat
    BY <1>1, AfterFinite
  <1> HIDE DEF r
  <1>4. CASE ~Allowed(b)
    <2>1. Counted(b) = r
      BY <1>4 DEF Counted, r
    <2> QED BY <1>1, <1>2, <1>3, <1>4, <2>1
  <1>5. CASE Allowed(b)
    <2> DEFINE c == Append(r, now)
    <2>1. Counted(b) = c
      BY <1>5 DEF Counted, r
    <2>2. c \in Seq(Nat) /\ DOMAIN r = 1 .. Len(r) /\ DOMAIN c = DOMAIN r \cup {n}
          /\ n \notin DOMAIN r /\ c[n] = now /\ \A i \in DOMAIN r : c[i] = r[i]
      BY <1>1
    <2> HIDE DEF c, n
    <2>3. ASSUME NEW t \in Int, t >= now - Window[LimitOf(b)]
          PROVE  Cardinality(After(c, t))
                   = Cardinality(After(buckets[b], t)) + (IF now >= t THEN 1 ELSE 0)
      <3>1. Cardinality(After(r, t)) = Cardinality(After(buckets[b], t))
            /\ Cardinality(After(r, t)) \in Nat /\ IsFiniteSet(After(r, t))
        BY <1>2, <1>3, <2>3
      <3>2. CASE now >= t
        <4>1. After(c, t) = After(r, t) \cup {n} /\ n \notin After(r, t)
          BY <2>2, <3>2 DEF After
        <4>2. Cardinality(After(c, t)) = Cardinality(After(r, t)) + 1
          BY <3>1, <4>1, FS_AddElement
        <4> QED BY <3>1, <3>2, <4>2
      <3>3. CASE ~(now >= t)
        <4>1. After(c, t) = After(r, t)
          BY <2>2, <3>3 DEF After
        <4> QED BY <3>1, <3>3, <4>1
      <3> QED BY <3>2, <3>3
    <2> QED BY <1>5, <2>1, <2>2, <2>3
  <1> QED BY <1>4, <1>5

\* The steps the rate limit turns on: an event is submitted.
LEMMA SubmitRate ==
    ASSUME RateInv, NEW r, NEW k, NEW a \in Actors, Submit(r, k, a)
    PROVE  RateInv'
  <1> DEFINE e == [actor |-> a, at |-> now]
             E == [actor : Actors, at : Nat]
             n == Len(accepted) + 1
             ok == Allowed(a)
  <1>1. now' = now /\ buckets' = [buckets EXCEPT ![a] = Counted(a)]
        /\ \/ ok /\ accepted' = Append(accepted, e)
           \/ accepted' = accepted
    BY DEF Submit
  <1>2. RateTyped /\ now \in Nat /\ BucketCovers /\ NotAhead /\ RateHolds
        /\ buckets \in [BucketKeys -> Seq(Nat)] /\ accepted \in Seq(E)
    BY DEF RateInv, RateTyped
  <1>3. a \in BucketKeys /\ Window[LimitOf(a)] = Span /\ Span \in Nat
        /\ Limit["actor"] \in Nat \ {0} /\ LimitOf(a) = "actor"
    BY RateConstants DEF Span
  <1>4. Counted(a) \in Seq(Nat)
        /\ \A t \in Int : t >= now - Span =>
             Cardinality(After(Counted(a), t))
               = Cardinality(After(buckets[a], t)) + (IF ok /\ now >= t THEN 1 ELSE 0)
    BY <1>2, <1>3, CountedKeeps
  <1>5. buckets' \in [BucketKeys -> Seq(Nat)] /\ buckets'[a] = Counted(a)
        /\ \A b \in Actors \ {a} : buckets'[b] = buckets[b]
    <2>1. \A b \in Actors : b \in BucketKeys
      BY RateConstants
    <2> QED BY <1>1, <1>2, <1>3, <1>4, <2>1
  <1>6. e \in E
    BY <1>2
  <1> HIDE DEF E
  <1>7. accepted' \in Seq(E)
    BY <1>1, <1>2, <1>6
  <1>8. RateTyped'
    BY <1>1, <1>2, <1>5, <1>7 DEF RateTyped, E
  <1>9. /\ Len(accepted) \in Nat /\ DOMAIN accepted = 1 .. Len(accepted)
    BY <1>2
  <1>10. \A b, t : IsFiniteSet(AcceptedAfter(b, t)) /\ Cardinality(AcceptedAfter(b, t)) \in Nat
    BY <1>2, AcceptedFinite
  <1>11. \A b \in BucketKeys : \A t : Cardinality(After(buckets[b], t)) \in Nat
    BY <1>2, AfterFinite
  <1>12. CASE ok /\ accepted' = Append(accepted, e)
    <2>1. DOMAIN accepted' = DOMAIN accepted \cup {n} /\ n \notin DOMAIN accepted
          /\ accepted'[n] = e /\ \A i \in DOMAIN accepted : accepted'[i] = accepted[i]
      BY <1>9, <1>12, <1>2
    <2> HIDE DEF n
    <2>2. \A i \in DOMAIN accepted' : accepted'[i].at <= now'
      BY <1>1, <1>2, <2>1 DEF NotAhead
    <2>3. ASSUME NEW t \in Int
          PROVE  /\ \A b \in Actors \ {a} : AcceptedAfter(b, t)' = AcceptedAfter(b, t)
                 /\ now >= t => AcceptedAfter(a, t)' = AcceptedAfter(a, t) \cup {n}
                 /\ ~(now >= t) => AcceptedAfter(a, t)' = AcceptedAfter(a, t)
                 /\ n \notin AcceptedAfter(a, t)
      BY <2>1 DEF AcceptedAfter, Of
    <2>4. BucketCovers'
      <3> SUFFICES ASSUME NEW b \in Actors, NEW t \in Int, t >= now - Span
                   PROVE  Cardinality(AcceptedAfter(b, t)') <= Cardinality(After(buckets'[b], t))
        BY <1>1 DEF BucketCovers, Span, After
      <3>1. Cardinality(AcceptedAfter(b, t)) <= Cardinality(After(buckets[b], t))
        BY <1>2 DEF BucketCovers
      <3>2. CASE b # a
        <4>1. AcceptedAfter(b, t)' = AcceptedAfter(b, t) /\ buckets'[b] = buckets[b]
          BY <1>5, <2>3, <3>2
        <4> QED BY <3>1, <4>1
      <3>3. CASE b = a /\ now >= t
        <4>1. Cardinality(AcceptedAfter(a, t)') = Cardinality(AcceptedAfter(a, t)) + 1
          BY <1>10, <2>3, <3>3, FS_AddElement
        <4>2. Cardinality(After(buckets'[a], t)) = Cardinality(After(buckets[a], t)) + 1
          BY <1>4, <1>5, <1>12, <3>3
        <4>3. Cardinality(AcceptedAfter(a, t)) \in Nat /\ Cardinality(After(buckets[a], t)) \in Nat
          BY <1>3, <1>10, <1>11
        <4> QED BY <3>1, <3>3, <4>1, <4>2, <4>3
      <3>4. CASE b = a /\ ~(now >= t)
        <4>1. AcceptedAfter(a, t)' = AcceptedAfter(a, t)
          BY <2>3, <3>4
        <4>2. Cardinality(After(buckets'[a], t)) = Cardinality(After(buckets[a], t)) + 0
          BY <1>4, <1>5, <3>4
        <4>3. Cardinality(After(buckets[a], t)) \in Nat
          BY <1>3, <1>11
        <4> QED BY <3>1, <3>4, <4>1, <4>2, <4>3
      <3> QED BY <3>2, <3>3, <3>4
    <2>5. RateHolds'
      <3> SUFFICES ASSUME NEW b \in Actors, NEW i \in Of(accepted', b)
                   PROVE  Cardinality(InWindow(accepted', b, accepted'[i].at)) <= Limit["actor"]
        BY DEF RateHolds, InWindow, Of
      <3>1. /\ \A j \in DOMAIN accepted : accepted[j].at \in Nat /\ accepted[j].at <= now
            /\ e.actor = a /\ e.at = now
        BY <1>2, AcceptedTyped DEF NotAhead
      <3>2. CASE i \in DOMAIN accepted /\ (b # a \/ accepted[i].at < now)
        <4>1. i \in Of(accepted, b) /\ accepted'[i].at = accepted[i].at
          BY <2>1, <3>2 DEF Of
        <4>2. InWindow(accepted', b, accepted'[i].at) = InWindow(accepted, b, accepted[i].at)
          <5>1. accepted[i].at \in Nat /\ now \in Nat /\ Span \in Nat
            BY <1>2, <1>3, <3>1, <3>2
          <5>2. b = a => ~(now \in accepted[i].at - Span .. accepted[i].at)
            BY <3>2, <5>1
          <5> QED BY <2>1, <3>1, <4>1, <5>2 DEF Of, Span, InWindow
        <4> QED BY <1>2, <4>1, <4>2 DEF RateHolds, InWindow
      <3>3. CASE b = a /\ accepted'[i].at = now
        <4>0. PICK t \in Int : t = now - Span
          BY <1>2, <1>3
        <4>1. InWindow(accepted', a, now) = AcceptedAfter(a, t)'
          <5>1. \A j \in DOMAIN accepted' : accepted'[j].at \in Nat /\ accepted'[j].at <= now
            BY <1>2, <2>1, <3>1
          <5>2. \A j \in DOMAIN accepted' : accepted'[j].at \in t .. now <=> accepted'[j].at >= t
            BY <1>2, <1>3, <4>0, <5>1
          <5> QED BY <1>1, <4>0, <5>2 DEF AcceptedAfter, Of, Span, InWindow
        <4>2. t \in Int /\ t >= now - Span /\ now >= t
          BY <1>2, <1>3, <4>0
        <4>3. Cardinality(AcceptedAfter(a, t)') = Cardinality(AcceptedAfter(a, t)) + 1
          <5>1. AcceptedAfter(a, t)' = AcceptedAfter(a, t) \cup {n} /\ n \notin AcceptedAfter(a, t)
            BY <2>3, <4>2
          <5>2. IsFiniteSet(AcceptedAfter(a, t))
            BY <1>10
          <5> QED BY <5>1, <5>2, FS_AddElement
        <4>4. Cardinality(AcceptedAfter(a, t)) <= Cardinality(After(buckets[a], t))
          BY <1>2, <4>2 DEF BucketCovers
        <4>5. Cardinality(After(buckets[a], t)) = Cardinality(After(Live(a), t))
              /\ Cardinality(After(Live(a), t)) <= Len(Live(a)) /\ Len(Live(a)) \in Nat
          BY <1>2, <1>3, <4>2, LiveKeeps, AfterFinite
        <4>6. Len(Live(a)) < Limit["actor"]
          BY <1>3, <1>12 DEF Allowed
        <4>7. Cardinality(AcceptedAfter(a, t)) \in Nat /\ Cardinality(After(Live(a), t)) \in Nat
          BY <1>2, <1>3, <1>10, LiveKeeps, AfterFinite
        <4>8. Cardinality(AcceptedAfter(a, t)') <= Limit["actor"]
          BY <1>3, <4>3, <4>4, <4>5, <4>6, <4>7
        <4>9. Cardinality(InWindow(accepted', a, now)) <= Limit["actor"]
          BY <4>1, <4>8
        <4> QED BY <3>3, <4>9
      <3>4. \/ i \in DOMAIN accepted /\ (b # a \/ accepted[i].at < now)
            \/ b = a /\ accepted'[i].at = now
        <4>1. i \in DOMAIN accepted' /\ accepted'[i].actor = b
          BY DEF Of
        <4>2. CASE i = n
          BY <2>1, <3>1, <4>1, <4>2
        <4>3. CASE i \in DOMAIN accepted
          <5>1. accepted'[i] = accepted[i] /\ accepted[i].at \in Nat /\ accepted[i].at <= now
            BY <2>1, <3>1, <4>3
          <5> QED BY <1>2, <4>3, <5>1
        <4> QED BY <2>1, <4>1, <4>2, <4>3
      <3> QED BY <3>2, <3>3, <3>4
    <2> QED BY <1>8, <2>2, <2>4, <2>5 DEF RateInv, NotAhead
  <1>13. CASE accepted' = accepted
    <2>0. RateHolds'
      BY <1>2, <1>13 DEF RateHolds, Of
    <2>3. NotAhead'
      BY <1>1, <1>2, <1>13 DEF NotAhead
    <2>1. RateHolds' /\ NotAhead'
      BY <2>0, <2>3
    <2>2. BucketCovers'
      <3> SUFFICES ASSUME NEW b \in Actors, NEW t \in Int, t >= now - Span
                   PROVE  Cardinality(AcceptedAfter(b, t)) <= Cardinality(After(buckets'[b], t))
        BY <1>1, <1>13 DEF BucketCovers, Span, After, AcceptedAfter, Of
      <3>1. Cardinality(AcceptedAfter(b, t)) <= Cardinality(After(buckets[b], t))
        BY <1>2 DEF BucketCovers
      <3>2. CASE b # a
        BY <1>5, <3>1, <3>2
      <3>3. CASE b = a
        <4>1. Cardinality(AcceptedAfter(a, t)) \in Nat /\ Cardinality(After(buckets[a], t)) \in Nat
          BY <1>3, <1>10, <1>11
        <4>2. Cardinality(After(buckets'[a], t)) = Cardinality(After(buckets[a], t))
                + (IF ok /\ now >= t THEN 1 ELSE 0)
          BY <1>4, <1>5
        <4> QED BY <3>1, <3>3, <4>1, <4>2
      <3> QED BY <3>2, <3>3
    <2> QED BY <1>8, <2>1, <2>2 DEF RateInv
  <1> QED BY <1>1, <1>12, <1>13

LEMMA RateInit == Init => RateInv
  <1> SUFFICES ASSUME Init PROVE RateInv
    OBVIOUS
  <1>1. now = 0 /\ buckets = [b \in BucketKeys |-> << >>] /\ accepted = << >>
    BY DEF Init
  <1>2. RateTyped
    BY <1>1 DEF RateTyped
  <1>3. \A a \in Actors, t \in Int : AcceptedAfter(a, t) = {}
    BY <1>1 DEF AcceptedAfter, Of
  <1>4. BucketCovers
    <2> SUFFICES ASSUME NEW a \in Actors, NEW t \in Int
                 PROVE  Cardinality(AcceptedAfter(a, t)) <= Cardinality(After(buckets[a], t))
      BY DEF BucketCovers
    <2>1. a \in BucketKeys
      BY RateConstants
    <2>2. Cardinality(AcceptedAfter(a, t)) = 0
      BY <1>3, FS_EmptySet
    <2>3. Cardinality(After(buckets[a], t)) \in Nat
      BY <1>2, <2>1, AfterFinite DEF RateTyped
    <2> QED BY <2>2, <2>3
  <1>5. NotAhead /\ RateHolds
    BY <1>1 DEF NotAhead, RateHolds, Of
  <1> QED BY <1>2, <1>4, <1>5 DEF RateInv

\* Steps that accept nothing and leave the actors' buckets alone.
LEMMA RateStays ==
    ASSUME RateInv, accepted' = accepted, now' \in Nat, now' >= now,
           buckets' \in [BucketKeys -> Seq(Nat)],
           \A a \in Actors : buckets'[a] = buckets[a]
    PROVE  RateInv'
  <1>1. now \in Nat /\ Span \in Nat
    BY RateConstants DEF RateInv, RateTyped
  <1>2. RateTyped'
    BY DEF RateInv, RateTyped
  <1>5. RateHolds'
    <2>1. RateHolds
      BY DEF RateInv
    <2> QED BY <2>1 DEF RateHolds, Of
  <1>3. NotAhead'
    <2>1. \A i \in DOMAIN accepted : accepted[i].at \in Nat /\ accepted[i].at <= now
      BY AcceptedTyped DEF RateInv, NotAhead
    <2> QED BY <1>1, <2>1 DEF NotAhead
  <1>4. BucketCovers'
    <2> SUFFICES ASSUME NEW a \in Actors, NEW t \in Int, t >= now' - Span
                 PROVE  Cardinality(AcceptedAfter(a, t)) <= Cardinality(After(buckets[a], t))
      BY DEF BucketCovers, Span, After, AcceptedAfter, Of
    <2>1. t >= now - Span
      <3>1. \A m, n, s \in Int : m >= n /\ t >= m - s => t >= n - s
        OBVIOUS
      <3>2. t >= now' - Span
        OBVIOUS
      <3>3. now' >= now
        OBVIOUS
      <3>4. now' \in Int /\ now \in Int /\ Span \in Int
        BY <1>1
      <3> QED BY <3>1, <3>2, <3>3, <3>4
    <2> QED BY <2>1 DEF RateInv, BucketCovers
  <1> QED BY <1>2, <1>3, <1>4, <1>5 DEF RateInv

LEMMA ArriveRate ==
    ASSUME RateInv, NEW r, Arrive(r)
    PROVE  RateInv'
  <1>1. RateTyped /\ buckets \in [BucketKeys -> Seq(Nat)] /\ now \in Nat
    BY DEF RateInv, RateTyped
  <1>2. "ip_sec" \in BucketKeys /\ "ip_min" \in BucketKeys
    BY DEF BucketKeys
  <1>3. Counted("ip_sec") \in Seq(Nat) /\ Counted("ip_min") \in Seq(Nat)
    BY <1>1, <1>2, CountedKeeps
  <1>4. now' = now /\ accepted' = accepted
    BY DEF Arrive, historyVars
  <1>5. PICK v \in Seq(Nat) :
          buckets' = [buckets EXCEPT !["ip_sec"] = Counted("ip_sec"), !["ip_min"] = v]
    <2>1. buckets["ip_min"] \in Seq(Nat)
      BY <1>1, <1>2
    <2> DEFINE u == IF Allowed("ip_sec") THEN Counted("ip_min") ELSE buckets["ip_min"]
    <2>2. u \in Seq(Nat)
      BY <1>3, <2>1
    <2>3. buckets' = [buckets EXCEPT !["ip_sec"] = Counted("ip_sec"), !["ip_min"] = u]
      BY DEF Arrive
    <2> QED BY <2>2, <2>3
  <1>6. buckets' \in [BucketKeys -> Seq(Nat)]
    BY <1>1, <1>2, <1>3, <1>5
  <1>7. \A a \in Actors : a \in BucketKeys /\ a # "ip_sec" /\ a # "ip_min"
    BY ApiAssumption DEF Limits, BucketKeys
  <1>8. \A a \in Actors : buckets'[a] = buckets[a]
    BY <1>1, <1>5, <1>7
  <1> QED BY <1>1, <1>4, <1>6, <1>8, RateStays

LEMMA RateStep == RateInv /\ [Next]_vars => RateInv'
  <1> SUFFICES ASSUME RateInv, [Next]_vars PROVE RateInv'
    OBVIOUS
  <1>1. now \in Nat /\ buckets \in [BucketKeys -> Seq(Nat)]
    BY DEF RateInv, RateTyped
  <1>2. CASE \/ \E r \in Requests : Refuse(r)
             \/ \E r \in Requests, k \in CacheKeys : Get(r, k)
             \/ \E k \in ApiKeys, scope \in SUBSET Actors : MintKey(k, scope)
             \/ Collect \/ Flush \/ FlushFails
             \/ \E k \in dropping : Invalidate(k)
             \/ Starting \/ SelectEvents \/ SelectStats \/ SelectActors
             \/ \E recorded \in BOOLEAN : RecordVerdict(recorded)
             \/ (\E a \in Actors : Tamper(a)) \/ UNCHANGED vars
    <2>1. UNCHANGED <<now, buckets, accepted>>
      BY <1>2 DEF Refuse, Get, MintKey, Collect, Flush, FlushFails, Invalidate, Starting,
                  SelectEvents, SelectStats, SelectActors, RecordVerdict, Tamper, vars,
                  loopVars, historyVars, boundVars
    <2> QED BY <1>1, <2>1, RateStays
  <1>3. CASE Tick
    <2>1. now' = now + 1 /\ UNCHANGED <<buckets, accepted>>
      BY <1>3 DEF Tick, loopVars, historyVars
    <2> QED BY <1>1, <2>1, RateStays
  <1>4. CASE Stop
    <2>1. /\ now' = now /\ buckets' = [b \in BucketKeys |-> << >>] /\ accepted' = << >>
      BY <1>4 DEF Stop
    <2>2. RateTyped'
      BY <1>1, <2>1 DEF RateTyped
    <2>3. NotAhead' /\ RateHolds'
      BY <2>1 DEF NotAhead, RateHolds, Of
    <2>4. BucketCovers'
      <3> SUFFICES ASSUME NEW a \in Actors, NEW t \in Int
                   PROVE  Cardinality(AcceptedAfter(a, t)') <= Cardinality(After(buckets'[a], t))
        BY DEF BucketCovers, After
      <3>1. a \in BucketKeys
        BY RateConstants
      <3>2. AcceptedAfter(a, t)' = {}
        BY <2>1 DEF AcceptedAfter, Of
      <3>3. Cardinality(AcceptedAfter(a, t)') = 0
        BY <3>2, FS_EmptySet
      <3>4. buckets'[a] \in Seq(Nat)
        BY <2>1, <3>1
      <3>5. Cardinality(After(buckets'[a], t)) \in Nat
        BY <3>4, AfterFinite
      <3> QED BY <3>3, <3>5
    <2> QED BY <2>2, <2>3, <2>4 DEF RateInv
  <1> QED BY <1>2, <1>3, <1>4, ArriveRate, SubmitRate DEF Next

LEMMA RateInductive == Spec => []RateInv
  BY RateInit, RateStep, PTL DEF Spec

-----------------------------------------------------------------------------
(* The rest of the state's types, and who may be credited.                 *)

Credited == \A a \in Actors : tally[a] > 0 => \E k \in ApiKeys : MayCredit(apiKeys[k], a)

RestTyped ==
    /\ apiKeys \in [ApiKeys -> {None} \cup SUBSET Actors]
    /\ requests \subseteq Requests
    /\ dropping \subseteq CacheKeys \cup {<<"leaderboard">>}
    /\ service \in {"down", "boot", "up"}
    /\ crashes \in Nat

RestInv == RestTyped /\ Credited

LEMMA RestInit == Init => RestInv
  BY DEF Init, RestInv, RestTyped, Credited

LEMMA InvalidatedKnown ==
    ASSUME NEW ev \in Events
    PROVE  Invalidated(ev) \subseteq CacheKeys \cup {<<"leaderboard">>}
  <1>1. \A i \in DOMAIN ev : TrustKey(ev[i].actor) \in CacheKeys
    BY EventsTyped DEF CacheKeys
  <1>2. StatusKey \in CacheKeys
    BY DEF CacheKeys
  <1> QED BY <1>1, <1>2 DEF Invalidated

LEMMA RestStep == RestInv /\ BooksInv /\ [Next]_vars => RestInv'
  <1> SUFFICES ASSUME RestInv, BooksInv, [Next]_vars PROVE RestInv'
    OBVIOUS
  <1>0. /\ apiKeys \in [ApiKeys -> {None} \cup SUBSET Actors]
        /\ requests \subseteq Requests /\ crashes \in Nat
        /\ dropping \subseteq CacheKeys \cup {<<"leaderboard">>}
        /\ service \in {"down", "boot", "up"}
        /\ Credited /\ batch \in Events /\ tally \in [Actors -> Nat]
    BY DEF RestInv, RestTyped, BooksInv, BooksTyped
  <1> USE DEF loopVars, historyVars, boundVars
  <1>1. CASE UNCHANGED vars
    BY <1>1 DEF RestInv, RestTyped, Credited, vars
  <1>2. ASSUME NEW r \in Requests, Arrive(r) \/ Refuse(r) \/ \E k \in CacheKeys : Get(r, k)
        PROVE  RestInv'
    <2>1. requests' \subseteq requests \cup {r}
      BY <1>2 DEF Arrive, Refuse, Get, Release
    <2>2. UNCHANGED <<apiKeys, dropping, service, crashes, tally>>
      BY <1>2 DEF Arrive, Refuse, Get
    <2> QED BY <1>0, <1>2, <2>1, <2>2 DEF RestInv, RestTyped, Credited
  <1>3. ASSUME NEW r \in Requests, NEW k \in ApiKeys, NEW a \in Actors, Submit(r, k, a)
        PROVE  RestInv'
    <2>1. /\ requests' \subseteq requests /\ UNCHANGED <<apiKeys, dropping, service, crashes>>
          /\ MayCredit(apiKeys[k], a)
          /\ tally' = tally \/ tally' = [tally EXCEPT ![a] = @ + 1]
      BY <1>3 DEF Submit, Release
    <2>2. \A b \in Actors \ {a} : tally'[b] = tally[b]
      BY <1>0, <2>1
    <2>3. Credited'
      BY <1>0, <2>1, <2>2 DEF Credited
    <2> QED BY <1>0, <2>1, <2>3 DEF RestInv, RestTyped
  <1>4. ASSUME NEW k \in ApiKeys, NEW scope \in SUBSET Actors, MintKey(k, scope)
        PROVE  RestInv'
    <2>1. /\ apiKeys[k] = None /\ apiKeys' = [apiKeys EXCEPT ![k] = scope]
          /\ UNCHANGED <<requests, dropping, service, crashes, tally>>
      BY <1>4 DEF MintKey
    <2>2. apiKeys' \in [ApiKeys -> {None} \cup SUBSET Actors]
      BY <1>0, <2>1
    <2>3. Credited'
      <3> SUFFICES ASSUME NEW a \in Actors, tally[a] > 0
                   PROVE  \E j \in ApiKeys : MayCredit(apiKeys'[j], a)
        BY <2>1 DEF Credited
      <3>1. PICK j \in ApiKeys : MayCredit(apiKeys[j], a)
        BY <1>0 DEF Credited
      <3>2. j # k
        BY <2>1, <3>1 DEF MayCredit
      <3> QED BY <1>0, <2>1, <3>1, <3>2
    <2> QED BY <1>0, <2>1, <2>2, <2>3 DEF RestInv, RestTyped
  <1>5. CASE Flush \/ FlushFails
    <2>1. /\ dropping' \subseteq dropping \cup Invalidated(batch)
          /\ UNCHANGED <<apiKeys, requests, service, crashes, tally>>
      BY <1>5 DEF Flush, FlushFails
    <2> QED BY <1>0, <2>1, InvalidatedKnown DEF RestInv, RestTyped, Credited
  <1>6. ASSUME \/ Collect \/ (\E k \in dropping : Invalidate(k)) \/ Starting
               \/ SelectEvents \/ SelectStats \/ SelectActors
               \/ (\E recorded \in BOOLEAN : RecordVerdict(recorded))
               \/ Tick \/ \E a \in Actors : Tamper(a)
        PROVE  RestInv'
    <2>1. UNCHANGED <<apiKeys, requests, crashes, tally>> /\ dropping' \subseteq dropping
      BY <1>6 DEF Collect, Invalidate, Starting, SelectEvents, SelectStats, SelectActors,
                  RecordVerdict, Tick, Tamper
    <2>2. service' \in {"down", "boot", "up"}
      BY <1>0, <1>6 DEF Collect, Invalidate, Starting, SelectEvents, SelectStats, SelectActors,
                  RecordVerdict, Tick, Tamper
    <2> QED BY <1>0, <2>1, <2>2 DEF RestInv, RestTyped, Credited
  <1>7. CASE Stop
    <2>1. /\ requests' = {} /\ dropping' = {} /\ service' = "down" /\ crashes' = crashes + 1
          /\ UNCHANGED <<apiKeys, tally>>
      BY <1>7 DEF Stop
    <2> QED BY <1>0, <2>1 DEF RestInv, RestTyped, Credited
  <1> QED BY <1>1, <1>2, <1>3, <1>4, <1>5, <1>6, <1>7 DEF Next

LEMMA RestInductive == Spec => []RestInv
  BY BooksInductive, RestInit, RestStep, PTL DEF Spec

\* Whatever interleaves, stops or fails: an accepted event is queued, being
\* written, stored or counted as lost, and was sent with a key that may credit its
\* actor; no window holds more of an actor's events than the limit; the guard and
\* the cache are exact (WriteQueue, key_may_credit, RateLimiter, CapacityGuard).
THEOREM MemoryIsSound == Spec => []ApiSound
  <1>1. ApiInv /\ BooksInv /\ RateInv /\ RestInv => ApiSound
    <2> SUFFICES ASSUME ApiInv, BooksInv, RateInv, RestInv PROVE ApiSound
      OBVIOUS
    <2>1. InFlightExact /\ CacheBounded
      BY DEF ApiInv, GuardExact, CacheOK, InFlightExact, CacheBounded
    <2>2. RateHolds
      BY DEF RateInv
    <2>3. EventsAccounted
      BY DEF BooksInv, BooksRight, Waiting, RestInv, Credited, EventsAccounted
    <2>4. TypeOK
      <3>1. inFlight \in Nat
        BY FS_CardinalityType DEF ApiInv, GuardExact
      <3>2. DOMAIN cache.data \subseteq CacheKeys /\ cache.order \in Seq(CacheKeys)
        BY KeysKnown DEF ApiInv, CacheOK
      <3> QED BY <3>1, <3>2 DEF TypeOK, BooksInv, BooksTyped, ReconOK, RateInv, RateTyped,
                 RestInv, RestTyped
    <2> QED BY <2>1, <2>2, <2>3, <2>4 DEF ApiSound
  <1> QED BY Inductive, BooksInductive, RateInductive, RestInductive, <1>1, PTL

=============================================================================
