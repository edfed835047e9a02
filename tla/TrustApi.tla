------------------------------ MODULE TrustApi ------------------------------
(***************************************************************************)
(* The Trust API: requests admitted past the capacity guard and the rate   *)
(* limits, keys and what they may credit, events accepted into a queue     *)
(* that one worker writes in batches, a cache in front of every read, and  *)
(* a reconcile that compares stored totals with the events behind them     *)
(* from another thread.                                                    *)
(*                                                                         *)
(* Sources: hexis_api_v0.6.1.py and hexis_reconcile.py.                    *)
(*                                                                         *)
(* One event loop runs every coroutine, and no lock of the cache, the      *)
(* limiter or the guard is ever held across an await: between two awaits a *)
(* handler is one step.  The reconcile runs on a thread: each SELECT of    *)
(* its is a step, and a batch may commit between two of them.              *)
(***************************************************************************)
EXTENDS Integers, Sequences, FiniteSets, Functions

CONSTANTS
    Actors,
    ApiKeys,
    Requests,      \* requests that can be in flight
    None,
    Mint,          \* what compute_hexis gives for one event
    MaxConcurrent, \* MAX_CONCURRENT_REQUESTS
    MaxQueue,      \* MAX_QUEUE_SIZE
    BatchMax,      \* DB_WRITE_BATCH_MAX_SIZE
    CacheMax,      \* CACHE_MAX_ENTRIES
    Ttl,           \* CACHE_*_TTL_SEC, by kind of answer
    Limit,         \* RATE_LIMIT_PER_IP_PER_SEC, _PER_IP_PER_MIN, _PER_ACTOR_PER_MIN
    Window,        \* the windows they are counted over
    MaxTime,       \* bound: the clock stops here
    MaxEvents,     \* bound on accepted events
    MaxOrder,      \* bound on the cache's order list
    MaxCrashes,    \* bound on stops
    MaxTampers     \* bound on edits of hexis.db by hand

Limits == {"ip_sec", "ip_min", "actor"}
Kinds == {"trust", "history", "leaderboard", "status"}

ASSUME ApiAssumption ==
    /\ Mint \in Nat \ {0}
    /\ {MaxConcurrent, MaxQueue, BatchMax, CacheMax} \subseteq Nat \ {0}
    /\ Ttl \in [Kinds -> Nat]
    /\ Limit \in [Limits -> Nat \ {0}]
    /\ Window \in [Limits -> Nat]
    /\ {MaxTime, MaxEvents, MaxOrder, MaxCrashes, MaxTampers} \subseteq Nat
    /\ None \notin Actors /\ Limits \cap Actors = {}   \* the buckets' keys carry a prefix
    /\ IsFiniteSet(Actors)

VARIABLES
    now,
    apiKeys,      \* api_keys: the scope of each key, None before it is issued
    buckets,      \* RateLimiter.buckets
    requests,     \* the requests being served
    inFlight,     \* CapacityGuard.in_flight
    cache,        \* TTLCache
    queue,        \* WriteQueue.queue
    batch,        \* what the worker has collected
    dropping,     \* keys of invalidate tasks that have not run yet
    db,           \* hexis.db
    recon,        \* the reconcile thread
    service,      \* the process
    crashes, tampers,
    accepted,     \* history: the events accepted since the last start
    tally,        \* history: events accepted, of each actor
    lost          \* history: accepted events that a failed batch or a stop lost

loopVars == <<buckets, requests, inFlight, cache, queue, batch, dropping>>
historyVars == <<accepted, tally, lost>>
boundVars == <<crashes, tampers>>
vars == <<now, apiKeys, loopVars, db, recon, service, boundVars, historyVars>>

\* Keys of the cache.  The limit of a leaderboard is part of its key.
TrustKey(a) == <<"trust", a>>
HistoryKey(a) == <<"history", a>>
LeaderboardKey == <<"leaderboard", "100">>
StatusKey == <<"status">>
CacheKeys == {TrustKey(a) : a \in Actors} \cup {HistoryKey(a) : a \in Actors}
             \cup {LeaderboardKey, StatusKey}

BucketKeys == {"ip_sec", "ip_min"} \cup Actors
LimitOf(b) == IF b \in {"ip_sec", "ip_min"} THEN b ELSE "actor"

NoActor == [score |-> 0, count |-> 0, known |-> FALSE]
NoRun == [pc |-> "idle", boot |-> FALSE]

Total(f) == SumFunctionOnSet(f, Actors)

Init ==
    /\ now = 0
    /\ apiKeys \in [ApiKeys -> {None, {}}]
    /\ buckets = [b \in BucketKeys |-> << >>]
    /\ requests = {}
    /\ inFlight = 0
    /\ cache = [data |-> << >>, order |-> << >>]
    /\ queue = << >>
    /\ batch = << >>
    /\ dropping = {}
    /\ db = [events |-> [a \in Actors |-> 0], minted |-> [a \in Actors |-> 0],
             actors |-> [a \in Actors |-> NoActor],
             stats  |-> [events |-> 0, mined |-> 0]]
    /\ recon = NoRun
    /\ service = "down"
    /\ crashes = 0 /\ tampers = 0
    /\ accepted = << >>
    /\ tally = [a \in Actors |-> 0]
    /\ lost = [a \in Actors |-> 0]

----------------------------------------------------------------------------
(* RateLimiter.check.                                                      *)

\* Mutant: an entry exactly one window old is dropped.
ExpiredAtWindow(at, w) == at <= now - w

\* Older than the window, strictly.
Expired(at, w) == at < now - w

\* What popleft leaves: the expired entries at the front go, up to the first
\* that is not.
Live(b) ==
    LET w == Window[LimitOf(b)]
        len == Len(buckets[b])
        gone == CHOOSE n \in 0 .. len :
                  /\ \A i \in 1 .. n : Expired(buckets[b][i], w)
                  /\ n < len => ~Expired(buckets[b][n + 1], w)
    IN  SubSeq(buckets[b], gone + 1, len)

Allowed(b) == Len(Live(b)) < Limit[LimitOf(b)]

\* What a check leaves in the bucket; a check that denies adds nothing.
Counted(b) == IF Allowed(b) THEN Append(Live(b), now) ELSE Live(b)

----------------------------------------------------------------------------
(* TTLCache.                                                               *)

CacheKeep(c, keys) ==
    [c EXCEPT !.data = [k \in DOMAIN c.data \cap keys |-> c.data[k]]]

\* invalidate, and get on an expired entry: the order list is not touched.
CacheDrop(c, k) == CacheKeep(c, CacheKeys \ {k})

First(c, n) == {c.order[i] : i \in 1 .. n}

FullAfter(c, n) == Cardinality(DOMAIN c.data \ First(c, n)) >= CacheMax

\* How many the eviction loop takes off the front of the order list.
Evictions(c) ==
    CHOOSE n \in 0 .. Len(c.order) :
        /\ FullAfter(c, n) => n = Len(c.order)
        /\ \A m \in 0 .. n - 1 : FullAfter(c, m)

CacheEvict(c) ==
    LET n == Evictions(c)
    IN  [CacheKeep(c, CacheKeys \ First(c, n)) EXCEPT
           !.order = SubSeq(c.order, n + 1, Len(c.order))]

CacheSet(c, k, value) ==
    LET e == CacheEvict(c)
        entry == [at |-> now, value |-> value]
    IN  [data  |-> [j \in DOMAIN e.data \cup {k} |-> IF j = k THEN entry ELSE e.data[j]],
         order |-> Append(e.order, k)]

CacheHit(c, k) == k \in DOMAIN c.data /\ now - c.data[k].at <= Ttl[k[1]]

\* What each endpoint reads when the cache has no answer.
Answer(k) ==
    CASE k[1] = "trust"       -> db.actors[k[2]]
      [] k[1] = "history"     -> db.events[k[2]]
      [] k[1] = "leaderboard" -> {<<a, db.actors[a].score>> :
                                    a \in {b \in Actors : db.actors[b].score > 0}}
      [] k[1] = "status"      -> [actors |-> Cardinality({a \in Actors : db.actors[a].known}),
                                  stats  |-> db.stats]

----------------------------------------------------------------------------
(* Requests.                                                               *)

\* rate_limit_middleware: the capacity guard, then both limits of the address.
\* The first limit has counted the request even when the second denies it.
Arrive(r) ==
    /\ service = "up"
    /\ r \notin requests
    /\ inFlight < MaxConcurrent
    /\ LET second == Allowed("ip_sec")
           minute == second /\ Allowed("ip_min")
       IN  /\ buckets' = [buckets EXCEPT
                            !["ip_sec"] = Counted("ip_sec"),
                            !["ip_min"] = IF second THEN Counted("ip_min") ELSE @]
           /\ requests' = IF minute THEN requests \cup {r} ELSE requests
           /\ inFlight' = IF minute THEN inFlight + 1 ELSE inFlight
    /\ UNCHANGED <<now, apiKeys, cache, queue, batch, dropping, db, recon, service,
                   boundVars, historyVars>>

\* The finally of the middleware.
Release(r) ==
    /\ r \in requests
    /\ requests' = requests \ {r}
    /\ inFlight' = IF inFlight > 0 THEN inFlight - 1 ELSE 0

\* An answer that touches nothing: refused, unknown key, or a client that left.
Refuse(r) ==
    /\ Release(r)
    /\ UNCHANGED <<now, apiKeys, buckets, cache, queue, batch, dropping, db, recon,
                   service, boundVars, historyVars>>

\* GET /trust, /integrity, /leaderboard and /status.
Get(r, k) ==
    /\ Release(r)
    /\ cache' = IF CacheHit(cache, k) THEN cache
                ELSE CacheSet(CacheDrop(cache, k), k, Answer(k))
    /\ Len(cache'.order) <= MaxOrder
    /\ UNCHANGED <<now, apiKeys, buckets, queue, batch, dropping, db, recon, service,
                   boundVars, historyVars>>

\* key_may_credit: a key with no scope recorded credits nobody; "*" is Actors.
MayCredit(scope, a) == scope # None /\ a \in scope

\* POST /integrity/submit with key k: the actor's limit counts an event even
\* when the queue has no room for it.
Submit(r, k, a) ==
    /\ Release(r)
    /\ MayCredit(apiKeys[k], a)
    /\ Total(tally) < MaxEvents
    /\ buckets' = [buckets EXCEPT ![a] = Counted(a)]
    /\ IF Allowed(a) /\ Len(queue) < MaxQueue
       THEN /\ queue' = Append(queue, [actor |-> a, minted |-> Mint])
            /\ accepted' = Append(accepted, [actor |-> a, at |-> now])
            /\ tally' = [tally EXCEPT ![a] = @ + 1]
       ELSE UNCHANGED <<queue, accepted, tally>>
    /\ UNCHANGED <<now, apiKeys, cache, batch, dropping, db, recon, service, boundVars, lost>>

\* --create-key, at the host's shell.
MintKey(k, scope) ==
    /\ apiKeys[k] = None
    /\ scope # {}
    /\ apiKeys' = [apiKeys EXCEPT ![k] = scope]
    /\ UNCHANGED <<now, loopVars, db, recon, service, boundVars, historyVars>>

----------------------------------------------------------------------------
(* WriteQueue._worker.                                                     *)

Collect ==
    /\ service = "up"
    /\ queue # << >>
    /\ Len(batch) < BatchMax
    /\ batch' = Append(batch, Head(queue))
    /\ queue' = Tail(queue)
    /\ UNCHANGED <<now, apiKeys, buckets, requests, inFlight, cache, dropping, db, recon,
                   service, boundVars, historyVars>>

Of(events, a) == {i \in DOMAIN events : events[i].actor = a}
MintedIn(events, rows) == SumFunctionOnSet([i \in DOMAIN events |-> events[i].minted], rows)
MintedOf(events, a) == MintedIn(events, Of(events, a))

\* _insert_event and _update_actor, for every event of the batch.
Written(d, events) ==
    [events |-> [a \in Actors |-> d.events[a] + Cardinality(Of(events, a))],
     minted |-> [a \in Actors |-> d.minted[a] + MintedOf(events, a)],
     actors |-> [a \in Actors |->
                   IF Of(events, a) = {} THEN d.actors[a]
                   ELSE [score |-> d.actors[a].score + MintedOf(events, a),
                         count |-> d.actors[a].count + Cardinality(Of(events, a)),
                         known |-> TRUE]],
     stats  |-> [events |-> d.stats.events + Len(events),
                 mined  |-> d.stats.mined + MintedIn(events, DOMAIN events)]]

\* Mutant: invalidation was forgotten for the network's totals.
InvalidatedActors(events) == {TrustKey(events[i].actor) : i \in DOMAIN events}

\* The keys _flush invalidates.  Leaderboards are cached under a key with their
\* limit; the key invalidated here has none.
Invalidated(events) ==
    {TrustKey(events[i].actor) : i \in DOMAIN events} \cup {<<"leaderboard">>, StatusKey}

\* BEGIN to COMMIT has no await in it; the invalidations are tasks that run
\* after it.
Flush ==
    /\ service = "up"
    /\ batch # << >>
    /\ db' = Written(db, batch)
    /\ dropping' = dropping \cup Invalidated(batch)
    /\ batch' = << >>
    /\ UNCHANGED <<now, apiKeys, buckets, requests, inFlight, cache, queue, recon,
                   service, boundVars, historyVars>>

LostWith(events) == [a \in Actors |-> lost[a] + Cardinality(Of(events, a))]

\* ROLLBACK: the worker logs it and goes on with the next batch.  A COMMIT that
\* fails has started the invalidations already.
FlushFails ==
    /\ service = "up"
    /\ batch # << >>
    /\ dropping' \in {dropping, dropping \cup Invalidated(batch)}
    /\ lost' = LostWith(batch)
    /\ batch' = << >>
    /\ UNCHANGED <<now, apiKeys, buckets, requests, inFlight, cache, queue, db, recon,
                   service, boundVars, accepted, tally>>

\* One invalidate task.
Invalidate(k) ==
    /\ k \in dropping
    /\ dropping' = dropping \ {k}
    /\ cache' = CacheDrop(cache, k)
    /\ UNCHANGED <<now, apiKeys, buckets, requests, inFlight, queue, batch, db, recon,
                   service, boundVars, historyVars>>

----------------------------------------------------------------------------
(* run_reconcile and reconcile_hexis_db.  BEGIN DEFERRED takes its         *)
(* snapshot at the first SELECT.                                           *)

\* Mutant: autocommit reads, each with a snapshot of its own.
SeenNow == db

\* What a later SELECT of the run sees.
Seen == recon.snap

Starting ==
    /\ service = "down"
    /\ service' = "boot"
    /\ UNCHANGED <<now, apiKeys, loopVars, db, recon, boundVars, historyVars>>

SelectEvents ==
    /\ service \in {"boot", "up"}
    /\ recon.pc = "idle"
    /\ recon' = [pc |-> "stats", boot |-> service = "boot", snap |-> db,
                 events |-> Total(db.events), minted |-> Total(db.minted)]
    /\ UNCHANGED <<now, apiKeys, loopVars, db, service, boundVars, historyVars>>

SelectStats ==
    /\ recon.pc = "stats"
    /\ recon' = [pc |-> "actors", boot |-> recon.boot, snap |-> recon.snap,
                 ok |-> Seen.stats = [events |-> recon.events, mined |-> recon.minted]]
    /\ UNCHANGED <<now, apiKeys, loopVars, db, service, boundVars, historyVars>>

\* The stored score and count of every row, and the events without a row.
ActorAgrees(d, a) ==
    IF d.actors[a].known
    THEN d.actors[a].score = d.minted[a] /\ d.actors[a].count = d.events[a]
    ELSE d.events[a] = 0

SelectActors ==
    /\ recon.pc = "actors"
    /\ recon' = [recon EXCEPT !.pc = "record",
                              !.ok = @ /\ \A a \in Actors : ActorAgrees(Seen, a)]
    /\ UNCHANGED <<now, apiKeys, loopVars, db, service, boundVars, historyVars>>

\* append_record, observe, and at boot the decision; the record can fail.
RecordVerdict(recorded) ==
    /\ recon.pc = "record"
    /\ recon' = NoRun
    /\ service' = IF recon.boot THEN (IF recorded /\ recon.ok THEN "up" ELSE "down")
                  ELSE service
    /\ UNCHANGED <<now, apiKeys, loopVars, db, boundVars, historyVars>>

----------------------------------------------------------------------------
(* The clock, a stop, and a hand on the database.                          *)

Tick ==
    /\ now < MaxTime
    /\ now' = now + 1
    /\ UNCHANGED <<apiKeys, loopVars, db, recon, service, boundVars, historyVars>>

\* A crash, and the end of lifespan too: it cancels the reconcile loop and
\* leaves the queue as it is.
Stop ==
    /\ service # "down"
    /\ crashes < MaxCrashes
    /\ crashes' = crashes + 1
    /\ service' = "down"
    /\ buckets' = [b \in BucketKeys |-> << >>]
    /\ requests' = {}
    /\ inFlight' = 0
    /\ cache' = [data |-> << >>, order |-> << >>]
    /\ queue' = << >>
    /\ batch' = << >>
    /\ dropping' = {}
    /\ recon' = NoRun
    /\ lost' = LostWith(queue \o batch)
    /\ accepted' = << >>
    /\ UNCHANGED <<now, apiKeys, db, tampers, tally>>

\* Somebody edits hexis.db: an event or an actor's row is gone.
Tamper(a) ==
    /\ tampers < MaxTampers
    /\ tampers' = tampers + 1
    /\ \/ /\ db.events[a] > 0
          /\ db' = [db EXCEPT !.events[a] = @ - 1, !.minted[a] = @ - Mint]
       \/ /\ db.actors[a].known
          /\ db' = [db EXCEPT !.actors[a] = NoActor]
    /\ UNCHANGED <<now, apiKeys, loopVars, recon, service, crashes, historyVars>>

Next ==
    \/ \E r \in Requests : Arrive(r) \/ Refuse(r)
    \/ \E r \in Requests, k \in CacheKeys : Get(r, k)
    \/ \E r \in Requests, k \in ApiKeys, a \in Actors : Submit(r, k, a)
    \/ \E k \in ApiKeys, scope \in SUBSET Actors : MintKey(k, scope)
    \/ Collect \/ Flush \/ FlushFails
    \/ \E k \in dropping : Invalidate(k)
    \/ Starting \/ SelectEvents \/ SelectStats \/ SelectActors
    \/ \E recorded \in BOOLEAN : RecordVerdict(recorded)
    \/ Tick \/ Stop \/ \E a \in Actors : Tamper(a)

Spec == Init /\ [][Next]_vars

----------------------------------------------------------------------------
(* Properties.                                                             *)

Events == Seq([actor : Actors, minted : Nat])
Database ==
    [events : [Actors -> Nat], minted : [Actors -> Int],
     actors : [Actors -> [score : Nat, count : Nat, known : BOOLEAN]],
     stats  : [events : Nat, mined : Nat]]

TypeOK ==
    /\ now \in Nat
    /\ apiKeys \in [ApiKeys -> {None} \cup SUBSET Actors]
    /\ buckets \in [BucketKeys -> Seq(Nat)]
    /\ requests \subseteq Requests
    /\ inFlight \in Nat
    /\ DOMAIN cache.data \subseteq CacheKeys
    /\ cache.order \in Seq(CacheKeys)
    /\ queue \in Events /\ batch \in Events
    /\ dropping \subseteq CacheKeys \cup {<<"leaderboard">>}
    /\ db \in Database
    /\ recon.pc \in {"idle", "stats", "actors", "record"} /\ recon.boot \in BOOLEAN
    /\ service \in {"down", "boot", "up"}
    /\ crashes \in Nat /\ tampers \in Nat
    /\ accepted \in Seq([actor : Actors, at : Nat])
    /\ tally \in [Actors -> Nat] /\ lost \in [Actors -> Nat]

\* The guard's counter is the number of requests being served: no way out of a
\* handler, and no stop, leaves it wrong.
InFlightExact == inFlight = Cardinality(requests) /\ inFlight <= MaxConcurrent

\* Every cached key is somewhere in the order list, so the eviction loop always
\* finds room, whatever was invalidated or cached twice in between.
CacheBounded ==
    /\ Cardinality(DOMAIN cache.data) <= CacheMax
    /\ DOMAIN cache.data \subseteq First(cache, Len(cache.order))

\* An accepted event is in the queue, in the batch, stored, or lost in one of
\* the two ways that are logged or seen; none is written twice.  The stored
\* totals are what the events add up to, unless somebody edited the file.
EventsAccounted ==
    \A a \in Actors :
        LET waiting == Cardinality(Of(queue, a)) + Cardinality(Of(batch, a))
        IN  /\ tampers = 0 => tally[a] = waiting + db.events[a] + lost[a]
            /\ tally[a] > 0 => \E k \in ApiKeys : MayCredit(apiKeys[k], a)

\* No window of the clock holds more accepted events of an actor than the
\* limit, since the last start (the buckets are in memory).
RateHolds ==
    \A a \in Actors : \A i \in Of(accepted, a) :
        Cardinality({j \in Of(accepted, a) :
            accepted[j].at \in accepted[i].at - Window["actor"] .. accepted[i].at})
        <= Limit["actor"]

\* The service's books in memory are right whatever interleaves: in-flight
\* count, cache bound, accepted events and rate limit.
ApiSound == TypeOK /\ InFlightExact /\ CacheBounded /\ EventsAccounted /\ RateHolds

\* A cached trust or status answer differs from the database only while a task
\* that will drop it is waiting to run (_flush), or somebody edited the file.
CachedIsCurrent ==
    \A k \in DOMAIN cache.data :
        /\ k[1] \in {"trust", "status"}
        /\ cache.data[k].value # Answer(k)
        => k \in dropping \/ tampers > 0

Consistent(d) ==
    /\ d.stats = [events |-> Total(d.events), mined |-> Total(d.minted)]
    /\ \A a \in Actors : ActorAgrees(d, a)

\* A reconcile's verdict is the truth about one version of the database, the
\* one its first SELECT saw, whatever commits while it runs; and the database
\* the worker leaves behind is always consistent, so a reconcile never stops a
\* boot over nothing (read_snapshot).
ReconcileTrue ==
    /\ recon.pc = "record" => (recon.ok <=> Consistent(recon.snap))
    /\ tampers = 0 => Consistent(db)

=============================================================================
