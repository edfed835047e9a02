---------------------------- MODULE SignedWrites ----------------------------
(***************************************************************************)
(* Who may write, and how often: the signature guard in front of every     *)
(* write route, the table that remembers signatures, the pruning that      *)
(* forgets them, the two registries a key is looked up in, and a restart.  *)
(*                                                                         *)
(* Sources: hexis_identity.py (verify_signed_write and its checks,         *)
(* prune_write_signatures) and of hexis_bridge_v0.6.2.py require_signature,*)
(* _maybe_prune, /worker/register, /consumer/register, the registry reload *)
(* and audit_identity_registries.                                          *)
(*                                                                         *)
(* A client signs a request once; the network may lose it, delay it, alter *)
(* it or deliver it any number of times, in any order.  An address is      *)
(* derived from its key, so one model value is both.  A request that fails *)
(* a check changes nothing and is no step.  The guard and both             *)
(* registrations are coroutines with no await between their check and     *)
(* their effect: a delivery is one step.                                   *)
(***************************************************************************)
EXTENDS Integers, Sequences, FiniteSets

CONSTANTS
    Actors,        \* addresses, each with its key
    Requests,      \* signed requests
    Nonces,        \* nonces clients choose
    None,          \* not signed yet
    Drifts,        \* how far a client's clock may be from the bridge's
    MaxAge,        \* SIG_MAX_AGE_S
    ClockSkew,     \* SIG_CLOCK_SKEW_S
    Retention,     \* retain_seconds
    PruneEvery,    \* PRUNE_EVERY_N_WRITES
    QueueSize,     \* MAX_QUEUE_SIZE
    MaxTime,       \* bound: the clock stops here
    MaxCrashes     \* bound on restarts

ASSUME ClockAssumption ==
    /\ Drifts \subseteq Int
    /\ {MaxAge, ClockSkew, Retention, QueueSize, MaxTime, MaxCrashes} \subseteq Nat
    /\ PruneEvery \in Nat \ {0}

\* SIG_NONCE_TTL_S; prune_write_signatures raises on a shorter retention.
ASSUME RetentionAssumption == Retention >= MaxAge + ClockSkew

VARIABLES
    now,          \* the bridge's clock, in whole seconds
    signed,       \* what each request says, once its client signed it
    rows,         \* write_signatures: nonce and received_at
    served,       \* when each request passed the guard, in order
    writes,       \* _writes_since_prune, modulo PruneEvery
    workers,      \* STATE.workers
    consumers,    \* STATE.consumers
    queue,        \* registrations on their way to SQLite
    dbWorkers,    \* the workers table
    dbConsumers,  \* the consumers table
    up,           \* the bridge serves
    reloaded,     \* the last boot could read both registries
    crashes       \* restarts so far

registryVars == <<workers, consumers, queue, dbWorkers, dbConsumers>>
guardVars == <<rows, served, writes>>
processVars == <<up, reloaded, crashes>>
vars == <<now, signed, guardVars, registryVars, processVars>>

Kinds == {"write", "register_worker", "register_consumer"}
Request == [by : Actors, kind : Kinds, created : Int, nonce : Nonces]
Row == [nonce : Nonces, at : Nat]
Registration == [kind : Kinds \ {"write"}, by : Actors]

Init ==
    /\ now = 0
    /\ signed = [m \in Requests |-> None]
    /\ rows = {}
    /\ served = [m \in Requests |-> <<>>]
    /\ writes = 0
    /\ workers = {} /\ consumers = {} /\ queue = <<>>
    /\ dbWorkers = {} /\ dbConsumers = {}
    /\ up = TRUE /\ reloaded = TRUE
    /\ crashes = 0

-----------------------------------------------------------------------------
(* The client *)

\* The client stamps the request with its own clock and a nonce it picks.
Sign(m, a, k, n, drift) ==
    /\ signed[m] = None
    /\ signed' = [signed EXCEPT ![m] =
                    [by |-> a, kind |-> k, created |-> now + drift, nonce |-> n]]
    /\ UNCHANGED <<now, guardVars, registryVars, processVars>>

-----------------------------------------------------------------------------
(* The guard *)

\* What arrives, which the network may have altered: the actor the route takes from
\* it, the endpoint the router matched (signing_url rebuilds the URL from that and
\* not from the request's text), and the body's bytes.  "covers" is whether the
\* signature extends to all of SIG_REQUIRED_COMPONENTS.
Parts == {"as signed", "other"}
Delivery == [actor : Actors, endpoint : Parts, body : Parts, covers : BOOLEAN]

\* The signature verifies over endpoint and body, and its keyid is the actor's.
Authentic(q, d) ==
    /\ d.actor = q.by
    /\ d.endpoint = "as signed" /\ d.body = "as signed"
    /\ d.covers

\* _check_freshness.
Fresh(q) == q.created <= now + ClockSkew /\ q.created >= now - MaxAge

\* The key a write is checked against is looked up; a registration brings its own.
KeyKnown(q) == q.kind = "write" => q.by \in workers \cup consumers

NonceUsed(n) == \E w \in rows : w.nonce = n

\* Mutant of Expired: a row exactly as old as the retention goes as well.
ExpiredAtLimit(w, t) == w.at <= t - Retention

\* Mutant of Expired: the skew a fast client is allowed is forgotten.
ExpiredAtMaxAge(w, t) == w.at < t - MaxAge

\* The rows pruning deletes at time t.
Expired(w, t) == w.at < t - Retention

\* What is remembered of a signed request.
RowOf(q) == [nonce |-> q.nonce, at |-> now]

\* Every PruneEvery-th guarded write prunes; a prune that fails is only logged.
MaybePrune(new) ==
    /\ writes' = (writes + 1) % PruneEvery
    /\ \/ rows' = new
       \/ writes' = 0 /\ rows' = {w \in new : ~Expired(w, now)}

\* The signature is checked and recorded.  The registrations call the check
\* directly and do not count towards the next prune.
Record(m) ==
    LET q   == signed[m]
        new == rows \cup {RowOf(q)}
    IN  /\ Fresh(q) /\ KeyKnown(q)
        /\ ~NonceUsed(q.nonce)
        /\ served' = [served EXCEPT ![m] = Append(@, now)]
        /\ IF q.kind = "write"
           THEN MaybePrune(new)
           ELSE rows' = new /\ UNCHANGED writes

Write(m, d) ==
    /\ up /\ signed[m] # None
    /\ Authentic(signed[m], d)
    /\ signed[m].kind = "write"
    /\ Record(m)
    /\ UNCHANGED <<now, signed, registryVars, processVars>>

-----------------------------------------------------------------------------
(* Registration *)

Submitted(k, a) == IF Len(queue) < QueueSize
                   THEN Append(queue, [kind |-> k, by |-> a])
                   ELSE queue

RegisterWorker(m, d) ==
    /\ up /\ signed[m] # None
    /\ Authentic(signed[m], d)
    /\ signed[m].kind = "register_worker"
    /\ Record(m)
    /\ LET a == signed[m].by IN
         IF a \in workers
         THEN UNCHANGED <<workers, queue>>
         ELSE /\ workers' = workers \cup {a}
              /\ queue' = Submitted("register_worker", a)
    /\ UNCHANGED <<now, signed, consumers, dbWorkers, dbConsumers, processVars>>

RegisterConsumer(m, d) ==
    /\ up /\ signed[m] # None
    /\ Authentic(signed[m], d)
    /\ signed[m].kind = "register_consumer"
    /\ Record(m)
    /\ LET a == signed[m].by IN
         IF a \in consumers \cup workers
         THEN UNCHANGED <<consumers, queue>>
         ELSE /\ consumers' = consumers \cup {a}
              /\ queue' = Submitted("register_consumer", a)
    /\ UNCHANGED <<now, signed, workers, dbWorkers, dbConsumers, processVars>>

Flush ==
    /\ up /\ queue # <<>>
    /\ LET q == Head(queue) IN
         IF q.kind = "register_worker"
         THEN dbWorkers' = dbWorkers \cup {q.by} /\ UNCHANGED dbConsumers
         ELSE dbConsumers' = dbConsumers \cup {q.by} /\ UNCHANGED dbWorkers
    /\ queue' = Tail(queue)
    /\ UNCHANGED <<now, signed, guardVars, workers, consumers, processVars>>

\* A batch that fails to write was popped already.
FlushLost ==
    /\ up /\ queue # <<>>
    /\ queue' = Tail(queue)
    /\ UNCHANGED <<now, signed, guardVars, workers, consumers, dbWorkers, dbConsumers,
                   processVars>>

-----------------------------------------------------------------------------
(* The process and the clock *)

Crash ==
    /\ up /\ crashes < MaxCrashes
    /\ up' = FALSE
    /\ crashes' = crashes + 1
    /\ workers' = {} /\ consumers' = {} /\ queue' = <<>>
    /\ writes' = 0
    /\ UNCHANGED <<now, signed, rows, served, dbWorkers, dbConsumers, reloaded>>

\* Mutant of Reload: the rows of the consumers are not read.
ReloadWorkersOnly(ws, cs) ==
    /\ workers' = ws /\ consumers' = {}

\* The registries as read, refused when an address is in both.
Reload(ws, cs) ==
    /\ ws \cap cs = {}
    /\ workers' = ws /\ consumers' = cs

\* Both registries are reloaded; an address in both refuses to start.
Boot ==
    /\ ~up
    /\ Reload(dbWorkers, dbConsumers)
    /\ up' = TRUE /\ reloaded' = TRUE
    /\ UNCHANGED <<now, signed, guardVars, queue, dbWorkers, dbConsumers, crashes>>

\* A registry that cannot be read is logged and left empty.
BootBlind ==
    /\ ~up
    /\ \/ Reload(dbWorkers, {})
       \/ Reload({}, dbConsumers)
       \/ Reload({}, {})
    /\ up' = TRUE /\ reloaded' = FALSE
    /\ UNCHANGED <<now, signed, guardVars, queue, dbWorkers, dbConsumers, crashes>>

Tick ==
    /\ now < MaxTime
    /\ now' = now + 1
    /\ UNCHANGED <<signed, guardVars, registryVars, processVars>>

Next ==
    \/ \E m \in Requests : \E a \in Actors : \E k \in Kinds : \E n \in Nonces :
         \E drift \in Drifts : Sign(m, a, k, n, drift)
    \/ \E m \in Requests, d \in Delivery : Write(m, d)
    \/ \E m \in Requests, d \in Delivery : RegisterWorker(m, d)
    \/ \E m \in Requests, d \in Delivery : RegisterConsumer(m, d)
    \/ Flush
    \/ FlushLost
    \/ Crash
    \/ Boot
    \/ BootBlind
    \/ Tick

Spec == Init /\ [][Next]_vars

-----------------------------------------------------------------------------
(* Properties *)

TypeOK ==
    /\ now \in Nat
    /\ signed \in [Requests -> Request \cup {None}]
    /\ rows \subseteq Row
    /\ served \in [Requests -> Seq(Nat)]
    /\ writes \in 0..(PruneEvery - 1)
    /\ workers \subseteq Actors /\ consumers \subseteq Actors
    /\ queue \in Seq(Registration)
    /\ dbWorkers \subseteq Actors /\ dbConsumers \subseteq Actors
    /\ up \in BOOLEAN /\ reloaded \in BOOLEAN
    /\ crashes \in Nat

\* A signed request is served at most once, however often and however late it is
\* delivered, whatever was pruned and however often the bridge restarted: a row
\* is only forgotten when every signature it could belong to has gone stale.
ServedOnce == \A m \in Requests : Len(served[m]) <= 1

\* The evidence that a write was signed survives for the whole retention, counted
\* from when the write was received and not from when its client says it signed.
EvidenceKept ==
    \A m \in Requests : \A i \in 1..Len(served[m]) :
        served[m][i] >= now - Retention =>
            [nonce |-> signed[m].nonce, at |-> served[m][i]] \in rows

\* An actor with a row can sign: no restart and no lost batch leaves a registered
\* actor unknown to the guard while its row is on disk, unless the boot could not
\* read the registries.
OnDiskCanSign ==
    TypeOK /\ (up /\ reloaded => dbWorkers \subseteq workers /\ dbConsumers \subseteq consumers)
=============================================================================
