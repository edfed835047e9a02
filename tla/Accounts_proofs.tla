--------------------------- MODULE Accounts_proofs ---------------------------
(***************************************************************************)
(* The two components that keep accounts, for every set of them.           *)
(*                                                                         *)
(* SignedWrites: a signed request is served at most once and leaves its    *)
(* evidence, for every pruning interval, every retention the code accepts  *)
(* and any number of restarts.  ServedOnce alone is not inductive: that a  *)
(* replay is refused rests on the row of the first delivery                *)
(* (EvidenceKept), and that the row is still there while the signature is  *)
(* fresh rests on how far ahead of its delivery a signature may be stamped *)
(* (StampedInTime).  That an actor on disk can sign rests on the write     *)
(* queue: a row is only ever on its way for an actor the registries        *)
(* already hold (QueueKnown).                                              *)
(*                                                                         *)
(* Newflow: the balances, the chain and the pool add up, and what settles  *)
(* was verified, for every genesis, job, proof, fee, stake and window, and *)
(* lists of any length.  CoreInv adds to the chain's account of a balance  *)
(* what no query shows: that what moved outside of blocks is in the pool   *)
(* (MoneyInv), so that ECU adds up because blocks only move it; that the   *)
(* pool has one item for a proof and approves verified ones only           *)
(* (PoolSound); and that a submission leaves it in one way (CountInv).     *)
(* process_pending is two passes over the pool; each keeps PoolSound and   *)
(* what the pool is worth, item by item (VerifyPass, SettlePass).          *)
(***************************************************************************)
EXTENDS SignedWrites, Newflow, Sums_proofs, TLAPS, SequenceTheorems

-----------------------------------------------------------------------------
(* Signed writes                                                           *)

\* What was served is a signed request that was fresh then.
StampedInTime ==
    \A m \in Requests : \A i \in 1..Len(served[m]) :
        /\ signed[m] # None
        /\ signed[m] \in Request
        /\ served[m][i] <= now
        /\ signed[m].created <= served[m][i] + ClockSkew

IInv == TypeOK /\ ServedOnce /\ EvidenceKept /\ StampedInTime

-----------------------------------------------------------------------------
(* Types *)

\* A request that is served is a signed one.
LEMMA RequestFields ==
    ASSUME TypeOK, NEW m \in Requests, signed[m] # None
    PROVE  /\ signed[m] \in Request
           /\ signed[m].by \in Actors
           /\ signed[m].kind \in Kinds
           /\ signed[m].created \in Int
           /\ signed[m].nonce \in Nonces
  BY DEF TypeOK, Request

\* The guard keeps the table, the history and the counter typed.
LEMMA RecordTyped ==
    ASSUME TypeOK, NEW m \in Requests, signed[m] # None, Record(m)
    PROVE  /\ rows' \subseteq Row
           /\ served' \in [Requests -> Seq(Nat)]
           /\ writes' \in 0..(PruneEvery - 1)
  <1>1. signed[m].nonce \in Nonces /\ now \in Nat
    BY RequestFields DEF TypeOK
  <1>2. RowOf(signed[m]) \in Row
    BY <1>1 DEF RowOf, Row
  <1>3. rows' \subseteq Row
    BY <1>2 DEF Record, MaybePrune, TypeOK
  <1>4. Append(served[m], now) \in Seq(Nat)
    BY <1>1 DEF TypeOK
  <1>5. served' \in [Requests -> Seq(Nat)]
    BY <1>4 DEF Record, TypeOK
  <1>6. (writes + 1) % PruneEvery \in 0..(PruneEvery - 1)
    BY ClockAssumption DEF TypeOK
  <1>7. writes' \in 0..(PruneEvery - 1)
    BY <1>6 DEF Record, MaybePrune, TypeOK
  <1> QED BY <1>3, <1>5, <1>7

\* A registration on its way to SQLite is one of a registering kind.
LEMMA SubmittedTyped ==
    ASSUME TypeOK, NEW k \in Kinds \ {"write"}, NEW a \in Actors
    PROVE  Submitted(k, a) \in Seq(Registration)
  <1>1. [kind |-> k, by |-> a] \in Registration
    BY DEF Registration
  <1>2. queue \in Seq(Registration)
    BY DEF TypeOK
  <1> QED BY <1>1, <1>2, AppendProperties DEF Submitted

LEMMA TypeStep == TypeOK /\ [Next]_vars => TypeOK'
  <1> SUFFICES ASSUME TypeOK, [Next]_vars PROVE TypeOK'
    OBVIOUS
  <1> USE DEF vars, guardVars, registryVars, processVars
  <1>1. ASSUME NEW m \in Requests, NEW a \in Actors, NEW k \in Kinds, NEW n \in Nonces,
               NEW drift \in Drifts, Sign(m, a, k, n, drift)
        PROVE  TypeOK'
    <2>1. now + drift \in Int
      BY ClockAssumption DEF TypeOK
    <2>2. [by |-> a, kind |-> k, created |-> now + drift, nonce |-> n] \in Request
      BY <2>1 DEF Request
    <2>3. signed' \in [Requests -> Request \cup {None}]
      BY <1>1, <2>2 DEF Sign, TypeOK
    <2> QED BY <1>1, <2>3 DEF Sign, TypeOK
  <1>2. ASSUME NEW m \in Requests, NEW d \in Delivery, Write(m, d)
        PROVE  TypeOK'
    BY <1>2, RecordTyped DEF Write, TypeOK
  <1>3. ASSUME NEW m \in Requests, NEW d \in Delivery, RegisterWorker(m, d)
        PROVE  TypeOK'
    <2>1. signed[m].by \in Actors
      BY <1>3, RequestFields DEF RegisterWorker
    <2>2. Submitted("register_worker", signed[m].by) \in Seq(Registration)
      BY <2>1, SubmittedTyped DEF Kinds
    <2>3. workers' \subseteq Actors /\ queue' \in Seq(Registration)
      BY <1>3, <2>1, <2>2 DEF RegisterWorker, TypeOK
    <2> QED BY <1>3, <2>3, RecordTyped DEF RegisterWorker, TypeOK
  <1>4. ASSUME NEW m \in Requests, NEW d \in Delivery, RegisterConsumer(m, d)
        PROVE  TypeOK'
    <2>1. signed[m].by \in Actors
      BY <1>4, RequestFields DEF RegisterConsumer
    <2>2. Submitted("register_consumer", signed[m].by) \in Seq(Registration)
      BY <2>1, SubmittedTyped DEF Kinds
    <2>3. consumers' \subseteq Actors /\ queue' \in Seq(Registration)
      BY <1>4, <2>1, <2>2 DEF RegisterConsumer, TypeOK
    <2> QED BY <1>4, <2>3, RecordTyped DEF RegisterConsumer, TypeOK
  <1>5. CASE Flush \/ FlushLost
    <2>1. queue \in Seq(Registration) /\ queue # <<>>
      BY <1>5 DEF Flush, FlushLost, TypeOK
    <2>2. Head(queue) \in Registration /\ Tail(queue) \in Seq(Registration)
      BY <2>1, HeadTailProperties
    <2>3. Head(queue).by \in Actors
      BY <2>2 DEF Registration
    <2> QED BY <1>5, <2>2, <2>3 DEF Flush, FlushLost, TypeOK
  <1>6. CASE Crash
    <2>1. 0 \in 0..(PruneEvery - 1)
      BY ClockAssumption
    <2>2. writes' \in 0..(PruneEvery - 1)
      BY <1>6, <2>1 DEF Crash
    <2>3. queue' \in Seq(Registration)
      BY <1>6 DEF Crash
    <2>4. crashes' \in Nat
      BY <1>6 DEF Crash, TypeOK
    <2>5. up' \in BOOLEAN
      BY <1>6 DEF Crash
    <2>6. workers' \subseteq Actors /\ consumers' \subseteq Actors
      BY <1>6 DEF Crash
    <2> QED BY <1>6, <2>2, <2>3, <2>4, <2>5, <2>6 DEF Crash, TypeOK
  <1>7. CASE Boot \/ BootBlind
    BY <1>7 DEF Boot, BootBlind, Reload, TypeOK
  <1>8. CASE Tick
    BY <1>8 DEF Tick, TypeOK
  <1>9. CASE UNCHANGED vars
    BY <1>9 DEF TypeOK
  <1> QED
    BY <1>1, <1>2, <1>3, <1>4, <1>5, <1>6, <1>7, <1>8, <1>9 DEF Next

-----------------------------------------------------------------------------
(* One delivery *)

\* A request that was served once is refused ever after: while its signature is
\* fresh the row of its first delivery is still remembered.
LEMMA ReplayRefused ==
    ASSUME IInv, NEW m \in Requests, served[m] # <<>>
    PROVE  ~Record(m)
  <1> SUFFICES ASSUME Record(m) PROVE FALSE
    OBVIOUS
  <1>1. served[m] \in Seq(Nat)
    BY DEF IInv, TypeOK
  <1>2. 1 \in 1..Len(served[m]) /\ served[m][1] \in Nat
    BY <1>1, EmptySeq
  <1> DEFINE at == served[m][1]
  <1>3. /\ signed[m] \in Request
        /\ signed[m].created <= at + ClockSkew
    BY <1>2 DEF IInv, StampedInTime
  <1>4. signed[m].created >= now - MaxAge
    BY DEF Record, Fresh
  <1>5. at >= now - Retention
    <2>1. now \in Nat /\ MaxAge \in Nat /\ ClockSkew \in Nat /\ Retention \in Nat
      BY ClockAssumption DEF IInv, TypeOK
    <2>2. at \in Nat /\ signed[m].created \in Int
      BY <1>2, <1>3 DEF Request
    <2> HIDE DEF at
    <2> QED BY <2>1, <2>2, <1>3, <1>4, RetentionAssumption
  <1>6. [nonce |-> signed[m].nonce, at |-> at] \in rows
    BY <1>2, <1>5 DEF IInv, EvidenceKept
  <1>7. NonceUsed(signed[m].nonce)
    BY <1>6 DEF NonceUsed
  <1> QED BY <1>7 DEF Record

\* A delivery keeps every row that is inside the retention and adds its own.
LEMMA RecordKeepsRows ==
    ASSUME IInv, NEW m \in Requests, signed[m] # None, Record(m)
    PROVE  /\ RowOf(signed[m]) \in rows'
           /\ \A w \in rows : w.at >= now - Retention => w \in rows'
  <1>1. now \in Nat /\ Retention \in Nat /\ rows \subseteq Row
    BY ClockAssumption DEF IInv, TypeOK
  <1>2. ~Expired(RowOf(signed[m]), now)
    BY <1>1 DEF Expired, RowOf
  <1>3. \A w \in rows : w.at >= now - Retention => ~Expired(w, now)
    BY <1>1 DEF Expired, Row
  <1> QED BY <1>2, <1>3 DEF Record, MaybePrune

\* The step every kind of delivery shares.
LEMMA DeliveryStep ==
    ASSUME IInv, NEW m \in Requests, signed[m] # None, Record(m),
           now' = now, signed' = signed
    PROVE  ServedOnce' /\ EvidenceKept' /\ StampedInTime'
  <1>1. served[m] = <<>>
    BY ReplayRefused
  <1>2. now \in Nat /\ Retention \in Nat /\ ClockSkew \in Nat
    BY ClockAssumption DEF IInv, TypeOK
  <1>3. served' = [served EXCEPT ![m] = <<now>>]
    BY <1>1 DEF Record
  <1>4. served \in [Requests -> Seq(Nat)]
    BY DEF IInv, TypeOK
  <1>5. served'[m] = <<now>> /\ \A r \in Requests \ {m} : served'[r] = served[r]
    BY <1>3, <1>4
  <1>6. Len(<<now>>) = 1 /\ <<now>>[1] = now
    OBVIOUS
  <1>7. ServedOnce'
    <2>1. Len(served'[m]) <= 1
      BY <1>5, <1>6
    <2>2. \A r \in Requests \ {m} : Len(served'[r]) <= 1
      BY <1>5 DEF ServedOnce, IInv
    <2> QED BY <2>1, <2>2 DEF ServedOnce
  <1>8. EvidenceKept'
    <2> SUFFICES ASSUME NEW r \in Requests, NEW i \in 1..Len(served'[r]),
                        served'[r][i] >= now - Retention
                 PROVE  [nonce |-> signed[r].nonce, at |-> served'[r][i]] \in rows'
      BY DEF EvidenceKept
    <2>1. CASE r = m
      <3>1. i = 1 /\ served'[r][i] = now
        BY <2>1, <1>5, <1>6, <1>2
      <3> QED BY <2>1, <3>1, RecordKeepsRows DEF RowOf
    <2>2. CASE r # m
      <3>1. [nonce |-> signed[r].nonce, at |-> served[r][i]] \in rows
        BY <2>2, <1>5 DEF IInv, EvidenceKept
      <3> QED BY <2>2, <3>1, <1>5, RecordKeepsRows
    <2> QED BY <2>1, <2>2
  <1>9. StampedInTime'
    <2> SUFFICES ASSUME NEW r \in Requests, NEW i \in 1..Len(served'[r])
                 PROVE  /\ signed[r] # None /\ signed[r] \in Request
                        /\ served'[r][i] <= now
                        /\ signed[r].created <= served'[r][i] + ClockSkew
      BY DEF StampedInTime
    <2>1. CASE r = m
      <3>1. i = 1 /\ served'[r][i] = now
        BY <2>1, <1>5, <1>6, <1>2
      <3>2. signed[m] \in Request
        BY RequestFields DEF IInv
      <3> QED BY <2>1, <3>1, <3>2, <1>2 DEF Record, Fresh
    <2>2. CASE r # m
      BY <2>2, <1>5 DEF IInv, StampedInTime
    <2> QED BY <2>1, <2>2
  <1> QED BY <1>7, <1>8, <1>9

-----------------------------------------------------------------------------
(* The invariant *)

LEMMA IInvInit == Init => IInv
  <1> SUFFICES ASSUME Init PROVE IInv
    OBVIOUS
  <1>1. \A m \in Requests : served[m] = <<>> /\ Len(served[m]) = 0
    BY DEF Init
  <1>2. served \in [Requests -> Seq(Nat)]
    BY DEF Init
  <1>3. TypeOK
    BY <1>2, ClockAssumption DEF Init, TypeOK
  <1>4. ServedOnce /\ EvidenceKept /\ StampedInTime
    BY <1>1 DEF ServedOnce, EvidenceKept, StampedInTime
  <1> QED BY <1>3, <1>4 DEF IInv

LEMMA IInvStep == IInv /\ [Next]_vars => IInv'
  <1> SUFFICES ASSUME IInv, [Next]_vars PROVE IInv'
    OBVIOUS
  <1>0. TypeOK'
    BY TypeStep DEF IInv
  <1> USE DEF vars, guardVars, registryVars, processVars
  <1>1. ASSUME NEW m \in Requests, NEW a \in Actors, NEW k \in Kinds, NEW n \in Nonces,
               NEW drift \in Drifts, Sign(m, a, k, n, drift)
        PROVE  IInv'
    <2>1. Len(served[m]) = 0
      <3>1. served[m] \in Seq(Nat)
        BY DEF IInv, TypeOK
      <3>2. Len(served[m]) \in Nat
        BY <3>1
      <3>3. ~(1 \in 1..Len(served[m]))
        BY <1>1 DEF Sign, IInv, StampedInTime
      <3> QED BY <3>2, <3>3
    <2>2. now' = now /\ rows' = rows /\ served' = served
          /\ \A r \in Requests \ {m} : signed'[r] = signed[r]
      BY <1>1 DEF Sign, IInv, TypeOK
    <2>3. ServedOnce'
      BY <2>2 DEF IInv, ServedOnce
    <2>4. EvidenceKept'
      BY <2>1, <2>2 DEF IInv, EvidenceKept
    <2>5. StampedInTime'
      BY <2>1, <2>2 DEF IInv, StampedInTime
    <2> QED BY <1>0, <2>3, <2>4, <2>5 DEF IInv
  <1>2. ASSUME NEW m \in Requests, NEW d \in Delivery,
               Write(m, d) \/ RegisterWorker(m, d) \/ RegisterConsumer(m, d)
        PROVE  IInv'
    BY <1>0, <1>2, DeliveryStep DEF Write, RegisterWorker, RegisterConsumer, IInv
  <1>3. ASSUME now' = now, signed' = signed, rows' = rows, served' = served
        PROVE  IInv'
    BY <1>0, <1>3 DEF IInv, ServedOnce, EvidenceKept, StampedInTime
  <1>4. CASE Flush \/ FlushLost \/ Crash \/ Boot \/ BootBlind \/ UNCHANGED vars
    BY <1>3, <1>4 DEF Flush, FlushLost, Crash, Boot, BootBlind
  <1>5. CASE Tick
    <2>1. now \in Nat /\ now' = now + 1 /\ Retention \in Nat
          /\ signed' = signed /\ rows' = rows /\ served' = served
      BY <1>5, ClockAssumption DEF Tick, IInv, TypeOK
    <2>2. \A m \in Requests : \A i \in 1..Len(served[m]) : served[m][i] \in Nat
      BY DEF IInv, TypeOK
    <2>3. ServedOnce'
      BY <2>1 DEF IInv, ServedOnce
    <2>4. EvidenceKept'
      BY <2>1, <2>2 DEF IInv, EvidenceKept
    <2>5. StampedInTime'
      BY <2>1, <2>2 DEF IInv, StampedInTime
    <2> QED BY <1>0, <2>3, <2>4, <2>5 DEF IInv
  <1> QED
    BY <1>1, <1>2, <1>4, <1>5 DEF Next

LEMMA IInvAlways == Spec => []IInv
  BY IInvInit, IInvStep, PTL DEF Spec

-----------------------------------------------------------------------------
(* Theorems *)

\* Whatever is signed, delivered, pruned and restarted keeps its type: the prune
\* counter stays below its interval and no row is stamped before time zero.
THEOREM TypeCorrect == Spec => []TypeOK
  <1>1. IInv => TypeOK
    BY DEF IInv
  <1> QED BY <1>1, IInvAlways, PTL

\* No request passes the guard twice (verify_signed_write's INSERT against
\* prune_write_signatures), for every retention the code accepts.
THEOREM NoReplay == Spec => []ServedOnce
  <1>1. IInv => ServedOnce
    BY DEF IInv
  <1> QED BY <1>1, IInvAlways, PTL

\* What was served inside the retention is on record under its nonce.
THEOREM EvidenceSurvives == Spec => []EvidenceKept
  <1>1. IInv => EvidenceKept
    BY DEF IInv
  <1> QED BY <1>1, IInvAlways, PTL

-----------------------------------------------------------------------------
(* Who is known to the guard *)

\* A row on its way to SQLite is of an actor the registries hold in memory.
QueueKnown ==
    \A i \in 1..Len(queue) :
        /\ queue[i].kind = "register_worker" => queue[i].by \in workers
        /\ queue[i].kind = "register_consumer" => queue[i].by \in consumers

Known == up /\ reloaded => dbWorkers \subseteq workers /\ dbConsumers \subseteq consumers

SignInv == TypeOK /\ QueueKnown /\ Known /\ (~up => queue = <<>>)

LEMMA SignInit == Init => SignInv
  <1> SUFFICES ASSUME Init PROVE SignInv
    OBVIOUS
  <1>1. TypeOK
    BY IInvInit DEF IInv
  <1> QED BY <1>1 DEF Init, SignInv, QueueKnown, Known

\* A registration enters the registry in the step that queues its row.
LEMMA SubmittedKnown ==
    ASSUME SignInv, NEW k \in Kinds \ {"write"}, NEW a \in Actors,
           queue' = Submitted(k, a),
           workers \subseteq workers', consumers \subseteq consumers',
           k = "register_worker" => a \in workers',
           k = "register_consumer" => a \in consumers'
    PROVE  QueueKnown'
  <1>1. queue \in Seq(Registration) /\ Len(queue) \in Nat
    BY DEF SignInv, TypeOK
  <1>2. CASE queue' = queue
    BY <1>2 DEF SignInv, QueueKnown
  <1>3. CASE queue' = Append(queue, [kind |-> k, by |-> a])
    <2> DEFINE e == [kind |-> k, by |-> a]
    <2>1. /\ Len(queue') = Len(queue) + 1 /\ queue'[Len(queue) + 1] = e
          /\ \A i \in 1..Len(queue) : queue'[i] = queue[i]
      BY <1>1, <1>3
    <2>2. e.kind = k /\ e.by = a
      OBVIOUS
    <2> HIDE DEF e
    <2>3. ASSUME NEW i \in 1..Len(queue')
          PROVE  /\ queue'[i].kind = "register_worker" => queue'[i].by \in workers'
                 /\ queue'[i].kind = "register_consumer" => queue'[i].by \in consumers'
      <3>1. CASE i \in 1..Len(queue)
        BY <2>1, <3>1 DEF SignInv, QueueKnown
      <3>2. CASE i = Len(queue) + 1
        BY <2>1, <2>2, <3>2
      <3> QED BY <1>1, <2>1, <3>1, <3>2
    <2> QED BY <2>3 DEF QueueKnown
  <1> QED BY <1>2, <1>3 DEF Submitted

\* What is taken from the queue was known; what stays still is.
LEMMA PoppedKnown ==
    ASSUME SignInv, queue # <<>>
    PROVE  /\ Head(queue).kind = "register_worker" => Head(queue).by \in workers
           /\ Head(queue).kind = "register_consumer" => Head(queue).by \in consumers
           /\ Head(queue).kind \in {"register_worker", "register_consumer"}
           /\ \A i \in 1..Len(Tail(queue)) :
                /\ Tail(queue)[i].kind = "register_worker" => Tail(queue)[i].by \in workers
                /\ Tail(queue)[i].kind = "register_consumer" => Tail(queue)[i].by \in consumers
  <1>1. queue \in Seq(Registration) /\ Len(queue) \in Nat \ {0}
    BY DEF SignInv, TypeOK
  <1>2. /\ Head(queue) = queue[1] /\ queue[1] \in Registration
        /\ Len(Tail(queue)) = Len(queue) - 1
        /\ \A i \in 1..Len(queue) - 1 : Tail(queue)[i] = queue[i + 1]
    BY <1>1
  <1>3. queue[1].kind \in {"register_worker", "register_consumer"}
    BY <1>2 DEF Registration, Kinds
  <1>4. 1 \in 1..Len(queue) /\ \A i \in 1..Len(queue) - 1 : i + 1 \in 1..Len(queue)
    BY <1>1
  <1> QED BY <1>2, <1>3, <1>4 DEF SignInv, QueueKnown

LEMMA SignStep == SignInv /\ [Next]_vars => SignInv'
  <1> SUFFICES ASSUME SignInv, [Next]_vars PROVE SignInv'
    OBVIOUS
  <1>0. TypeOK' /\ TypeOK
    BY TypeStep DEF SignInv
  <1> USE DEF vars, guardVars, registryVars, processVars
  <1>1. ASSUME UNCHANGED <<registryVars, processVars>> PROVE SignInv'
    BY <1>0, <1>1 DEF SignInv, QueueKnown, Known
  <1>2. CASE \/ \E m \in Requests, a \in Actors, k \in Kinds, n \in Nonces, drift \in Drifts :
                  Sign(m, a, k, n, drift)
             \/ \E m \in Requests, d \in Delivery : Write(m, d)
             \/ Tick \/ UNCHANGED vars
    BY <1>1, <1>2 DEF Sign, Write, Tick
  <1>3. ASSUME NEW m \in Requests, NEW d \in Delivery, RegisterWorker(m, d)
        PROVE  SignInv'
    <2> DEFINE a == signed[m].by
    <2>1. UNCHANGED <<consumers, dbWorkers, dbConsumers, processVars>> /\ up
      BY <1>3 DEF RegisterWorker
    <2>2. CASE UNCHANGED <<workers, queue>>
      BY <1>1, <2>1, <2>2
    <2>3. CASE workers' = workers \cup {a} /\ queue' = Submitted("register_worker", a)
      <3>1. a \in Actors
        BY <1>0, <1>3, RequestFields DEF RegisterWorker
      <3>2. QueueKnown'
        BY <2>1, <2>3, <3>1, SubmittedKnown DEF Kinds
      <3> QED BY <1>0, <2>1, <2>3, <3>2 DEF SignInv, Known
    <2> QED BY <1>3, <2>2, <2>3 DEF RegisterWorker
  <1>4. ASSUME NEW m \in Requests, NEW d \in Delivery, RegisterConsumer(m, d)
        PROVE  SignInv'
    <2> DEFINE a == signed[m].by
    <2>1. UNCHANGED <<workers, dbWorkers, dbConsumers, processVars>> /\ up
      BY <1>4 DEF RegisterConsumer
    <2>2. CASE UNCHANGED <<consumers, queue>>
      BY <1>1, <2>1, <2>2
    <2>3. CASE consumers' = consumers \cup {a} /\ queue' = Submitted("register_consumer", a)
      <3>1. a \in Actors
        BY <1>0, <1>4, RequestFields DEF RegisterConsumer
      <3>2. QueueKnown'
        BY <2>1, <2>3, <3>1, SubmittedKnown DEF Kinds
      <3> QED BY <1>0, <2>1, <2>3, <3>2 DEF SignInv, Known
    <2> QED BY <1>4, <2>2, <2>3 DEF RegisterConsumer
  <1>5. CASE Flush
    <2>1. /\ up /\ queue # <<>> /\ queue' = Tail(queue)
          /\ UNCHANGED <<workers, consumers, processVars>>
          /\ \/ /\ Head(queue).kind = "register_worker"
                /\ dbWorkers' = dbWorkers \cup {Head(queue).by} /\ dbConsumers' = dbConsumers
             \/ /\ Head(queue).kind # "register_worker"
                /\ dbConsumers' = dbConsumers \cup {Head(queue).by} /\ dbWorkers' = dbWorkers
      BY <1>5 DEF Flush
    <2>2. QueueKnown'
      BY <2>1, PoppedKnown DEF QueueKnown
    <2>3. Known'
      BY <2>1, PoppedKnown DEF SignInv, Known
    <2> QED BY <1>0, <2>1, <2>2, <2>3 DEF SignInv
  <1>6. CASE FlushLost
    <2>1. /\ up /\ queue # <<>> /\ queue' = Tail(queue)
          /\ UNCHANGED <<workers, consumers, dbWorkers, dbConsumers, processVars>>
      BY <1>6 DEF FlushLost
    <2>2. QueueKnown'
      BY <2>1, PoppedKnown DEF QueueKnown
    <2> QED BY <1>0, <2>1, <2>2 DEF SignInv, Known
  <1>7. CASE Crash
    <2>1. ~up' /\ queue' = <<>>
      BY <1>7 DEF Crash
    <2> QED BY <1>0, <2>1 DEF SignInv, QueueKnown, Known
  <1>8. CASE Boot \/ BootBlind
    <2>1. /\ queue' = <<>> /\ up' /\ UNCHANGED <<dbWorkers, dbConsumers>>
          /\ reloaded' => workers' = dbWorkers /\ consumers' = dbConsumers
      BY <1>8 DEF SignInv, Boot, BootBlind, Reload
    <2> QED BY <1>0, <2>1 DEF SignInv, QueueKnown, Known
  <1> QED BY <1>2, <1>3, <1>4, <1>5, <1>6, <1>7, <1>8 DEF Next

\* An actor with a row on disk can sign, unless the boot could not read the
\* registries: no lost batch and no restart leaves it out (the reload at startup).
THEOREM RegisteredCanSign == Spec => []OnDiskCanSign
  <1>1. SignInv => OnDiskCanSign
    BY DEF SignInv, Known, OnDiskCanSign
  <1> QED BY SignInit, SignStep, <1>1, PTL DEF Spec

-----------------------------------------------------------------------------
(* NEWFLOW                                                                 *)

\* Induction up to a bound.
LEMMA UpTo ==
    ASSUME NEW n \in Nat, NEW Good,
           0 \in Good, \A k \in 0 .. n : k < n /\ k \in Good => k + 1 \in Good
    PROVE  \A k \in 0 .. n : k \in Good
  <1> DEFINE Bad == {k \in 0 .. n : k \notin Good}
  <1> SUFFICES ASSUME Bad # {} PROVE FALSE
    OBVIOUS
  <1>1. Bad \subseteq Nat
    OBVIOUS
  <1> HIDE DEF Bad
  <1>2. PICK k \in Bad : \A m \in Bad : ~(<<m, k>> \in OpToRel(<, Nat))
    BY <1>1, NatLessThanWellFounded, WFMin, Zenon
  <1>3. k \in 0 .. n /\ k \notin Good /\ k # 0
    BY <1>2 DEF Bad
  <1>4. k - 1 \in 0 .. n /\ k - 1 < n /\ k - 1 \in Nat /\ k \in Nat /\ k - 1 < k
    BY <1>3
  <1>5. k - 1 \in Good
    BY <1>2, <1>4 DEF OpToRel, Bad
  <1>6. (k - 1) + 1 \in Good /\ (k - 1) + 1 = k
    BY <1>4, <1>5
  <1> QED BY <1>3, <1>6

-----------------------------------------------------------------------------
(* Lists *)

\* The selection's steps.
Selects(f, list, set) ==
    /\ f[0] = << >>
    /\ \A k \in 1 .. Len(list) :
          f[k] = IF list[k] \in set THEN Append(f[k - 1], list[k]) ELSE f[k - 1]

LEMMA KeptSelects ==
    ASSUME NEW list, Len(list) \in Nat, NEW set
    PROVE  \E f : Selects(f, list, set) /\ Kept(list, set) = f[Len(list)]
  <1> DEFINE n == Len(list)
             Def(f, m) == f = [k \in 0 .. m |->
                 IF k = 0 THEN << >>
                 ELSE IF list[k] \in set THEN Append(f[k - 1], list[k]) ELSE f[k - 1]]
             Good == {m \in Nat : \E f : Def(f, m)}
  <1>0. n \in Nat
    OBVIOUS
  <1>1. 0 \in Good
    <2> DEFINE f == [k \in 0 .. 0 |-> << >>]
    <2>1. Def(f, 0)
      OBVIOUS
    <2> QED BY <2>1
  <1>2. ASSUME NEW m \in 0 .. n, m < n, m \in Good PROVE m + 1 \in Good
    <2>1. PICK g : Def(g, m)
      BY <1>2
    <2> DEFINE h == [k \in 0 .. m + 1 |->
                 IF k = 0 THEN << >>
                 ELSE IF list[k] \in set THEN Append(g[k - 1], list[k]) ELSE g[k - 1]]
    <2>0. m \in Nat /\ m + 1 \in Nat
      BY <1>0
    <2>2. \A k \in 0 .. m : h[k] = g[k]
      <3>1. \A k \in 0 .. m : g[k] = IF k = 0 THEN << >>
                 ELSE IF list[k] \in set THEN Append(g[k - 1], list[k]) ELSE g[k - 1]
        BY <2>1
      <3>2. \A k \in 0 .. m : k \in 0 .. m + 1
        BY <2>0
      <3> QED BY <3>1, <3>2
    <2>3. \A k \in 0 .. m + 1 : k # 0 => k - 1 \in 0 .. m
      BY <2>0
    <2>4. Def(h, m + 1)
      BY <2>2, <2>3
    <2> HIDE DEF h
    <2>5. \E f : Def(f, m + 1)
      BY <2>4
    <2> QED BY <2>0, <2>5
  <1>3. n \in Good
    <2> HIDE DEF Good
    <2>1. \A k \in 0 .. n : k < n /\ k \in Good => k + 1 \in Good
      BY <1>2
    <2> HIDE DEF n
    <2>2. \A k \in 0 .. n : k \in Good
      BY <1>0, <1>1, <2>1, UpTo
    <2> QED BY <1>0, <2>2
  <1> DEFINE f == CHOOSE f : Def(f, n)
  <1>4. Def(f, n)
    BY <1>3
  <1>5. Kept(list, set) = f[n]
    BY DEF Kept
  <1> HIDE DEF f
  <1>6. Selects(f, list, set)
    <2>1. \A k \in 0 .. n : f[k] = IF k = 0 THEN << >>
                 ELSE IF list[k] \in set THEN Append(f[k - 1], list[k]) ELSE f[k - 1]
      BY <1>4
    <2>2. 0 \in 0 .. n /\ \A k \in 1 .. n : k \in 0 .. n /\ k # 0
      BY <1>0
    <2> QED BY <2>1, <2>2 DEF Selects
  <1> QED BY <1>5, <1>6

\* What is kept: the elements in the set, each as often as it was there once.
LEMMA KeptFacts ==
    ASSUME NEW T, NEW list \in Seq(T), NEW set
    PROVE  /\ Kept(list, set) \in Seq(T)
           /\ Range(Kept(list, set)) = Range(list) \cap set
           /\ (\A i, j \in DOMAIN list : list[i] = list[j] => i = j) =>
                 \A i, j \in DOMAIN Kept(list, set) :
                     Kept(list, set)[i] = Kept(list, set)[j] => i = j
  <1> DEFINE n == Len(list)
             Once(s) == \A i, j \in DOMAIN s : s[i] = s[j] => i = j
  <1>1. n \in Nat /\ DOMAIN list = 1 .. n /\ \A i \in 1 .. n : list[i] \in T
    OBVIOUS
  <1>2. PICK f : Selects(f, list, set) /\ Kept(list, set) = f[n]
    BY <1>1, KeptSelects
  <1> DEFINE Good == {k \in Nat : /\ f[k] \in Seq(T)
                                  /\ Range(f[k]) = {list[i] : i \in 1 .. k} \cap set
                                  /\ Once(list) => Once(f[k])}
  <1>3. 0 \in Good
    <2>1. f[0] = << >>
      BY <1>2 DEF Selects
    <2>2. << >> \in Seq(T) /\ DOMAIN << >> = {} /\ 1 .. 0 = {}
      OBVIOUS
    <2>3. Range(<< >>) = {} /\ {list[i] : i \in 1 .. 0} = {}
      BY <2>2 DEF Range
    <2> QED BY <2>1, <2>2, <2>3
  <1>4. ASSUME NEW k \in 0 .. n, k < n, k \in Good PROVE k + 1 \in Good
    <2>1. k + 1 \in 1 .. n /\ (k + 1) - 1 = k /\ k + 1 \in Nat
      BY <1>1, <1>4
    <2>2. f[k + 1] = IF list[k + 1] \in set THEN Append(f[k], list[k + 1]) ELSE f[k]
      BY <1>2, <2>1 DEF Selects
    <2> DEFINE x == list[k + 1]
               s == f[k]
    <2>3. x \in T /\ s \in Seq(T)
      BY <1>1, <1>4, <2>1
    <2>4. {list[i] : i \in 1 .. k + 1} = {list[i] : i \in 1 .. k} \cup {x}
      <3>1. 1 .. k + 1 = (1 .. k) \cup {k + 1}
        BY <1>4
      <3> QED BY <3>1
    <2>5. CASE x \notin set
      <3>1. f[k + 1] = s
        BY <2>2, <2>5
      <3> QED BY <1>4, <2>1, <2>4, <2>5, <3>1
    <2>6. CASE x \in set
      <3>1. f[k + 1] = Append(s, x)
        BY <2>2, <2>6
      <3>2. /\ Append(s, x) \in Seq(T) /\ Len(Append(s, x)) = Len(s) + 1 /\ Len(s) \in Nat
            /\ \A i \in 1 .. Len(s) : Append(s, x)[i] = s[i]
            /\ Append(s, x)[Len(s) + 1] = x
            /\ DOMAIN s = 1 .. Len(s) /\ DOMAIN Append(s, x) = 1 .. Len(s) + 1
        BY <2>3, AppendProperties
      <3>3. Range(Append(s, x)) = Range(s) \cup {x}
        <4> HIDE DEF s, x
        <4> QED BY <3>2 DEF Range
      <3>4. ASSUME Once(list) PROVE Once(Append(s, x))
        <4>1. Once(s) /\ Range(s) = {list[i] : i \in 1 .. k} \cap set
          BY <1>4, <3>4
        <4>2. \A i \in 1 .. k : list[i] # x
          BY <1>1, <1>4, <2>1, <3>4
        <4>3. x \notin Range(s)
          BY <4>1, <4>2
        <4>4. \A i \in 1 .. Len(s) : s[i] # x
          BY <3>2, <4>3 DEF Range
        <4> HIDE DEF s, x
        <4> QED BY <3>2, <4>1, <4>4
      <3> HIDE DEF Once
      <3> QED BY <1>4, <2>1, <2>4, <2>6, <3>1, <3>2, <3>3, <3>4
    <2> QED BY <2>5, <2>6
  <1>5. n \in Good
    <2> HIDE DEF Good
    <2>1. \A k \in 0 .. n : k < n /\ k \in Good => k + 1 \in Good
      BY <1>4
    <2> HIDE DEF n
    <2>2. \A k \in 0 .. n : k \in Good
      BY <1>1, <1>3, <2>1, UpTo
    <2> QED BY <1>1, <2>2
  <1>6. Range(list) = {list[i] : i \in 1 .. n}
    BY <1>1 DEF Range
  <1> HIDE DEF Once
  <1>7. Once(list) => Once(Kept(list, set))
    BY <1>2, <1>5
  <1> QED BY <1>2, <1>5, <1>6, <1>7 DEF Once

-----------------------------------------------------------------------------
(* The pool *)

\* A dict has one item for a proof.
Distinct(pool) == \A i, j \in DOMAIN pool : pool[i].pid = pool[j].pid => i = j

\* Every approved item of a pool is among the verified proofs.
Approved(pool, done) == \A i \in DOMAIN pool : pool[i].status = "approved" => pool[i].pid \in done

LEMMA PoolFacts ==
    ASSUME NEW pool \in Seq(Item)
    PROVE  /\ Len(pool) \in Nat /\ DOMAIN pool = 1 .. Len(pool)
           /\ \A i \in DOMAIN pool : pool[i] \in Item /\ pool[i].pid \in Pids
           /\ PidsOf(pool) \subseteq Pids /\ IsFiniteSet(PidsOf(pool))
  <1>1. Len(pool) \in Nat /\ DOMAIN pool = 1 .. Len(pool) /\ \A i \in DOMAIN pool : pool[i] \in Item
    OBVIOUS
  <1>2. \A i \in DOMAIN pool : pool[i].pid \in Pids
    BY <1>1 DEF Item
  <1>3. IsFiniteSet(DOMAIN pool)
    BY <1>1, FS_Interval
  <1> DEFINE m == [i \in DOMAIN pool |-> pool[i].pid]
  <1>4. IsFiniteSet({m[i] : i \in DOMAIN pool})
    <2> HIDE DEF m
    <2> QED BY <1>3, ImageFinite
  <1>5. {m[i] : i \in DOMAIN pool} = PidsOf(pool)
    BY DEF PidsOf
  <1> QED BY <1>1, <1>2, <1>4, <1>5 DEF PidsOf

\* As many items as proofs.
LEMMA PoolSize ==
    ASSUME NEW pool \in Seq(Item), Distinct(pool)
    PROVE  Cardinality(PidsOf(pool)) = Len(pool)
  <1> DEFINE n == Len(pool)
             D == 1 .. n
             P == PidsOf(pool)
             f == [i \in D |-> 1]
             g == [p \in P |-> 1]
             m == [i \in D |-> pool[i].pid]
  <1>1. n \in Nat /\ DOMAIN pool = D /\ IsFiniteSet(D) /\ Cardinality(D) = n /\ IsFiniteSet(P)
    BY PoolFacts, FS_Interval
  <1>a. IsFiniteSet(D) /\ IsFiniteSet(P)
    BY <1>1
  <1>b. \A i \in D : f[i] = 1
    OBVIOUS
  <1>c. \A i \in D : m[i] \in P /\ g[m[i]] = f[i]
    BY <1>1 DEF PidsOf
  <1>d. \A i, j \in D : m[i] = m[j] => i = j
    BY <1>1 DEF Distinct
  <1>e. \A p \in P : \E i \in D : m[i] = p
    BY <1>1 DEF PidsOf
  <1>f. \A p \in P : g[p] = 1
    OBVIOUS
  <1> HIDE DEF f, g, m, D, P
  <1>g. \A i \in D : f[i] \in Int
    BY <1>b
  <1>3. SumFunctionOnSet(g, P) = SumFunctionOnSet(f, D)
    BY <1>a, <1>c, <1>d, <1>e, <1>g, SumRename
  <1>4. SumFunctionOnSet(g, P) = Cardinality(P)
    BY <1>a, <1>f, SumOnes
  <1>5. SumFunctionOnSet(f, D) = Cardinality(D)
    BY <1>a, <1>b, SumOnes
  <1> QED BY <1>1, <1>3, <1>4, <1>5 DEF P

\* Taking an item out of the dict.
LEMMA WithoutFacts ==
    ASSUME NEW pool \in Seq(Item), Distinct(pool), NEW pid
    PROVE  LET rest == Without(pool, pid)
           IN  /\ rest \in Seq(Item) /\ Distinct(rest)
               /\ PidsOf(rest) = PidsOf(pool) \ {pid}
               /\ \A done : Approved(pool, done) => Approved(rest, done)
  <1> DEFINE set == {p \in Range(pool) : p.pid # pid}
             rest == Kept(pool, set)
  <1>1. Without(pool, pid) = rest
    BY DEF Without
  <1>2. \A i, j \in DOMAIN pool : pool[i] = pool[j] => i = j
    BY DEF Distinct
  <1>3. /\ rest \in Seq(Item) /\ Range(rest) = Range(pool) \cap set
        /\ \A i, j \in DOMAIN rest : rest[i] = rest[j] => i = j
    <2> HIDE DEF set
    <2> QED BY <1>2, KeptFacts
  <1> HIDE DEF rest
  <1>4. Range(rest) = set
    BY <1>3
  <1>5. \A i \in DOMAIN rest : \E k \in DOMAIN pool : pool[k] = rest[i] /\ pool[k].pid # pid
    BY <1>4 DEF Range
  <1>6. Distinct(rest)
    <2> SUFFICES ASSUME NEW i \in DOMAIN rest, NEW j \in DOMAIN rest, rest[i].pid = rest[j].pid
                 PROVE  i = j
      BY DEF Distinct
    <2>1. PICK k \in DOMAIN pool : pool[k] = rest[i]
      BY <1>5
    <2>2. PICK l \in DOMAIN pool : pool[l] = rest[j]
      BY <1>5
    <2>3. k = l
      BY <2>1, <2>2 DEF Distinct
    <2> QED BY <1>3, <2>1, <2>2, <2>3
  <1>7. PidsOf(rest) = PidsOf(pool) \ {pid}
    <2>1. PidsOf(rest) = {x.pid : x \in Range(rest)}
      BY DEF PidsOf, Range
    <2>2. PidsOf(pool) = {x.pid : x \in Range(pool)}
      BY DEF PidsOf, Range
    <2> QED BY <1>4, <2>1, <2>2
  <1>8. ASSUME NEW done, Approved(pool, done) PROVE Approved(rest, done)
    BY <1>5, <1>8 DEF Approved
  <1> QED BY <1>1, <1>3, <1>6, <1>7, <1>8

\* Setting a status changes nothing else.
LEMMA SetStatusFacts ==
    ASSUME NEW pool \in Seq(Item), Distinct(pool), NEW pid,
           NEW status \in {"pending", "approved", "challenged"}
    PROVE  LET new == SetStatus(pool, pid, status)
           IN  /\ new \in Seq(Item) /\ Distinct(new)
               /\ PidsOf(new) = PidsOf(pool)
               /\ \A done : Approved(pool, done) /\ (status = "approved" => pid \in done)
                                => Approved(new, done)
               /\ \A done : Approved(pool, done) /\ status # "approved"
                                => Approved(new, done \ {pid})
  <1> DEFINE new == SetStatus(pool, pid, status)
  <1>1. Len(pool) \in Nat /\ DOMAIN pool = 1 .. Len(pool) /\ \A i \in DOMAIN pool : pool[i] \in Item
    BY PoolFacts
  <1>2. DOMAIN new = DOMAIN pool
    BY DEF SetStatus
  <1>3. \A i \in DOMAIN pool : /\ new[i] \in Item /\ new[i].pid = pool[i].pid
                               /\ new[i].status = IF pool[i].pid = pid THEN status
                                                  ELSE pool[i].status
    BY <1>1 DEF SetStatus, Item
  <1>4. new \in Seq(Item)
    BY <1>1, <1>3 DEF SetStatus
  <1> HIDE DEF new
  <1>5. Distinct(new) /\ PidsOf(new) = PidsOf(pool)
    BY <1>2, <1>3 DEF Distinct, PidsOf
  <1>6. ASSUME NEW done, Approved(pool, done)
        PROVE  /\ (status = "approved" => pid \in done) => Approved(new, done)
               /\ status # "approved" => Approved(new, done \ {pid})
    BY <1>2, <1>3, <1>6 DEF Approved
  <1> QED BY <1>4, <1>5, <1>6 DEF new

\* A new item.
LEMMA AppendFacts ==
    ASSUME NEW pool \in Seq(Item), Distinct(pool), NEW item \in Item, item.pid \notin PidsOf(pool),
           item.status = "pending"
    PROVE  LET new == Append(pool, item)
           IN  /\ new \in Seq(Item) /\ Distinct(new)
               /\ PidsOf(new) = PidsOf(pool) \cup {item.pid}
               /\ \A done : Approved(pool, done) => Approved(new, done \ {item.pid})
  <1> DEFINE new == Append(pool, item)
             n == Len(pool)
  <1>1. /\ n \in Nat /\ DOMAIN pool = 1 .. n /\ new \in Seq(Item) /\ DOMAIN new = 1 .. n + 1
        /\ \A i \in 1 .. n : new[i] = pool[i]
        /\ new[n + 1] = item
    BY PoolFacts, AppendProperties
  <1> HIDE DEF new, n
  <1>2. \A i \in DOMAIN new : (i \in DOMAIN pool /\ new[i] = pool[i]) \/ i = n + 1
    BY <1>1
  <1>3. \A i \in DOMAIN pool : i \in DOMAIN new /\ new[i] = pool[i] /\ pool[i].pid # item.pid
    BY <1>1 DEF PidsOf
  <1>4. Distinct(new)
    BY <1>1, <1>2, <1>3 DEF Distinct
  <1>5. PidsOf(new) = PidsOf(pool) \cup {item.pid}
    BY <1>1, <1>2, <1>3 DEF PidsOf
  <1>6. ASSUME NEW done, Approved(pool, done) PROVE Approved(new, done \ {item.pid})
    BY <1>1, <1>2, <1>3, <1>6 DEF Approved
  <1> QED BY <1>1, <1>4, <1>5, <1>6 DEF new

\* What is staked on one proof more or less.
LEMMA StakesInt == \A pid \in Pids : Stake(pid) \in Int
  BY NewflowAssumption DEF Pids, Stake

LEMMA StakedLess ==
    ASSUME NEW pool \in Seq(Item), NEW new \in Seq(Item), NEW pid \in PidsOf(pool),
           PidsOf(new) = PidsOf(pool) \ {pid}
    PROVE  /\ Staked(pool) = Stake(pid) + Staked(new)
           /\ Staked(pool) \in Int /\ Staked(new) \in Int /\ Stake(pid) \in Int
           /\ Cardinality(PidsOf(pool)) = 1 + Cardinality(PidsOf(new))
           /\ Cardinality(PidsOf(pool)) \in Nat /\ Cardinality(PidsOf(new)) \in Nat
  <1> DEFINE P == PidsOf(pool)
             Q == PidsOf(new)
             f == [p \in P |-> Stake(p)]
             g == [p \in Q |-> Stake(p)]
  <1>1. /\ IsFiniteSet(P) /\ IsFiniteSet(Q) /\ P \subseteq Pids /\ pid \in P /\ Q = P \ {pid}
    BY PoolFacts
  <1>2. \A p \in P : Stake(p) \in Int
    BY <1>1, StakesInt
  <1>3. /\ \A p \in P : f[p] = Stake(p) /\ f[p] \in Int
        /\ \A p \in Q : g[p] = f[p] /\ g[p] \in Int
    BY <1>1, <1>2
  <1> HIDE DEF P, Q, f, g
  <1>4. SumFunctionOnSet(f, P) = f[pid] + SumFunctionOnSet(f, P \ {pid})
    BY <1>1, <1>3, SumRemove
  <1>5. SumFunctionOnSet(g, Q) = SumFunctionOnSet(f, Q)
    BY <1>1, <1>3, SumEqual
  <1>6. SumFunctionOnSet(f, P) \in Int /\ SumFunctionOnSet(g, Q) \in Int
    BY <1>1, <1>3, SumInt
  <1>7. Cardinality(P) \in Nat /\ Cardinality(Q) \in Nat /\ Cardinality(Q) = Cardinality(P) - 1
    BY <1>1, FS_CardinalityType, FS_RemoveElement
  <1>8. Staked(pool) = SumFunctionOnSet(f, P) /\ Staked(new) = SumFunctionOnSet(g, Q)
    BY DEF Staked, P, Q, f, g
  <1>9. Stake(pid) = f[pid] /\ Stake(pid) \in Int
    BY <1>1, <1>3
  <1> QED BY <1>1, <1>4, <1>5, <1>6, <1>7, <1>8, <1>9 DEF P, Q

LEMMA StakedSame ==
    ASSUME NEW pool \in Seq(Item), NEW new, PidsOf(new) = PidsOf(pool)
    PROVE  Staked(new) = Staked(pool) /\ Staked(pool) \in Int
  <1> DEFINE f == [p \in PidsOf(pool) |-> Stake(p)]
  <1>1. IsFiniteSet(PidsOf(pool)) /\ \A p \in PidsOf(pool) : f[p] \in Int
    BY PoolFacts, StakesInt
  <1>2. SumFunctionOnSet(f, PidsOf(pool)) \in Int
    <2> HIDE DEF f
    <2> QED BY <1>1, SumInt
  <1> QED BY <1>2 DEF Staked

-----------------------------------------------------------------------------
(* Balances *)

Total(bal) == SumFunctionOnSet(bal, Accounts)

LEMMA TotalInt == ASSUME NEW bal \in [Accounts -> Int] PROVE Total(bal) \in Int
  BY NewflowAssumption, SumInt DEF Total

LEMMA TotalPlus ==
    ASSUME NEW bal \in [Accounts -> Int], NEW delta \in [Accounts -> Int]
    PROVE  /\ Plus(bal, delta) \in [Accounts -> Int]
           /\ Total(Plus(bal, delta)) = Total(bal) + Total(delta)
           /\ Total(bal) \in Int /\ Total(delta) \in Int
  <1> DEFINE h == Plus(bal, delta)
  <1>1. h \in [Accounts -> Int] /\ \A a \in Accounts : h[a] = bal[a] + delta[a]
    BY DEF Plus
  <1>2. IsFiniteSet(Accounts)
    BY NewflowAssumption
  <1>3. \A a \in Accounts : bal[a] \in Int /\ delta[a] \in Int
    OBVIOUS
  <1> HIDE DEF h
  <1>4. Total(h) = Total(bal) + Total(delta)
    BY <1>1, <1>2, <1>3, SumPlus DEF Total
  <1> QED BY <1>1, <1>4, TotalInt DEF h

LEMMA TotalOnly ==
    ASSUME NEW a \in Accounts, NEW n \in Int
    PROVE  Only(a, n) \in [Accounts -> Int] /\ Total(Only(a, n)) = n
  <1> DEFINE f == Only(a, n)
  <1>1. f \in [Accounts -> Int] /\ f[a] = n /\ \A b \in Accounts \ {a} : f[b] = 0
    BY DEF Only
  <1>2. IsFiniteSet(Accounts) /\ {a} \in SUBSET Accounts
    BY NewflowAssumption
  <1>3. \A b \in Accounts : f[b] \in Int
    BY <1>1
  <1> HIDE DEF f
  <1>4. SumFunctionOnSet(f, {a}) = SumFunctionOnSet(f, Accounts)
    BY <1>1, <1>2, <1>3, SumDrop
  <1>5. SumFunctionOnSet(f, {a}) = n
    BY <1>1, SumOne
  <1> QED BY <1>1, <1>4, <1>5 DEF f, Total

LEMMA TotalMove ==
    ASSUME NEW a \in Accounts, NEW b \in Accounts, NEW n \in Int
    PROVE  Move(a, b, n) \in [Accounts -> Int] /\ Total(Move(a, b, n)) = 0
  <1>1. -n \in Int
    OBVIOUS
  <1>2. /\ Only(a, -n) \in [Accounts -> Int] /\ Total(Only(a, -n)) = -n
        /\ Only(b, n) \in [Accounts -> Int] /\ Total(Only(b, n)) = n
    BY <1>1, TotalOnly
  <1>3. /\ Move(a, b, n) \in [Accounts -> Int]
        /\ Total(Move(a, b, n)) = Total(Only(a, -n)) + Total(Only(b, n))
    BY <1>2, TotalPlus DEF Move
  <1> QED BY <1>2, <1>3

LEMMA ListAppend ==
    ASSUME NEW T, NEW list \in Seq(T), NEW x \in T
    PROVE  /\ Append(list, x) \in Seq(T) /\ Len(Append(list, x)) = Len(list) + 1
           /\ Len(list) \in Nat
           /\ Range(Append(list, x)) = Range(list) \cup {x}
           /\ Range(list) \subseteq T
  <1>1. /\ Append(list, x) \in Seq(T) /\ Len(Append(list, x)) = Len(list) + 1 /\ Len(list) \in Nat
        /\ \A i \in 1 .. Len(list) : Append(list, x)[i] = list[i]
        /\ Append(list, x)[Len(list) + 1] = x
        /\ DOMAIN list = 1 .. Len(list) /\ DOMAIN Append(list, x) = 1 .. Len(list) + 1
    BY AppendProperties
  <1> QED BY <1>1 DEF Range

-----------------------------------------------------------------------------
(* The two passes *)

Ledgers == SUBSET [type : EntryTypes, ref : Pids, block : 0 .. MaxNow]
BookType ==
    [balances : [Accounts -> Int], pending : Seq(Item), slashed : Seq(Pids),
     settled : Seq(Pids), entries : Ledgers, created : Int, verified : SUBSET Pids]

SettledRight(s, at) == \A pid \in Range(s.settled) : Right(pid) /\ at >= pid[2] + Window

\* The ledger says settled or slashed of such proofs only, and of none both.
LedgerTrue(s) ==
    \A e \in s.entries :
        /\ e.type = "proof_settled" => e.ref \in Range(s.settled)
        /\ e.type = "proof_slashed" => e.ref \in Range(s.slashed) /\ ~Right(e.ref)

LedgerFull(s, lost) ==
    lost \/ \A pid \in Range(s.settled) :
                     \E e \in s.entries : e.type = "proof_settled" /\ e.ref = pid

PoolSound(s, at, lost) ==
    /\ s \in BookType /\ Distinct(s.pending)
    /\ Approved(s.pending, s.verified) /\ \A pid \in s.verified : Right(pid)
    /\ SettledRight(s, at) /\ LedgerTrue(s) /\ LedgerFull(s, lost)

\* What no verification, slash or settlement changes: what is owned and staked but
\* for what was made from nothing, and how many proofs there are.
Worth(s) == Total(s.balances) + Staked(s.pending) - s.created
Count(s) == Len(s.settled) + Len(s.slashed) + Cardinality(PidsOf(s.pending))

\* One item's step, in either pass.
StepOK(s, t, pid) ==
    /\ PoolSound(t, currentBlock, forgetful) /\ Worth(t) = Worth(s) /\ Count(t) = Count(s)
    /\ PidsOf(s.pending) \ {pid} \subseteq PidsOf(t.pending)
    /\ PidsOf(t.pending) \subseteq PidsOf(s.pending)

LEMMA BookFields ==
    ASSUME NEW s \in BookType
    PROVE  /\ s.balances \in [Accounts -> Int] /\ s.pending \in Seq(Item)
           /\ s.slashed \in Seq(Pids) /\ s.settled \in Seq(Pids) /\ s.entries \in Ledgers
           /\ s.created \in Int /\ s.verified \in SUBSET Pids
           /\ Len(s.slashed) \in Nat /\ Len(s.settled) \in Nat
           /\ Total(s.balances) \in Int
  BY TotalInt DEF BookType

LEMMA EntryTyped ==
    ASSUME currentBlock \in 0 .. MaxNow, NEW type \in EntryTypes, NEW pid \in Pids,
           NEW es \in Ledgers
    PROVE  /\ Entry(type, pid, currentBlock).type = type
           /\ Entry(type, pid, currentBlock).ref = pid
           /\ es \cup {Entry(type, pid, currentBlock)} \in Ledgers
  BY DEF Entry, Ledgers

LEMMA OneMore ==
    ASSUME NEW a \in Nat, NEW b \in Nat, NEW c \in Nat
    PROVE  a + (b + 1) + c = a + b + (1 + c) /\ (a + 1) + b + c = a + b + (1 + c)
  OBVIOUS

LEMMA VerifyStep ==
    ASSUME currentBlock \in 0 .. MaxNow, NEW s, PoolSound(s, currentBlock, forgetful),
           NEW item \in Item, item.pid \in PidsOf(s.pending)
    PROVE  StepOK(s, Verify(s, item), item.pid)
  <1> DEFINE pid == item.pid
             t == Verify(s, item)
             extra == ValidatorStake(s.balances, pid)
  <1>1. s \in BookType /\ pid \in Pids
    BY DEF PoolSound, Item
  <1>2. CASE t = s
    BY <1>2 DEF StepOK
  <1>3. CASE item.status = "pending" /\ Right(pid)
    <2> DEFINE e == Entry("proof_approved", pid, currentBlock)
               new == SetStatus(s.pending, pid, "approved")
               done == s.verified \cup {pid}
               led == s.entries \cup {e}
    <2>1. t = [s EXCEPT !.pending = new, !.verified = done, !.entries = led]
      BY <1>3 DEF Verify
    <2>2. /\ new \in Seq(Item) /\ Distinct(new) /\ PidsOf(new) = PidsOf(s.pending)
          /\ Approved(new, done)
      <3>1. Approved(s.pending, done)
        BY DEF PoolSound, Approved
      <3>2. s.pending \in Seq(Item) /\ Distinct(s.pending)
        BY <1>1, BookFields DEF PoolSound
      <3> HIDE DEF done
      <3> QED BY <3>1, <3>2, SetStatusFacts DEF done
    <2>3. led \in Ledgers /\ e.type = "proof_approved"
      BY <1>1, BookFields, EntryTyped DEF EntryTypes
    <2>4. done \in SUBSET Pids /\ \A p \in done : Right(p)
      BY <1>1, <1>3, BookFields DEF PoolSound
    <2> HIDE DEF new, done, led, e
    <2>5. /\ t \in BookType /\ t.pending = new /\ t.verified = done /\ t.entries = led
          /\ t.balances = s.balances /\ t.created = s.created
          /\ t.settled = s.settled /\ t.slashed = s.slashed
      BY <1>1, <2>1, <2>2, <2>3, <2>4 DEF BookType
    <2> HIDE DEF t, pid
    <2>6. SettledRight(t, currentBlock)
      BY <2>5 DEF PoolSound, SettledRight
    <2>7. LedgerTrue(t) /\ LedgerFull(t, forgetful)
      BY <2>3, <2>5 DEF PoolSound, LedgerTrue, LedgerFull, led
    <2>8. Worth(t) = Worth(s) /\ Count(t) = Count(s)
      <3>1. Staked(t.pending) = Staked(s.pending)
        BY <1>1, <2>2, <2>5, BookFields, StakedSame
      <3> QED BY <2>2, <2>5, <3>1 DEF Worth, Count
    <2> QED BY <2>2, <2>4, <2>5, <2>6, <2>7, <2>8 DEF StepOK, PoolSound, t, pid
  <1>4. CASE item.status = "pending" /\ ~Right(pid)
    <2> DEFINE e == Entry("proof_slashed", pid, currentBlock)
               rest == Without(s.pending, pid)
               bal == Plus(s.balances, Only(Validator, extra + Stake(pid)))
               led == s.entries \cup {e}
               list == Append(s.slashed, pid)
    <2>1. t = [s EXCEPT !.balances = bal, !.created = @ + extra, !.pending = rest,
                        !.slashed = list, !.entries = led]
      BY <1>4 DEF Verify
    <2>2. /\ rest \in Seq(Item) /\ Distinct(rest) /\ PidsOf(rest) = PidsOf(s.pending) \ {pid}
          /\ Approved(rest, s.verified)
      BY <1>1, BookFields, WithoutFacts DEF PoolSound
    <2>3. led \in Ledgers /\ e.type = "proof_slashed" /\ e.ref = pid
      BY <1>1, BookFields, EntryTyped DEF EntryTypes
    <2>4. list \in Seq(Pids) /\ Len(list) = Len(s.slashed) + 1
          /\ Range(list) = Range(s.slashed) \cup {pid}
      BY <1>1, BookFields, ListAppend
    <2>5. Stake(pid) \in Int /\ extra \in Int
      <3>1. s.balances[Validator] \in Int
        BY <1>1, BookFields, NewflowAssumption
      <3> QED BY <1>1, <3>1, StakesInt DEF ValidatorStake
    <2>6. /\ bal \in [Accounts -> Int]
          /\ Total(bal) = Total(s.balances) + extra + Stake(pid)
      <3>1. Validator \in Accounts /\ extra + Stake(pid) \in Int
        BY <2>5, NewflowAssumption
      <3> DEFINE d == Only(Validator, extra + Stake(pid))
      <3>2. d \in [Accounts -> Int] /\ Total(d) = extra + Stake(pid)
        BY <3>1, TotalOnly
      <3> HIDE DEF d
      <3>3. Plus(s.balances, d) \in [Accounts -> Int]
            /\ Total(Plus(s.balances, d)) = Total(s.balances) + Total(d)
        BY <1>1, <3>2, BookFields, TotalPlus
      <3> QED BY <1>1, <2>5, <3>2, <3>3, BookFields DEF d
    <2>7. s.created + extra \in Int
      BY <1>1, <2>5, BookFields
    <2> HIDE DEF rest, bal, led, list, e, extra
    <2>8. /\ t \in BookType /\ t.pending = rest /\ t.entries = led /\ t.balances = bal
          /\ t.created = s.created + extra /\ t.slashed = list
          /\ t.settled = s.settled /\ t.verified = s.verified
      BY <1>1, <2>1, <2>2, <2>3, <2>4, <2>6, <2>7 DEF BookType
    <2> HIDE DEF t, pid
    <2>9. SettledRight(t, currentBlock)
      BY <2>8 DEF PoolSound, SettledRight
    <2>10. LedgerTrue(t) /\ LedgerFull(t, forgetful)
      BY <1>4, <2>3, <2>4, <2>8 DEF PoolSound, LedgerTrue, LedgerFull, led
    <2>11. Worth(t) = Worth(s) /\ Count(t) = Count(s)
      <3>1. /\ Staked(s.pending) = Stake(pid) + Staked(rest)
            /\ Staked(s.pending) \in Int /\ Staked(rest) \in Int
            /\ Cardinality(PidsOf(s.pending)) = 1 + Cardinality(PidsOf(rest))
            /\ Cardinality(PidsOf(s.pending)) \in Nat /\ Cardinality(PidsOf(rest)) \in Nat
        <4>1. pid \in PidsOf(s.pending)
          BY DEF pid
        <4> QED BY <1>1, <2>2, <4>1, BookFields, StakedLess
      <3>2. s.created \in Int /\ Total(s.balances) \in Int /\ Len(s.settled) \in Nat
            /\ Len(s.slashed) \in Nat
        BY <1>1, BookFields
      <3>3. Worth(t) = Worth(s)
        BY <2>5, <2>6, <2>8, <3>1, <3>2 DEF Worth
      <3>4. Count(t) = Count(s)
        <4>1. Count(t) = Len(s.settled) + Len(list) + Cardinality(PidsOf(rest))
          BY <2>8 DEF Count
        <4>2. Count(s) = Len(s.settled) + Len(s.slashed) + Cardinality(PidsOf(s.pending))
          BY DEF Count
        <4>3. Len(list) = Len(s.slashed) + 1
          BY <2>4
        <4>4. /\ Cardinality(PidsOf(s.pending)) = 1 + Cardinality(PidsOf(rest))
              /\ Cardinality(PidsOf(rest)) \in Nat
          BY <3>1
        <4>5. Count(t) = Len(s.settled) + (Len(s.slashed) + 1) + Cardinality(PidsOf(rest))
          BY <4>1, <4>3, Zenon
        <4>6. Count(s) = Len(s.settled) + Len(s.slashed) + (1 + Cardinality(PidsOf(rest)))
          BY <4>2, <4>4, Zenon
        <4> HIDE DEF Count
        <4> QED BY <3>2, <4>4, <4>5, <4>6, OneMore
      <3> QED BY <3>3, <3>4
    <2> QED BY <2>2, <2>8, <2>9, <2>10, <2>11 DEF StepOK, PoolSound, t, pid
  <1>5. item.status # "pending" => t = s
    BY DEF Verify
  <1> QED BY <1>2, <1>3, <1>4, <1>5

LEMMA SettleStep ==
    ASSUME currentBlock \in 0 .. MaxNow, NEW s, PoolSound(s, currentBlock, forgetful),
           NEW item \in Item, item.pid \in PidsOf(s.pending),
           item.status = "approved" => Right(item.pid)
    PROVE  StepOK(s, Settle(s, item), item.pid)
  <1> DEFINE pid == item.pid
             t == Settle(s, item)
             proof == ProofOf[pid[1]]
  <1>1. s \in BookType /\ pid \in Pids
    BY DEF PoolSound, Item
  <1>2. CASE t = s
    BY <1>2 DEF StepOK
  <1>3. CASE item.status = "approved" /\ ~WithinWindow(pid)
    <2> DEFINE e == Entry("proof_settled", pid, currentBlock)
               rest == Without(s.pending, pid)
               d == Plus(Only(proof.consumer, -proof.fee), Only(proof.worker, proof.fee + proof.stake))
               bal == Plus(s.balances, d)
               led == s.entries \cup {e}
               list == Append(s.settled, pid)
    <2>1. t = [s EXCEPT !.balances = bal, !.pending = rest, !.settled = list, !.entries = led]
      BY <1>3 DEF Settle
    <2>2. /\ rest \in Seq(Item) /\ Distinct(rest) /\ PidsOf(rest) = PidsOf(s.pending) \ {pid}
          /\ Approved(rest, s.verified)
      BY <1>1, BookFields, WithoutFacts DEF PoolSound
    <2>3. led \in Ledgers /\ e.type = "proof_settled" /\ e.ref = pid
      BY <1>1, BookFields, EntryTyped DEF EntryTypes
    <2>4. list \in Seq(Pids) /\ Len(list) = Len(s.settled) + 1
          /\ Range(list) = Range(s.settled) \cup {pid}
      BY <1>1, BookFields, ListAppend
    <2>5. proof.consumer \in Accounts /\ proof.worker \in Accounts /\ proof.fee \in Int
          /\ proof.stake \in Int /\ Stake(pid) = proof.stake
      BY <1>1, NewflowAssumption DEF Pids, Stake
    <2>6. /\ bal \in [Accounts -> Int]
          /\ Total(bal) = Total(s.balances) + Stake(pid)
      <3> DEFINE x == Only(proof.consumer, -proof.fee)
                 y == Only(proof.worker, proof.fee + proof.stake)
      <3>1. -proof.fee \in Int /\ proof.fee + proof.stake \in Int
        BY <2>5
      <3>2. x \in [Accounts -> Int] /\ Total(x) = -proof.fee
        BY <2>5, <3>1, TotalOnly
      <3>3. y \in [Accounts -> Int] /\ Total(y) = proof.fee + proof.stake
        BY <2>5, <3>1, TotalOnly
      <3> HIDE DEF x, y, proof
      <3>4. d \in [Accounts -> Int] /\ Total(d) = Total(x) + Total(y)
        BY <3>2, <3>3, TotalPlus DEF x, y
      <3> HIDE DEF d
      <3>5. bal \in [Accounts -> Int] /\ Total(bal) = Total(s.balances) + Total(d)
        BY <1>1, <3>4, BookFields, TotalPlus
      <3>6. Total(s.balances) \in Int
        BY <1>1, BookFields
      <3> QED BY <2>5, <3>2, <3>3, <3>4, <3>5, <3>6
    <2>7. Right(pid) /\ currentBlock >= pid[2] + Window
      <3>1. pid[2] \in Nat /\ Window \in Nat /\ currentBlock \in Nat
        BY <1>1, NewflowAssumption DEF Pids
      <3> QED BY <1>3, <3>1 DEF WithinWindow
    <2> HIDE DEF rest, bal, led, list, e, d, proof
    <2>8. /\ t \in BookType /\ t.pending = rest /\ t.entries = led /\ t.balances = bal
          /\ t.created = s.created /\ t.settled = list
          /\ t.slashed = s.slashed /\ t.verified = s.verified
      BY <1>1, <2>1, <2>2, <2>3, <2>4, <2>6 DEF BookType
    <2> HIDE DEF t, pid
    <2>9. SettledRight(t, currentBlock)
      BY <2>4, <2>7, <2>8 DEF PoolSound, SettledRight
    <2>10. LedgerTrue(t) /\ LedgerFull(t, forgetful)
      BY <2>3, <2>4, <2>8 DEF PoolSound, LedgerTrue, LedgerFull, led
    <2>11. Worth(t) = Worth(s) /\ Count(t) = Count(s)
      <3>1. /\ Staked(s.pending) = Stake(pid) + Staked(rest)
            /\ Staked(s.pending) \in Int /\ Staked(rest) \in Int
            /\ Cardinality(PidsOf(s.pending)) = 1 + Cardinality(PidsOf(rest))
            /\ Cardinality(PidsOf(s.pending)) \in Nat /\ Cardinality(PidsOf(rest)) \in Nat
        <4>1. pid \in PidsOf(s.pending)
          BY DEF pid
        <4> QED BY <1>1, <2>2, <4>1, BookFields, StakedLess
      <3>2. s.created \in Int /\ Total(s.balances) \in Int /\ Len(s.settled) \in Nat
            /\ Len(s.slashed) \in Nat
        BY <1>1, BookFields
      <3>3. Stake(pid) \in Int
        BY <1>1, StakesInt
      <3>4. Worth(t) = Worth(s)
        BY <2>6, <2>8, <3>1, <3>2, <3>3 DEF Worth
      <3>5. Count(t) = Count(s)
        <4>1. Count(t) = Len(list) + Len(s.slashed) + Cardinality(PidsOf(rest))
          BY <2>8 DEF Count
        <4>2. Count(s) = Len(s.settled) + Len(s.slashed) + Cardinality(PidsOf(s.pending))
          BY DEF Count
        <4>3. Len(list) = Len(s.settled) + 1
          BY <2>4
        <4>4. /\ Cardinality(PidsOf(s.pending)) = 1 + Cardinality(PidsOf(rest))
              /\ Cardinality(PidsOf(rest)) \in Nat
          BY <3>1
        <4>5. Count(t) = (Len(s.settled) + 1) + Len(s.slashed) + Cardinality(PidsOf(rest))
          BY <4>1, <4>3, Zenon
        <4>6. Count(s) = Len(s.settled) + Len(s.slashed) + (1 + Cardinality(PidsOf(rest)))
          BY <4>2, <4>4, Zenon
        <4> HIDE DEF Count
        <4> QED BY <3>2, <4>4, <4>5, <4>6, OneMore
      <3> QED BY <3>4, <3>5
    <2> QED BY <2>2, <2>8, <2>9, <2>10, <2>11 DEF StepOK, PoolSound, t, pid
  <1>4. item.status # "approved" \/ WithinWindow(pid) => t = s
    BY DEF Settle
  <1> QED BY <1>2, <1>3, <1>4

VerifyRun(g, s, items) ==
    /\ g[0] = s
    /\ \A k \in 1 .. Len(items) : g[k] = Verify(g[k - 1], items[k])
    /\ VerifyEach(s, items) = g[Len(items)]

\* The verifying pass goes item by item.
LEMMA VerifyRuns ==
    ASSUME NEW s, NEW items, Len(items) \in Nat
    PROVE  \E g : VerifyRun(g, s, items)
  <1> DEFINE n == Len(items)
             Def(f, m) == f = [k \in 0 .. m |-> IF k = 0 THEN s ELSE Verify(f[k - 1], items[k])]
             Good == {m \in Nat : \E f : Def(f, m)}
  <1>0. n \in Nat
    OBVIOUS
  <1>1. 0 \in Good
    <2> DEFINE f == [k \in 0 .. 0 |-> s]
    <2>1. Def(f, 0)
      OBVIOUS
    <2> QED BY <2>1
  <1>2. ASSUME NEW m \in 0 .. n, m < n, m \in Good PROVE m + 1 \in Good
    <2>1. PICK g : Def(g, m)
      BY <1>2
    <2> DEFINE h == [k \in 0 .. m + 1 |-> IF k = 0 THEN s ELSE Verify(g[k - 1], items[k])]
    <2>0. m \in Nat /\ m + 1 \in Nat
      BY <1>0
    <2>2. \A k \in 0 .. m : h[k] = g[k]
      <3>1. \A k \in 0 .. m : g[k] = IF k = 0 THEN s ELSE Verify(g[k - 1], items[k])
        BY <2>1
      <3>2. \A k \in 0 .. m : k \in 0 .. m + 1
        BY <2>0
      <3> QED BY <3>1, <3>2
    <2>3. \A k \in 0 .. m + 1 : k # 0 => k - 1 \in 0 .. m
      BY <2>0
    <2>4. Def(h, m + 1)
      BY <2>2, <2>3
    <2> HIDE DEF h
    <2>5. \E f : Def(f, m + 1)
      BY <2>4
    <2> QED BY <2>0, <2>5
  <1>3. n \in Good
    <2> HIDE DEF Good
    <2>1. \A k \in 0 .. n : k < n /\ k \in Good => k + 1 \in Good
      BY <1>2
    <2> HIDE DEF n
    <2>2. \A k \in 0 .. n : k \in Good
      BY <1>0, <1>1, <2>1, UpTo
    <2> QED BY <1>0, <2>2
  <1> DEFINE f == CHOOSE f : Def(f, n)
  <1>4. Def(f, n)
    BY <1>3
  <1>5. VerifyEach(s, items) = f[n]
    BY DEF VerifyEach
  <1> HIDE DEF f
  <1>6. \A k \in 0 .. n : f[k] = IF k = 0 THEN s ELSE Verify(f[k - 1], items[k])
    BY <1>4
  <1>7. 0 \in 0 .. n /\ \A k \in 1 .. n : k \in 0 .. n /\ k # 0
    BY <1>0
  <1>8. f[0] = s /\ \A k \in 1 .. n : f[k] = Verify(f[k - 1], items[k])
    BY <1>6, <1>7
  <1>9. VerifyRun(f, s, items)
    BY <1>5, <1>8 DEF VerifyRun
  <1> QED BY <1>9

SettleRun(g, s, items) ==
    /\ g[0] = s
    /\ \A k \in 1 .. Len(items) : g[k] = Settle(g[k - 1], items[k])
    /\ SettleEach(s, items) = g[Len(items)]

\* The settling pass goes item by item.
LEMMA SettleRuns ==
    ASSUME NEW s, NEW items, Len(items) \in Nat
    PROVE  \E g : SettleRun(g, s, items)
  <1> DEFINE n == Len(items)
             Def(f, m) == f = [k \in 0 .. m |-> IF k = 0 THEN s ELSE Settle(f[k - 1], items[k])]
             Good == {m \in Nat : \E f : Def(f, m)}
  <1>0. n \in Nat
    OBVIOUS
  <1>1. 0 \in Good
    <2> DEFINE f == [k \in 0 .. 0 |-> s]
    <2>1. Def(f, 0)
      OBVIOUS
    <2> QED BY <2>1
  <1>2. ASSUME NEW m \in 0 .. n, m < n, m \in Good PROVE m + 1 \in Good
    <2>1. PICK g : Def(g, m)
      BY <1>2
    <2> DEFINE h == [k \in 0 .. m + 1 |-> IF k = 0 THEN s ELSE Settle(g[k - 1], items[k])]
    <2>0. m \in Nat /\ m + 1 \in Nat
      BY <1>0
    <2>2. \A k \in 0 .. m : h[k] = g[k]
      <3>1. \A k \in 0 .. m : g[k] = IF k = 0 THEN s ELSE Settle(g[k - 1], items[k])
        BY <2>1
      <3>2. \A k \in 0 .. m : k \in 0 .. m + 1
        BY <2>0
      <3> QED BY <3>1, <3>2
    <2>3. \A k \in 0 .. m + 1 : k # 0 => k - 1 \in 0 .. m
      BY <2>0
    <2>4. Def(h, m + 1)
      BY <2>2, <2>3
    <2> HIDE DEF h
    <2>5. \E f : Def(f, m + 1)
      BY <2>4
    <2> QED BY <2>0, <2>5
  <1>3. n \in Good
    <2> HIDE DEF Good
    <2>1. \A k \in 0 .. n : k < n /\ k \in Good => k + 1 \in Good
      BY <1>2
    <2> HIDE DEF n
    <2>2. \A k \in 0 .. n : k \in Good
      BY <1>0, <1>1, <2>1, UpTo
    <2> QED BY <1>0, <2>2
  <1> DEFINE f == CHOOSE f : Def(f, n)
  <1>4. Def(f, n)
    BY <1>3
  <1>5. SettleEach(s, items) = f[n]
    BY DEF SettleEach
  <1> HIDE DEF f
  <1>6. \A k \in 0 .. n : f[k] = IF k = 0 THEN s ELSE Settle(f[k - 1], items[k])
    BY <1>4
  <1>7. 0 \in 0 .. n /\ \A k \in 1 .. n : k \in 0 .. n /\ k # 0
    BY <1>0
  <1>8. f[0] = s /\ \A k \in 1 .. n : f[k] = Settle(f[k - 1], items[k])
    BY <1>6, <1>7
  <1>9. SettleRun(f, s, items)
    BY <1>5, <1>8 DEF SettleRun
  <1> QED BY <1>9

\* A pass of verifications keeps the pool sound, what it holds, and how many proofs there are.
LEMMA VerifyPass ==
    ASSUME currentBlock \in 0 .. MaxNow, NEW s, PoolSound(s, currentBlock, forgetful)
    PROVE  LET t == VerifyEach(s, s.pending)
           IN  PoolSound(t, currentBlock, forgetful) /\ Worth(t) = Worth(s) /\ Count(t) = Count(s)
  <1> DEFINE items == s.pending
             n == Len(items)
  <1>1. /\ n \in Nat /\ items \in Seq(Item) /\ DOMAIN items = 1 .. n /\ Distinct(items)
        /\ \A k \in 1 .. n : items[k] \in Item /\ items[k].pid \in PidsOf(items)
    <2>1. items \in Seq(Item) /\ Distinct(items)
      BY BookFields DEF PoolSound
    <2> HIDE DEF items
    <2> QED BY <2>1, PoolFacts DEF PidsOf
  <1>2. \A j, k \in 1 .. n : items[j].pid = items[k].pid => j = k
    BY <1>1 DEF Distinct
  <1>g. PICK g : VerifyRun(g, s, items)
    <2>1. Len(items) \in Nat
      BY <1>1
    <2> HIDE DEF items
    <2> QED BY <2>1, VerifyRuns
  <1>4. /\ g[0] = s
        /\ \A k \in 1 .. n : g[k] = Verify(g[k - 1], items[k])
        /\ VerifyEach(s, items) = g[n]
    BY <1>g DEF VerifyRun
  <1> HIDE DEF items, n
  <1> DEFINE Good == {k \in Nat :
                 /\ PoolSound(g[k], currentBlock, forgetful) /\ Worth(g[k]) = Worth(s) /\ Count(g[k]) = Count(s)
                 /\ \A j \in 1 .. n : j > k => items[j].pid \in PidsOf(g[k].pending)}
  <1>5. 0 \in Good
    <2>1. \A j \in 1 .. n : items[j].pid \in PidsOf(s.pending)
      BY <1>1 DEF items
    <2> QED BY <1>4, <2>1
  <1>6. ASSUME NEW k \in 0 .. n, k < n, k \in Good PROVE k + 1 \in Good
    <2>1. k + 1 \in 1 .. n /\ (k + 1) - 1 = k /\ k + 1 \in Nat /\ k + 1 > k
      BY <1>1, <1>6
    <2> DEFINE item == items[k + 1]
               a == g[k]
               b == g[k + 1]
    <2>2. b = Verify(a, item)
      BY <1>4, <2>1
    <2>3. item \in Item /\ item.pid \in PidsOf(a.pending) /\ PoolSound(a, currentBlock, forgetful)
      BY <1>1, <1>6, <2>1
    <2>5. \A j \in 1 .. n : j > k + 1 =>
                items[j].pid \in PidsOf(a.pending) /\ items[j].pid # item.pid
      <3> SUFFICES ASSUME NEW j \in 1 .. n, j > k + 1
                   PROVE  items[j].pid \in PidsOf(a.pending) /\ items[j].pid # item.pid
        OBVIOUS
      <3>1. j > k /\ j # k + 1
        BY <1>1, <2>1
      <3> QED BY <1>2, <1>6, <2>1, <3>1
    <2>6. Worth(a) = Worth(s) /\ Count(a) = Count(s)
      BY <1>6
    <2> HIDE DEF item, a, b
    <2>7. StepOK(a, b, item.pid)
      BY <2>2, <2>3, VerifyStep
    <2>8. /\ PoolSound(b, currentBlock, forgetful) /\ Worth(b) = Worth(s) /\ Count(b) = Count(s)
          /\ \A j \in 1 .. n : j > k + 1 => items[j].pid \in PidsOf(b.pending)
      BY <2>5, <2>6, <2>7 DEF StepOK
    <2> QED BY <2>1, <2>8 DEF b
  <1>7. n \in Good
    <2> HIDE DEF Good
    <2>1. \A k \in 0 .. n : k < n /\ k \in Good => k + 1 \in Good
      BY <1>6
    <2>2. \A k \in 0 .. n : k \in Good
      BY <1>1, <1>5, <2>1, UpTo
    <2> QED BY <1>1, <2>2
  <1>8. PoolSound(g[n], currentBlock, forgetful) /\ Worth(g[n]) = Worth(s) /\ Count(g[n]) = Count(s)
    BY <1>7
  <1>9. VerifyEach(s, s.pending) = g[n]
    BY <1>4 DEF items
  <1> HIDE DEF Good
  <1> QED BY <1>8, <1>9

\* A pass of settlements likewise: what it settles was approved, and so is right.
LEMMA SettlePass ==
    ASSUME currentBlock \in 0 .. MaxNow, NEW s, PoolSound(s, currentBlock, forgetful)
    PROVE  LET t == SettleEach(s, s.pending)
           IN  PoolSound(t, currentBlock, forgetful) /\ Worth(t) = Worth(s) /\ Count(t) = Count(s)
  <1> DEFINE items == s.pending
             n == Len(items)
  <1>1. /\ n \in Nat /\ items \in Seq(Item) /\ DOMAIN items = 1 .. n /\ Distinct(items)
        /\ \A k \in 1 .. n : items[k] \in Item /\ items[k].pid \in PidsOf(items)
    <2>1. items \in Seq(Item) /\ Distinct(items)
      BY BookFields DEF PoolSound
    <2> HIDE DEF items
    <2> QED BY <2>1, PoolFacts DEF PidsOf
  <1>2. \A j, k \in 1 .. n : items[j].pid = items[k].pid => j = k
    BY <1>1 DEF Distinct
  <1>3. \A k \in 1 .. n : items[k].status = "approved" => Right(items[k].pid)
    BY <1>1 DEF PoolSound, Approved
  <1>g. PICK g : SettleRun(g, s, items)
    <2>1. Len(items) \in Nat
      BY <1>1
    <2> HIDE DEF items
    <2> QED BY <2>1, SettleRuns
  <1>4. /\ g[0] = s
        /\ \A k \in 1 .. n : g[k] = Settle(g[k - 1], items[k])
        /\ SettleEach(s, items) = g[n]
    BY <1>g DEF SettleRun
  <1> HIDE DEF items, n
  <1> DEFINE Good == {k \in Nat :
                 /\ PoolSound(g[k], currentBlock, forgetful) /\ Worth(g[k]) = Worth(s) /\ Count(g[k]) = Count(s)
                 /\ \A j \in 1 .. n : j > k => items[j].pid \in PidsOf(g[k].pending)}
  <1>5. 0 \in Good
    <2>1. \A j \in 1 .. n : items[j].pid \in PidsOf(s.pending)
      BY <1>1 DEF items
    <2> QED BY <1>4, <2>1
  <1>6. ASSUME NEW k \in 0 .. n, k < n, k \in Good PROVE k + 1 \in Good
    <2>1. k + 1 \in 1 .. n /\ (k + 1) - 1 = k /\ k + 1 \in Nat /\ k + 1 > k
      BY <1>1, <1>6
    <2> DEFINE item == items[k + 1]
               a == g[k]
               b == g[k + 1]
    <2>2. b = Settle(a, item)
      BY <1>4, <2>1
    <2>3. item \in Item /\ item.pid \in PidsOf(a.pending) /\ PoolSound(a, currentBlock, forgetful)
      BY <1>1, <1>6, <2>1
    <2>4. item.status = "approved" => Right(item.pid)
      BY <1>3, <2>1
    <2>5. \A j \in 1 .. n : j > k + 1 =>
                items[j].pid \in PidsOf(a.pending) /\ items[j].pid # item.pid
      <3> SUFFICES ASSUME NEW j \in 1 .. n, j > k + 1
                   PROVE  items[j].pid \in PidsOf(a.pending) /\ items[j].pid # item.pid
        OBVIOUS
      <3>1. j > k /\ j # k + 1
        BY <1>1, <2>1
      <3> QED BY <1>2, <1>6, <2>1, <3>1
    <2>6. Worth(a) = Worth(s) /\ Count(a) = Count(s)
      BY <1>6
    <2> HIDE DEF item, a, b
    <2>7. StepOK(a, b, item.pid)
      BY <2>2, <2>3, <2>4, SettleStep
    <2>8. /\ PoolSound(b, currentBlock, forgetful) /\ Worth(b) = Worth(s) /\ Count(b) = Count(s)
          /\ \A j \in 1 .. n : j > k + 1 => items[j].pid \in PidsOf(b.pending)
      BY <2>5, <2>6, <2>7 DEF StepOK
    <2> QED BY <2>1, <2>8 DEF b
  <1>7. n \in Good
    <2> HIDE DEF Good
    <2>1. \A k \in 0 .. n : k < n /\ k \in Good => k + 1 \in Good
      BY <1>6
    <2>2. \A k \in 0 .. n : k \in Good
      BY <1>1, <1>5, <2>1, UpTo
    <2> QED BY <1>1, <2>2
  <1>8. PoolSound(g[n], currentBlock, forgetful) /\ Worth(g[n]) = Worth(s) /\ Count(g[n]) = Count(s)
    BY <1>7
  <1>9. SettleEach(s, s.pending) = g[n]
    BY <1>4 DEF items
  <1> HIDE DEF Good
  <1> QED BY <1>8, <1>9

-----------------------------------------------------------------------------
(* What blocks move *)

\* Rows that each sum to zero sum to zero by column.
ZeroRows(f, c, h, S, A) ==
    /\ IsFiniteSet(S) /\ IsFiniteSet(A)
    /\ \A x \in S : (\A a \in A : f[x][a] \in Int) /\ SumFunctionOnSet(f[x], A) = 0
    /\ \A a \in A : \A x \in S : c[a][x] = f[x][a]
    /\ \A a \in A : h[a] = SumFunctionOnSet(c[a], S)

LEMMA SumsToZero ==
    ASSUME NEW f, NEW c, NEW h, NEW S, NEW A, ZeroRows(f, c, h, S, A)
    PROVE  SumFunctionOnSet(h, A) = 0
  <1> USE DEF ZeroRows
  <1> DEFINE H(s) == [a \in A |-> SumFunctionOnSet(c[a], s)]
             Bad == {s \in SUBSET S : SumFunctionOnSet(H(s), A) # 0}
  <1>1. SumFunctionOnSet(H(S), A) = SumFunctionOnSet(h, A)
    <2>1. \A a \in A : h[a] = H(S)[a]
      OBVIOUS
    <2> HIDE DEF H
    <2> QED BY <2>1, SumEqual
  <1> SUFFICES ASSUME Bad # {} PROVE FALSE
    BY <1>1
  <1>2. PICK s \in Bad : \A t \in Bad : ~(Cardinality(t) < Cardinality(s))
    <2>1. Bad \in SUBSET SUBSET S
      OBVIOUS
    <2> HIDE DEF Bad
    <2> QED BY <2>1, LeastSubset
  <1>3. s \in SUBSET S /\ SumFunctionOnSet(H(s), A) # 0
    BY <1>2
  <1>4. \A t \in SUBSET S : Cardinality(t) < Cardinality(s) => SumFunctionOnSet(H(t), A) = 0
    BY <1>2
  <1> HIDE DEF Bad
  <1>5. s # {}
    <2> SUFFICES ASSUME s = {} PROVE FALSE
      OBVIOUS
    <2>1. \A a \in A : H({})[a] = 0
      BY SumEmpty
    <2> HIDE DEF H
    <2> QED BY <1>3, <2>1, SumZero
  <1>6. PICK x \in s : TRUE
    BY <1>5
  <1> DEFINE t == s \ {x}
  <1>7. x \in S /\ t \in SUBSET S /\ IsFiniteSet(s) /\ IsFiniteSet(t) /\ Cardinality(t) < Cardinality(s)
    BY <1>3, <1>6, RemoveOne
  <1>8. SumFunctionOnSet(H(t), A) = 0
    BY <1>4, <1>7
  <1>9. \A a \in A : /\ f[x][a] \in Int /\ H(t)[a] \in Int
                     /\ H(s)[a] = f[x][a] + H(t)[a]
    <2> SUFFICES ASSUME NEW a \in A
                 PROVE  /\ f[x][a] \in Int /\ H(t)[a] \in Int
                        /\ H(s)[a] = f[x][a] + H(t)[a]
      OBVIOUS
    <2>1. \A y \in S : c[a][y] = f[y][a] /\ c[a][y] \in Int
      OBVIOUS
    <2>2. \A y \in s : c[a][y] \in Int
      BY <1>3, <2>1
    <2>3. \A y \in t : c[a][y] \in Int
      BY <2>2
    <2>4. H(s)[a] = SumFunctionOnSet(c[a], s) /\ H(t)[a] = SumFunctionOnSet(c[a], t)
      OBVIOUS
    <2>5. c[a][x] = f[x][a] /\ f[x][a] \in Int
      BY <1>7, <2>1
    <2> HIDE DEF H
    <2>6. SumFunctionOnSet(c[a], s) = c[a][x] + SumFunctionOnSet(c[a], t)
      BY <1>6, <1>7, <2>2, SumRemove
    <2>7. SumFunctionOnSet(c[a], t) \in Int
      BY <1>7, <2>3, SumInt
    <2> QED BY <2>4, <2>5, <2>6, <2>7
  <1>10. SumFunctionOnSet(f[x], A) = 0
    BY <1>7
  <1> HIDE DEF H, t
  <1>11. SumFunctionOnSet(H(s), A) = SumFunctionOnSet(f[x], A) + SumFunctionOnSet(H(t), A)
    <2>1. \A a \in A : f[x][a] \in Int /\ H(t)[a] \in Int /\ H(s)[a] = f[x][a] + H(t)[a]
      BY <1>9
    <2> QED BY <2>1, SumPlus
  <1> QED BY <1>3, <1>8, <1>10, <1>11

\* A sum over a list is the sum over its two parts.
CutAt(f, g, n, h) ==
    /\ n \in Nat /\ h \in 0 .. n
    /\ \A i \in 1 .. n : f[i] \in Int
    /\ \A i \in 1 .. n - h : g[i] = f[h + i]

LEMMA SumSplit ==
    ASSUME NEW f, NEW g, NEW n, NEW h, CutAt(f, g, n, h)
    PROVE  /\ SumFunctionOnSet(f, 1 .. n) =
                SumFunctionOnSet(f, 1 .. h) + SumFunctionOnSet(g, 1 .. n - h)
           /\ SumFunctionOnSet(f, 1 .. h) \in Int /\ SumFunctionOnSet(g, 1 .. n - h) \in Int
  <1> USE DEF CutAt
  <1> DEFINE S == 1 .. n
             L == 1 .. h
             R == h + 1 .. n
             D == 1 .. n - h
             low == [i \in S |-> IF i \in L THEN f[i] ELSE 0]
             high == [i \in S |-> IF i \in L THEN 0 ELSE f[i]]
             m == [i \in D |-> h + i]
  <1>1. /\ h \in Nat /\ n - h \in Nat /\ L \in SUBSET S /\ R \in SUBSET S
        /\ \A i \in S : i \in L \/ i \in R
        /\ \A i \in R : i \notin L
        /\ h + 1 \in Int
    OBVIOUS
  <1>2. IsFiniteSet(S) /\ IsFiniteSet(L) /\ IsFiniteSet(D) /\ IsFiniteSet(R)
    <2>1. n \in Int /\ h \in Int /\ n - h \in Int /\ 1 \in Int
      OBVIOUS
    <2> QED BY <1>1, <2>1, FS_Interval
  <1>3. /\ \A i \in S : low[i] \in Int /\ high[i] \in Int /\ f[i] = low[i] + high[i]
        /\ \A i \in L : low[i] = f[i] /\ f[i] \in Int
        /\ \A i \in R : high[i] = f[i] /\ f[i] \in Int
        /\ \A i \in S \ L : low[i] = 0
        /\ \A i \in S \ R : high[i] = 0
    BY <1>1
  <1>4. /\ \A i \in D : m[i] \in R /\ f[m[i]] = g[i] /\ g[i] \in Int
        /\ \A i, j \in D : m[i] = m[j] => i = j
    BY <1>1
  <1>5. \A r \in R : \E i \in D : m[i] = r
    <2> SUFFICES ASSUME NEW r \in R PROVE r - h \in D /\ m[r - h] = r
      OBVIOUS
    <2> QED BY <1>1
  <1> HIDE DEF S, L, R, D, low, high, m
  <1>6. SumFunctionOnSet(f, S) = SumFunctionOnSet(low, S) + SumFunctionOnSet(high, S)
    <2>1. \A i \in S : low[i] \in Int /\ high[i] \in Int /\ f[i] = low[i] + high[i]
      BY <1>3
    <2> QED BY <1>2, <2>1, SumPlus
  <1>7. SumFunctionOnSet(low, S) = SumFunctionOnSet(f, L)
    <2>1. SumFunctionOnSet(low, L) = SumFunctionOnSet(low, S)
      BY <1>1, <1>2, <1>3, SumDrop
    <2>2. SumFunctionOnSet(low, L) = SumFunctionOnSet(f, L)
      BY <1>2, <1>3, SumEqual
    <2> QED BY <2>1, <2>2
  <1>8. SumFunctionOnSet(high, S) = SumFunctionOnSet(f, R)
    <2>1. SumFunctionOnSet(high, R) = SumFunctionOnSet(high, S)
      BY <1>1, <1>2, <1>3, SumDrop
    <2>2. SumFunctionOnSet(high, R) = SumFunctionOnSet(f, R)
      BY <1>2, <1>3, SumEqual
    <2> QED BY <2>1, <2>2
  <1>9. SumFunctionOnSet(f, R) = SumFunctionOnSet(g, D)
    <2>1. \A i \in D : g[i] \in Int
      BY <1>4
    <2>2. \A i \in D : m[i] \in R /\ f[m[i]] = g[i]
      BY <1>4
    <2>3. \A i, j \in D : m[i] = m[j] => i = j
      BY <1>4
    <2> QED BY <1>2, <1>5, <2>1, <2>2, <2>3, SumRename
  <1>10. SumFunctionOnSet(f, L) \in Int
    BY <1>2, <1>3, SumInt
  <1>11. SumFunctionOnSet(g, D) \in Int
    BY <1>2, <1>4, SumInt
  <1> QED BY <1>6, <1>7, <1>8, <1>9, <1>10, <1>11 DEF S, L, D

LEMMA PaidInt == \A j \in Jobs, a \in Accounts : Paid(j, a) \in Int
  BY NewflowAssumption DEF Paid

\* A block moves whole amounts, and makes nothing.
LEMMA FlowFacts ==
    ASSUME NEW jobs \in Seq(Jobs)
    PROVE  Flow(jobs) \in [Accounts -> Int] /\ Total(Flow(jobs)) = 0
  <1> DEFINE D == DOMAIN jobs
             P(i) == [a \in Accounts |-> Paid(jobs[i], a)]
             f == [i \in D |-> P(i)]
             h == Flow(jobs)
  <1>1. D = 1 .. Len(jobs) /\ Len(jobs) \in Nat /\ \A i \in D : jobs[i] \in Jobs
    OBVIOUS
  <1>2. IsFiniteSet(D) /\ IsFiniteSet(Accounts)
    BY <1>1, FS_Interval, NewflowAssumption
  <1>3. \A i \in D : P(i) \in [Accounts -> Int] /\ Total(P(i)) = 0
    <2> SUFFICES ASSUME NEW i \in D PROVE P(i) \in [Accounts -> Int] /\ Total(P(i)) = 0
      OBVIOUS
    <2>1. jobs[i] \in Jobs
      BY <1>1
    <2> DEFINE job == JobOf[jobs[i]]
               mv == Move(job.consumer, job.worker, job.fee)
    <2>2. job.consumer \in Accounts /\ job.worker \in Accounts /\ job.fee \in Int
      BY <2>1, NewflowAssumption
    <2>3. mv \in [Accounts -> Int] /\ Total(mv) = 0
      BY <2>2, TotalMove
    <2>4. \A a \in Accounts : mv[a] = P(i)[a]
      BY <2>2 DEF Move, Plus, Only, Paid
    <2> QED BY <2>3, <2>4
  <1> DEFINE c == [a \in Accounts |-> [i \in D |-> f[i][a]]]
  <1>c. \A a \in Accounts : \A i \in D : c[a][i] = f[i][a]
    OBVIOUS
  <1>4. \A a \in Accounts : h[a] = SumFunctionOnSet(c[a], D)
    <2> SUFFICES ASSUME NEW a \in Accounts
                 PROVE  h[a] = SumFunctionOnSet(c[a], D)
      OBVIOUS
    <2>1. c[a] = [i \in D |-> Paid(jobs[i], a)]
      OBVIOUS
    <2>2. h[a] = SumFunctionOnSet([i \in D |-> Paid(jobs[i], a)], D)
      BY DEF Flow
    <2> HIDE DEF f, h, c
    <2> QED BY <2>1, <2>2
  <1>5. \A i \in D : (\A a \in Accounts : f[i][a] \in Int) /\ SumFunctionOnSet(f[i], Accounts) = 0
    BY <1>3 DEF Total
  <1>6. \A a \in Accounts : h[a] \in Int
    <2> SUFFICES ASSUME NEW a \in Accounts PROVE h[a] \in Int
      OBVIOUS
    <2>1. \A i \in D : c[a][i] \in Int
      BY <1>5
    <2>2. h[a] = SumFunctionOnSet(c[a], D)
      BY <1>4
    <2> HIDE DEF c, h, D, f
    <2> QED BY <1>2, <2>1, <2>2, SumInt
  <1>7. h = [a \in Accounts |-> h[a]]
    BY DEF Flow
  <1> HIDE DEF f, h, D, P, c
  <1>z. ZeroRows(f, c, h, D, Accounts)
    BY <1>2, <1>4, <1>5, <1>c DEF ZeroRows
  <1>8. SumFunctionOnSet(h, Accounts) = 0
    BY <1>z, SumsToZero
  <1>9. h \in [Accounts -> Int]
    BY <1>6, <1>7
  <1> QED BY <1>8, <1>9 DEF h, Total

LEMMA BlockList ==
    ASSUME NEW list \in Seq(Block)
    PROVE  /\ Len(list) \in Nat /\ DOMAIN list = 1 .. Len(list)
           /\ \A i \in 1 .. Len(list) : list[i] \in Block /\ list[i].jobs \in Seq(Jobs)
           /\ \A a \in Accounts, i \in 1 .. Len(list) : Flow(list[i].jobs)[a] \in Int
  <1>1. /\ Len(list) \in Nat /\ DOMAIN list = 1 .. Len(list)
        /\ \A i \in 1 .. Len(list) : list[i] \in Block
    OBVIOUS
  <1>2. \A i \in 1 .. Len(list) : list[i].jobs \in Seq(Jobs)
    BY <1>1 DEF Block
  <1> QED BY <1>1, <1>2, FlowFacts

LEMMA FlowOfInt ==
    ASSUME NEW list \in Seq(Block), NEW a \in Accounts
    PROVE  FlowOf(list, a) \in Int
  <1> DEFINE f == [i \in DOMAIN list |-> Flow(list[i].jobs)[a]]
  <1>1. DOMAIN list = 1 .. Len(list) /\ Len(list) \in Nat /\ \A i \in DOMAIN list : f[i] \in Int
    BY BlockList
  <1>2. IsFiniteSet(DOMAIN list)
    BY <1>1, FS_Interval
  <1> HIDE DEF f
  <1>3. SumFunctionOnSet(f, DOMAIN list) \in Int
    BY <1>1, <1>2, SumInt
  <1> QED BY <1>3 DEF f, FlowOf

\* Blocks together make nothing either.
LEMMA FlowOfZero ==
    ASSUME NEW list \in Seq(Block), NEW h, \A a \in Accounts : h[a] = FlowOf(list, a)
    PROVE  SumFunctionOnSet(h, Accounts) = 0
  <1> DEFINE D == DOMAIN list
             f == [i \in D |-> Flow(list[i].jobs)]
  <1>1. D = 1 .. Len(list) /\ Len(list) \in Nat /\ \A i \in D : list[i].jobs \in Seq(Jobs)
    BY BlockList
  <1>2. IsFiniteSet(D) /\ IsFiniteSet(Accounts)
    <2>1. IsFiniteSet(1 .. Len(list))
      <3>1. 1 \in Int /\ Len(list) \in Int
        BY <1>1
      <3> QED BY <3>1, FS_Interval
    <2> QED BY <1>1, <2>1, NewflowAssumption
  <1>3. \A i \in D : f[i] \in [Accounts -> Int] /\ Total(f[i]) = 0
    BY <1>1, FlowFacts
  <1>4. \A i \in D : (\A a \in Accounts : f[i][a] \in Int) /\ SumFunctionOnSet(f[i], Accounts) = 0
    <2> HIDE DEF f
    <2> QED BY <1>3 DEF Total
  <1> DEFINE c == [a \in Accounts |-> [i \in D |-> f[i][a]]]
  <1>c. \A a \in Accounts : \A i \in D : c[a][i] = f[i][a]
    OBVIOUS
  <1>5. \A a \in Accounts : h[a] = SumFunctionOnSet(c[a], D)
    <2> SUFFICES ASSUME NEW a \in Accounts
                 PROVE  h[a] = SumFunctionOnSet(c[a], D)
      OBVIOUS
    <2>1. c[a] = [i \in D |-> Flow(list[i].jobs)[a]]
      OBVIOUS
    <2>2. h[a] = SumFunctionOnSet([i \in D |-> Flow(list[i].jobs)[a]], D)
      BY DEF FlowOf
    <2> HIDE DEF f, c
    <2> QED BY <2>1, <2>2
  <1> HIDE DEF f, D, c
  <1>z. ZeroRows(f, c, h, D, Accounts)
    BY <1>2, <1>4, <1>5, <1>c DEF ZeroRows
  <1> QED BY <1>z, SumsToZero

\* A list moves what its first part and its rest move.
LEMMA FlowOfSplit ==
    ASSUME NEW list \in Seq(Block), NEW h \in 0 .. Len(list),
           NEW low \in Seq(Block), Len(low) = h, \A i \in 1 .. h : low[i] = list[i],
           NEW high \in Seq(Block), Len(high) = Len(list) - h,
           \A i \in 1 .. Len(list) - h : high[i] = list[h + i],
           NEW a \in Accounts
    PROVE  FlowOf(list, a) = FlowOf(low, a) + FlowOf(high, a)
  <1> DEFINE n == Len(list)
             all == [i \in DOMAIN list |-> Flow(list[i].jobs)[a]]
             lo == [i \in DOMAIN low |-> Flow(low[i].jobs)[a]]
             hi == [i \in DOMAIN high |-> Flow(high[i].jobs)[a]]
  <1>1. /\ n \in Nat /\ h \in 0 .. n /\ DOMAIN list = 1 .. n
        /\ DOMAIN low = 1 .. h /\ DOMAIN high = 1 .. n - h
        /\ \A i \in 1 .. n : Flow(list[i].jobs)[a] \in Int
    BY BlockList
  <1>2. /\ \A i \in 1 .. n : all[i] = Flow(list[i].jobs)[a] /\ all[i] \in Int
        /\ \A i \in 1 .. h : lo[i] = Flow(low[i].jobs)[a]
        /\ \A i \in 1 .. n - h : hi[i] = Flow(high[i].jobs)[a]
    BY <1>1
  <1>3. \A i \in 1 .. h : i \in 1 .. n
    BY <1>1
  <1>4. \A i \in 1 .. n - h : h + i \in 1 .. n
    BY <1>1
  <1>5. \A i \in 1 .. h : lo[i] = all[i]
    <2> HIDE DEF all, lo, hi, n
    <2> QED BY <1>2, <1>3 DEF n
  <1>6. \A i \in 1 .. n - h : hi[i] = all[h + i]
    <2> HIDE DEF all, lo, hi, n
    <2> QED BY <1>2, <1>4 DEF n
  <1>7. IsFiniteSet(1 .. h)
    <2>1. 1 \in Int /\ h \in Int
      BY <1>1
    <2> QED BY <2>1, FS_Interval
  <1>8. /\ FlowOf(list, a) = SumFunctionOnSet(all, 1 .. n)
        /\ FlowOf(low, a) = SumFunctionOnSet(lo, 1 .. h)
        /\ FlowOf(high, a) = SumFunctionOnSet(hi, 1 .. n - h)
    BY <1>1 DEF FlowOf
  <1> HIDE DEF all, lo, hi, n
  <1>9. SumFunctionOnSet(all, 1 .. n) =
          SumFunctionOnSet(all, 1 .. h) + SumFunctionOnSet(hi, 1 .. n - h)
    <2>1. \A i \in 1 .. n : all[i] \in Int
      BY <1>2
    <2>2. CutAt(all, hi, n, h)
      BY <1>1, <1>6, <2>1 DEF CutAt
    <2> QED BY <2>2, SumSplit
  <1>10. SumFunctionOnSet(lo, 1 .. h) = SumFunctionOnSet(all, 1 .. h)
    BY <1>5, <1>7, SumEqual
  <1> QED BY <1>8, <1>9, <1>10

LEMMA FlowOfAppend ==
    ASSUME NEW list \in Seq(Block), NEW block \in Block, NEW a \in Accounts
    PROVE  /\ FlowOf(Append(list, block), a) = FlowOf(list, a) + Flow(block.jobs)[a]
           /\ FlowOf(list, a) \in Int /\ Flow(block.jobs)[a] \in Int
  <1> DEFINE n == Len(list)
             new == Append(list, block)
             f == [i \in DOMAIN new |-> Flow(new[i].jobs)[a]]
             g == [i \in DOMAIN list |-> Flow(list[i].jobs)[a]]
  <1>1. /\ n \in Nat /\ new \in Seq(Block) /\ DOMAIN new = 1 .. n + 1 /\ DOMAIN list = 1 .. n
        /\ \A i \in 1 .. n : new[i] = list[i]
        /\ new[n + 1] = block
    BY AppendProperties, BlockList
  <1>2. Flow(block.jobs)[a] \in Int
    BY FlowFacts DEF Block
  <1>3. /\ \A i \in 1 .. n + 1 : f[i] \in Int
        /\ f[n + 1] = Flow(block.jobs)[a]
        /\ \A i \in 1 .. n : f[i] = g[i]
    <2>1. \A i \in 1 .. n : i \in 1 .. n + 1
      BY <1>1
    <2>2. n + 1 \in 1 .. n + 1
      BY <1>1
    <2>3. \A i \in DOMAIN new : f[i] = Flow(new[i].jobs)[a] /\ f[i] \in Int
      <3> HIDE DEF new
      <3> QED BY <1>1, BlockList
    <2>4. \A i \in DOMAIN list : g[i] = Flow(list[i].jobs)[a]
      OBVIOUS
    <2> HIDE DEF new, f, g
    <2> QED BY <1>1, <2>1, <2>2, <2>3, <2>4
  <1>4. IsFiniteSet(1 .. n + 1) /\ IsFiniteSet(1 .. n) /\ (1 .. n + 1) \ {n + 1} = 1 .. n
        /\ n + 1 \in 1 .. n + 1
    <2>1. 1 \in Int /\ n \in Int /\ n + 1 \in Int
      BY <1>1
    <2>2. IsFiniteSet(1 .. n + 1) /\ IsFiniteSet(1 .. n)
      BY <2>1, FS_Interval
    <2> QED BY <1>1, <2>2
  <1>5. FlowOf(new, a) = SumFunctionOnSet(f, 1 .. n + 1) /\ FlowOf(list, a) = SumFunctionOnSet(g, 1 .. n)
    BY <1>1 DEF FlowOf
  <1> HIDE DEF f, g, new, n
  <1>6. SumFunctionOnSet(f, 1 .. n + 1) = f[n + 1] + SumFunctionOnSet(f, 1 .. n)
    <2>1. SumFunctionOnSet(f, 1 .. n + 1) = f[n + 1] + SumFunctionOnSet(f, (1 .. n + 1) \ {n + 1})
      BY <1>3, <1>4, SumRemove
    <2> QED BY <1>4, <2>1
  <1>7. SumFunctionOnSet(f, 1 .. n) = SumFunctionOnSet(g, 1 .. n)
    BY <1>3, <1>4, SumEqual
  <1>8. FlowOf(list, a) \in Int
    BY FlowOfInt
  <1>9. FlowOf(new, a) = FlowOf(list, a) + Flow(block.jobs)[a]
    BY <1>2, <1>3, <1>5, <1>6, <1>7, <1>8
  <1> QED BY <1>2, <1>8, <1>9 DEF new

-----------------------------------------------------------------------------
(* The invariant *)

PoolInv == PoolSound(Books, currentBlock, forgetful)

\* A submission leaves the pool in one way.
CountInv == Count(Books) <= submits

\* What moved outside of blocks is in the pool, but for what was made and burned.
MoneyInv ==
    Total(other) + Staked(pending) + ChallengeStake * Cardinality(Open) = created - burned

CoreInv == ChainSound /\ PoolInv /\ CountInv /\ MoneyInv

-----------------------------------------------------------------------------
(* What a step leaves alone *)

LEMMA ChainKept ==
    ASSUME ChainLine, JobsOnce, UNCHANGED <<blocks, spent>>
    PROVE  ChainLine' /\ JobsOnce'
  <1>1. ChainLine'
    BY DEF ChainLine
  <1>2. JobsOnce'
    BY DEF JobsOnce
  <1> QED BY <1>1, <1>2

LEMMA ProfilesKept ==
    ASSUME ProfilesFit, UNCHANGED profiles
    PROVE  ProfilesFit'
  BY DEF ProfilesFit, CanHandle

LEMMA FreeMove ==
    ASSUME CoreTypeOK, BalancesExact, UNCHANGED blocks, NEW delta \in [Accounts -> Int],
           balances' = Plus(balances, delta), other' = Plus(other, delta)
    PROVE  /\ BalancesExact'
           /\ balances' \in [Accounts -> Int] /\ other' \in [Accounts -> Int]
           /\ Total(other') = Total(other) + Total(delta)
           /\ Total(other) \in Int /\ Total(delta) \in Int
  <1>1. balances \in [Accounts -> Int] /\ other \in [Accounts -> Int] /\ blocks \in Seq(Block)
    BY DEF CoreTypeOK
  <1>2. /\ balances' \in [Accounts -> Int] /\ other' \in [Accounts -> Int]
        /\ Total(other') = Total(other) + Total(delta)
        /\ Total(other) \in Int /\ Total(delta) \in Int
    BY <1>1, TotalPlus
  <1>3. ASSUME NEW a \in Accounts
        PROVE  balances'[a] = Genesis[a] + other'[a] + FlowOf(blocks', a)
    <2>1. balances[a] = Genesis[a] + other[a] + FlowOf(blocks, a)
      BY DEF BalancesExact
    <2>2. balances'[a] = balances[a] + delta[a] /\ other'[a] = other[a] + delta[a]
      BY DEF Plus
    <2>3. FlowOf(blocks', a) = FlowOf(blocks, a)
      OBVIOUS
    <2>4. FlowOf(blocks, a) \in Int /\ other[a] \in Int /\ delta[a] \in Int /\ Genesis[a] \in Int
      BY <1>1, FlowOfInt, NewflowAssumption
    <2> QED BY <2>1, <2>2, <2>3, <2>4
  <1> QED BY <1>2, <1>3 DEF BalancesExact

LEMMA BalancesKept ==
    ASSUME BalancesExact, UNCHANGED <<balances, other, blocks>>
    PROVE  BalancesExact'
  BY DEF BalancesExact

LEMMA BooksKept ==
    ASSUME PoolInv, CountInv,
           UNCHANGED <<pending, slashed, settled, entries, verified, currentBlock, forgetful, submits>>,
           balances' \in [Accounts -> Int], created' \in Int
    PROVE  PoolInv' /\ CountInv'
  <1>1. Books \in BookType
    BY DEF PoolInv, PoolSound
  <1>2. Books' \in BookType
    BY <1>1 DEF Books, BookType
  <1>3. /\ Distinct(Books'.pending)
        /\ Approved(Books'.pending, Books'.verified) /\ \A pid \in Books'.verified : Right(pid)
        /\ SettledRight(Books', currentBlock') /\ LedgerTrue(Books')
        /\ LedgerFull(Books', forgetful')
    BY DEF PoolInv, PoolSound, Books, SettledRight, LedgerTrue, LedgerFull
  <1>4. PoolInv'
    BY <1>2, <1>3 DEF PoolInv, PoolSound, Books
  <1>5. CountInv'
    BY DEF CountInv, Count, Books
  <1> QED BY <1>4, <1>5

LEMMA MoneyKept ==
    ASSUME MoneyInv, UNCHANGED <<pending, challenges, created, burned>>,
           Total(other') = Total(other)
    PROVE  MoneyInv'
  BY DEF MoneyInv, Open

LEMMA OpenFinite == CoreTypeOK => IsFiniteSet(Open) /\ Cardinality(Open) \in Nat
  <1> SUFFICES ASSUME CoreTypeOK PROVE IsFiniteSet(Open) /\ Cardinality(Open) \in Nat
    OBVIOUS
  <1>1. IsFiniteSet(DOMAIN challenges) /\ Open \subseteq DOMAIN challenges
    BY DEF CoreTypeOK, Open
  <1> QED BY <1>1, FS_Subset, FS_CardinalityType

\* What the books hold, as numbers.
LEMMA Numbers ==
    ASSUME CoreTypeOK
    PROVE  /\ Total(other) \in Int /\ Staked(pending) \in Int
           /\ ChallengeStake * Cardinality(Open) \in Int /\ ChallengeStake \in Nat
           /\ Cardinality(Open) \in Nat
           /\ created \in Int /\ burned \in Int /\ submits \in Nat /\ currentBlock \in 0 .. MaxNow
  <1>1. other \in [Accounts -> Int] /\ pending \in Seq(Item)
    BY DEF CoreTypeOK
  <1>2. Total(other) \in Int /\ Staked(pending) \in Int
    BY <1>1, TotalInt, StakedSame
  <1>3. ChallengeStake \in Nat /\ Cardinality(Open) \in Nat
    BY OpenFinite, NewflowAssumption
  <1>4. ChallengeStake * Cardinality(Open) \in Int
    BY <1>3
  <1> QED BY <1>2, <1>3, <1>4 DEF CoreTypeOK

LEMMA CoreInit_Inv == CoreInit => CoreInv
  <1> SUFFICES ASSUME CoreInit PROVE CoreInv
    OBVIOUS
  <1> USE DEF CoreInit
  <1>e. Len(<< >>) = 0 /\ DOMAIN << >> = {} /\ Range(<< >>) = {} /\ \A T : << >> \in Seq(T)
    BY DEF Range
  <1>1. CoreTypeOK
    <2>1. balances \in [Accounts -> Int] /\ other \in [Accounts -> Int]
      BY NewflowAssumption
    <2>2. blocks \in Seq(Block) /\ built \subseteq Block /\ pending \in Seq(Item)
          /\ settled \in Seq(Pids) /\ slashed \in Seq(Pids)
      BY <1>e
    <2>3. IsFiniteSet(DOMAIN challenges) /\ DOMAIN challenges = {}
      BY <1>e, FS_EmptySet
    <2>4. 0 \in 0 .. MaxNow
      BY NewflowAssumption
    <2>5. profiles \in [Accounts -> {<< >>} \cup {<<p>> : p \in Profiles}]
      OBVIOUS
    <2>6. /\ spent \subseteq Jobs /\ claimed \subseteq Accounts /\ nonces \in [Accounts -> Nat]
          /\ entries \subseteq [type : EntryTypes, ref : Pids, block : 0 .. MaxNow]
          /\ currentBlock \in 0 .. MaxNow /\ submits \in Nat /\ raised \in Nat
          /\ created \in Int /\ burned \in Int /\ verified \subseteq Pids
      BY <2>4
    <2>9. forgetful \in BOOLEAN
      BY Zenon
    <2>8. \A id \in DOMAIN challenges :
             /\ id \in Pids \X Accounts \X (0 .. MaxNow)
             /\ challenges[id] \in [claim : Outputs, resolved : BOOLEAN]
      BY <2>3
    <2>7. {balances, other} \subseteq [Accounts -> Int] /\ {settled, slashed} \subseteq Seq(Pids)
          /\ {submits, raised} \subseteq Nat /\ {created, burned} \subseteq Int
      BY <2>1, <2>2, <2>6
    <2> QED BY <2>1, <2>2, <2>3, <2>4, <2>5, <2>6, <2>7, <2>8, <2>9, Zenon DEF CoreTypeOK
  <1>2. ChainLine /\ JobsOnce /\ ProfilesFit
    BY <1>e DEF ChainLine, JobsOnce, ProfilesFit
  <1>3. BalancesExact
    <2>1. \A a \in Accounts : FlowOf(blocks, a) = 0
      BY <1>e, SumEmpty DEF FlowOf
    <2>2. \A a \in Accounts : Genesis[a] \in Int /\ balances[a] = Genesis[a] /\ other[a] = 0
      BY NewflowAssumption
    <2> QED BY <2>1, <2>2 DEF BalancesExact
  <1>4. PidsOf(pending) = {}
    BY <1>e DEF PidsOf
  <1>5. PoolInv
    <2>1. Books \in BookType
      BY <1>1 DEF Books, BookType, CoreTypeOK, Ledgers
    <2>2. /\ Distinct(pending) /\ Approved(pending, verified)
          /\ SettledRight(Books, currentBlock) /\ LedgerTrue(Books) /\ LedgerFull(Books, forgetful)
      BY <1>e DEF Distinct, Approved, SettledRight, LedgerTrue, LedgerFull, Books
    <2> QED BY <2>1, <2>2 DEF PoolInv, PoolSound, Books
  <1>6. CountInv
    BY <1>e, <1>4, FS_EmptySet DEF CountInv, Count, Books
  <1>7. MoneyInv
    <2>1. Total(other) = 0
      <3>1. IsFiniteSet(Accounts) /\ \A a \in Accounts : other[a] = 0
        BY NewflowAssumption
      <3> QED BY <3>1, SumZero DEF Total
    <2>2. Staked(pending) = 0
      BY <1>4, SumEmpty DEF Staked
    <2>3. Open = {} /\ Cardinality(Open) = 0
      BY <1>e, FS_EmptySet DEF Open
    <2> QED BY <2>1, <2>2, <2>3, NewflowAssumption DEF MoneyInv
  <1> QED BY <1>1, <1>2, <1>3, <1>5, <1>6, <1>7 DEF CoreInv, ChainSound

-----------------------------------------------------------------------------
(* Steps: blocks *)

\* A step that moves nothing and leaves the chain and the pool.
LEMMA Aside ==
    ASSUME CoreInv, CoreTypeOK', ProfilesFit',
           UNCHANGED <<balances, other, blocks, spent, poolVars, historyVars>>
    PROVE  CoreInv'
  <1> USE DEF CoreInv, ChainSound
  <1>1. ChainLine' /\ JobsOnce'
    BY ChainKept
  <1>2. BalancesExact'
    BY BalancesKept
  <1>3. PoolInv' /\ CountInv'
    <2>1. balances' \in [Accounts -> Int] /\ created' \in Int
      BY DEF CoreTypeOK
    <2> QED BY <2>1, BooksKept DEF poolVars, historyVars
  <1>4. MoneyInv'
    BY MoneyKept DEF poolVars, historyVars
  <1> QED BY <1>1, <1>2, <1>3, <1>4

LEMMA Tip_Type == CoreTypeOK => Tip \in Lists /\ Height \in Nat
  <1> SUFFICES ASSUME CoreTypeOK PROVE Tip \in Lists /\ Height \in Nat
    OBVIOUS
  <1>1. Height \in Nat /\ DOMAIN blocks = 1 .. Height /\ \A i \in 1 .. Height : blocks[i] \in Block
    BY DEF CoreTypeOK, Height
  <1>2. << >> \in Lists
    BY DEF Lists
  <1>3. Height # 0 => blocks[Height].hash \in Lists
    BY <1>1 DEF Block
  <1> QED BY <1>1, <1>2, <1>3 DEF Tip

LEMMA BuildStep ==
    ASSUME CoreInv, NEW n \in 1 .. MaxBlockJobs, NEW proofs \in [1 .. n -> Jobs], Build(proofs)
    PROVE  CoreInv'
  <1>1. CoreTypeOK
    BY DEF CoreInv, ChainSound
  <1> DEFINE jobs == Kept(proofs, {j \in Jobs : VerifyAll(j)})
             block == [index |-> Height + 1, prev |-> Tip, jobs |-> jobs, hash |-> HashOf(Tip, jobs)]
  <1>2. jobs \in Seq(Jobs)
    <2>1. proofs \in Seq(Jobs)
      <3>1. n \in Nat
        BY NewflowAssumption
      <3> QED BY <3>1, SeqDef
    <2> HIDE DEF jobs
    <2> QED BY <2>1, KeptFacts DEF jobs
  <1>3. built' = built \cup {block}
    BY DEF Build
  <1> HIDE DEF jobs
  <1>4. block \in Block
    <2>1. Tip \in Lists /\ Height + 1 \in Nat
      BY <1>1, Tip_Type
    <2>2. HashOf(Tip, jobs) \in Lists
      BY <1>2, <2>1 DEF HashOf, Lists
    <2> QED BY <1>2, <2>1, <2>2 DEF Block
  <1> HIDE DEF block
  <1>5. UNCHANGED <<balances, blocks, spent, nonces, claimed, profiles, poolVars, other, historyVars>>
    BY DEF Build
  <1>6. CoreTypeOK'
    BY <1>1, <1>3, <1>4, <1>5 DEF CoreTypeOK, poolVars, historyVars
  <1>7. ProfilesFit'
    BY <1>5, ProfilesKept DEF CoreInv, ChainSound
  <1> QED BY <1>5, <1>6, <1>7, Aside

LEMMA DiscardStep ==
    ASSUME CoreInv, NEW block \in built, Discard(block)
    PROVE  CoreInv'
  <1>5. UNCHANGED <<balances, blocks, spent, nonces, claimed, profiles, poolVars, other, historyVars>>
    BY DEF Discard
  <1>6. CoreTypeOK'
    BY <1>5 DEF CoreInv, ChainSound, CoreTypeOK, poolVars, historyVars, Discard
  <1>7. ProfilesFit'
    BY <1>5, ProfilesKept DEF CoreInv, ChainSound
  <1> QED BY <1>5, <1>6, <1>7, Aside

LEMMA RegisterStep ==
    ASSUME CoreInv, NEW a \in Workers, NEW profile \in Profiles, RegisterProfile(a, profile)
    PROVE  CoreInv'
  <1>1. UNCHANGED <<balances, blocks, spent, nonces, claimed, built, poolVars, other, historyVars>>
        /\ profiles' = [profiles EXCEPT ![a] = <<profile>>] /\ Acceptable(profile)
    BY DEF RegisterProfile
  <1>2. profiles \in [Accounts -> {<< >>} \cup {<<p>> : p \in Profiles}] /\ a \in Accounts
    BY NewflowAssumption DEF CoreInv, ChainSound, CoreTypeOK
  <1>3. profiles' \in [Accounts -> {<< >>} \cup {<<p>> : p \in Profiles}]
    BY <1>1, <1>2
  <1>4. CoreTypeOK'
    BY <1>1, <1>3 DEF CoreInv, ChainSound, CoreTypeOK, poolVars, historyVars
  <1>5. ProfilesFit'
    <2> SUFFICES ASSUME NEW b \in Accounts, NEW t \in DOMAIN TaskTier,
                        profiles'[b] # << >>, t \in profiles'[b][1].tasks
                 PROVE  CanHandle(profiles'[b][1], t)
      BY DEF ProfilesFit
    <2>1. CASE b = a
      <3>1. profiles'[b][1] = profile
        BY <1>1, <1>2, <2>1
      <3> QED BY <1>1, <3>1 DEF Acceptable, CanHandle
    <2>2. CASE b # a
      <3>1. profiles'[b] = profiles[b]
        BY <1>1, <1>2, <2>2
      <3> QED BY <3>1 DEF CoreInv, ChainSound, ProfilesFit
    <2> QED BY <2>1, <2>2
  <1> QED BY <1>1, <1>4, <1>5, Aside

\* A step of the chain leaves the pool, and what is outside of blocks.
LEMMA ChainStep ==
    ASSUME CoreInv, ChainLine', JobsOnce', BalancesExact', balances' \in [Accounts -> Int],
           blocks' \in Seq(Block), spent' \subseteq Jobs,
           UNCHANGED <<nonces, claimed, profiles, built, poolVars, other, historyVars>>
    PROVE  CoreInv'
  <1> USE DEF CoreInv, ChainSound
  <1>1. CoreTypeOK'
    BY DEF CoreTypeOK, poolVars, historyVars
  <1>2. ProfilesFit'
    BY ProfilesKept
  <1>3. PoolInv' /\ CountInv'
    <2>1. created' \in Int
      BY <1>1 DEF CoreTypeOK
    <2> QED BY <2>1, BooksKept DEF poolVars, historyVars
  <1>4. MoneyInv'
    BY MoneyKept DEF poolVars, historyVars
  <1> QED BY <1>1, <1>2, <1>3, <1>4

LEMMA ApplyStep ==
    ASSUME CoreInv, NEW block \in built, ApplyBlock(block)
    PROVE  CoreInv'
  <1> DEFINE n == Height
             new == Append(blocks, block)
  <1>1. CoreTypeOK /\ ChainLine /\ JobsOnce /\ BalancesExact
    BY DEF CoreInv, ChainSound
  <1>2. /\ n \in Nat /\ blocks \in Seq(Block) /\ DOMAIN blocks = 1 .. n /\ block \in Block
        /\ n = Len(blocks) /\ block.jobs \in Seq(Jobs)
        /\ \A i \in 1 .. n : blocks[i] \in Block
    <2>1. blocks \in Seq(Block) /\ block \in Block
      BY <1>1 DEF CoreTypeOK
    <2>2. block.jobs \in Seq(Jobs)
      BY <2>1 DEF Block
    <2> QED BY <2>1, <2>2 DEF Height
  <1>3. /\ new \in Seq(Block) /\ DOMAIN new = 1 .. n + 1
        /\ \A i \in 1 .. n : new[i] = blocks[i]
        /\ new[n + 1] = block
    BY <1>2, AppendProperties
  <1>4. /\ blocks' = new /\ spent' = spent \cup Range(block.jobs)
        /\ balances' = Plus(balances, Flow(block.jobs))
        /\ block.index = n + 1 /\ block.prev = Tip
        /\ Range(block.jobs) \cap spent = {}
        /\ UNCHANGED <<nonces, claimed, profiles, built, poolVars, other, historyVars>>
    BY DEF ApplyBlock, Valid, Range
  <1> HIDE DEF new, n
  <1>5. \A i \in 1 .. n + 1 : i \in 1 .. n \/ i = n + 1
    BY <1>2
  <1>6. ChainLine'
    <2> SUFFICES ASSUME NEW i \in 1 .. n + 1
                 PROVE  /\ new[i].index = i
                        /\ new[i].prev = (IF i = 1 THEN << >> ELSE new[i - 1].hash)
      BY <1>3, <1>4 DEF ChainLine
    <2>1. CASE i \in 1 .. n
      <3>1. i # 1 => i - 1 \in 1 .. n
        BY <1>2, <2>1
      <3> QED BY <1>1, <1>2, <1>3, <2>1, <3>1 DEF ChainLine
    <2>2. CASE i = n + 1
      <3>1. n = 0 => i = 1 /\ Tip = << >>
        BY <2>2 DEF Tip, n
      <3>2. n # 0 => i # 1 /\ i - 1 \in 1 .. n /\ i - 1 = n /\ Tip = blocks[n].hash
        BY <1>2, <2>2 DEF Tip, n
      <3> QED BY <1>3, <1>4, <2>2, <3>1, <3>2
    <2> QED BY <1>5, <2>1, <2>2
  <1>7. JobsOnce'
    <2>1. spent = UNION {Range(blocks[i].jobs) : i \in 1 .. n}
          /\ \A i, j \in 1 .. n : i # j => Range(blocks[i].jobs) \cap Range(blocks[j].jobs) = {}
      BY <1>1, <1>2 DEF JobsOnce
    <2>2. \A i \in 1 .. n : Range(new[i].jobs) = Range(blocks[i].jobs)
                            /\ Range(blocks[i].jobs) \subseteq spent
      BY <1>3, <2>1
    <2>3. Range(new[n + 1].jobs) = Range(block.jobs)
      BY <1>3
    <2>4. spent' = UNION {Range(new[i].jobs) : i \in 1 .. n + 1}
      <3>1. ASSUME NEW x \in spent' PROVE \E i \in 1 .. n + 1 : x \in Range(new[i].jobs)
        <4>1. CASE x \in Range(block.jobs)
          <5>1. n + 1 \in 1 .. n + 1
            BY <1>2
          <5> QED BY <2>3, <4>1, <5>1
        <4>2. CASE x \in spent
          <5>1. PICK i \in 1 .. n : x \in Range(blocks[i].jobs)
            BY <2>1, <4>2
          <5>2. i \in 1 .. n + 1
            BY <1>2
          <5> QED BY <2>2, <5>1, <5>2
        <4> QED BY <1>4, <3>1, <4>1, <4>2
      <3>2. ASSUME NEW i \in 1 .. n + 1 PROVE Range(new[i].jobs) \subseteq spent'
        BY <1>4, <1>5, <2>2, <2>3
      <3> QED BY <3>1, <3>2
    <2>5. ASSUME NEW i \in 1 .. n + 1, NEW j \in 1 .. n + 1, i # j
          PROVE  Range(new[i].jobs) \cap Range(new[j].jobs) = {}
      BY <1>4, <1>5, <2>1, <2>2, <2>3, <2>5
    <2>6. DOMAIN blocks' = 1 .. n + 1 /\ blocks' = new
      BY <1>3, <1>4
    <2>7. spent' = UNION {Range(blocks'[i].jobs) : i \in DOMAIN blocks'}
      BY <2>4, <2>6
    <2>8. \A i, j \in DOMAIN blocks' :
             i # j => Range(blocks'[i].jobs) \cap Range(blocks'[j].jobs) = {}
      BY <2>5, <2>6
    <2> QED BY <2>7, <2>8 DEF JobsOnce
  <1>8. balances \in [Accounts -> Int] /\ other \in [Accounts -> Int]
    BY <1>1 DEF CoreTypeOK
  <1>9. balances' \in [Accounts -> Int]
    BY <1>2, <1>4, <1>8, FlowFacts, TotalPlus
  <1>10. BalancesExact'
    <2> SUFFICES ASSUME NEW a \in Accounts
                 PROVE  balances'[a] = Genesis[a] + other[a] + FlowOf(new, a)
      BY <1>4 DEF BalancesExact
    <2>1. FlowOf(new, a) = FlowOf(blocks, a) + Flow(block.jobs)[a]
          /\ FlowOf(blocks, a) \in Int /\ Flow(block.jobs)[a] \in Int
      BY <1>2, FlowOfAppend DEF new
    <2>2. balances'[a] = balances[a] + Flow(block.jobs)[a]
      BY <1>4 DEF Plus
    <2>3. balances[a] = Genesis[a] + other[a] + FlowOf(blocks, a)
      BY <1>1 DEF BalancesExact
    <2>4. Genesis[a] \in Int /\ other[a] \in Int
      BY <1>8, NewflowAssumption
    <2> QED BY <2>1, <2>2, <2>3, <2>4
  <1>11. spent' \subseteq Jobs
    <2>1. Range(block.jobs) \subseteq Jobs
      BY <1>2 DEF Range
    <2> QED BY <1>1, <1>4, <2>1 DEF CoreTypeOK
  <1>12. blocks' \in Seq(Block)
    BY <1>3, <1>4
  <1> QED BY <1>4, <1>6, <1>7, <1>9, <1>10, <1>11, <1>12, ChainStep

\* A chain in two parts.
LEMMA CutFacts ==
    ASSUME NEW list \in Seq(Block), NEW h \in 0 .. Len(list)
    PROVE  LET low == SubSeq(list, 1, h)
               high == SubSeq(list, h + 1, Len(list))
           IN  /\ low \in Seq(Block) /\ DOMAIN low = 1 .. h /\ Len(low) = h
               /\ \A i \in 1 .. h : low[i] = list[i]
               /\ high \in Seq(Block) /\ DOMAIN high = 1 .. Len(list) - h
               /\ Len(high) = Len(list) - h
               /\ \A i \in 1 .. Len(list) - h : high[i] = list[h + i]
  <1> DEFINE n == Len(list)
             low == SubSeq(list, 1, h)
             high == SubSeq(list, h + 1, n)
  <1>1. n \in Nat /\ h \in Nat /\ h <= n /\ n - h \in Nat /\ \A i \in 1 .. n : list[i] \in Block
    OBVIOUS
  <1>2. /\ 1 \in Int /\ h \in Int /\ n \in Int /\ h + 1 \in Int
        /\ \A i \in 1 .. h : list[i] \in Block
        /\ \A i \in h + 1 .. n : list[i] \in Block
    <2> HIDE DEF n
    <2> QED BY <1>1
  <1>3. /\ low \in Seq(Block) /\ Len(low) = (IF 1 <= h THEN h - 1 + 1 ELSE 0)
        /\ \A i \in 1 .. h - 1 + 1 : low[i] = list[1 + i - 1]
    <2> HIDE DEF n
    <2> QED BY <1>2, SubSeqProperties
  <1>4. /\ high \in Seq(Block) /\ Len(high) = (IF h + 1 <= n THEN n - (h + 1) + 1 ELSE 0)
        /\ \A i \in 1 .. n - (h + 1) + 1 : high[i] = list[h + 1 + i - 1]
    <2> HIDE DEF n
    <2> QED BY <1>2, SubSeqProperties
  <1> HIDE DEF n, low, high
  <1>5. Len(low) = h /\ Len(high) = n - h
    BY <1>1, <1>3, <1>4
  <1>6. DOMAIN low = 1 .. h /\ DOMAIN high = 1 .. n - h
    BY <1>3, <1>4, <1>5
  <1>7. \A i \in 1 .. h : low[i] = list[i]
    <2>1. h - 1 + 1 = h /\ \A i \in 1 .. h : 1 + i - 1 = i
      BY <1>1
    <2> QED BY <1>3, <2>1
  <1>8. \A i \in 1 .. n - h : high[i] = list[h + i]
    <2>1. n - (h + 1) + 1 = n - h /\ \A i \in 1 .. n - h : h + 1 + i - 1 = h + i
      BY <1>1
    <2> QED BY <1>4, <2>1
  <1> QED BY <1>3, <1>4, <1>5, <1>6, <1>7, <1>8 DEF n, low, high

LEMMA RollbackStep ==
    ASSUME CoreInv, NEW h \in 0 .. Height, Rollback(h)
    PROVE  CoreInv'
  <1> DEFINE n == Height
             low == SubSeq(blocks, 1, h)
             high == SubSeq(blocks, h + 1, n)
             Of(list) == UNION {Range(list[i].jobs) : i \in DOMAIN list}
  <1>1. CoreTypeOK /\ ChainLine /\ JobsOnce /\ BalancesExact
    BY DEF CoreInv, ChainSound
  <1>2. n \in Nat /\ blocks \in Seq(Block) /\ DOMAIN blocks = 1 .. n /\ n = Len(blocks)
        /\ h \in 0 .. n /\ h \in Nat
    <2>1. blocks \in Seq(Block)
      BY <1>1 DEF CoreTypeOK
    <2> QED BY <2>1 DEF Height
  <1>3. /\ low \in Seq(Block) /\ DOMAIN low = 1 .. h /\ Len(low) = h
        /\ \A i \in 1 .. h : low[i] = blocks[i]
        /\ high \in Seq(Block) /\ DOMAIN high = 1 .. n - h /\ Len(high) = n - h
        /\ \A i \in 1 .. n - h : high[i] = blocks[h + i]
    BY <1>2, CutFacts DEF Height
  <1>4. /\ blocks' = low
        /\ spent' = spent \ Of(high)
        /\ balances' = [a \in Accounts |-> balances[a] - FlowOf(high, a)]
        /\ UNCHANGED <<nonces, claimed, profiles, built, poolVars, other, historyVars>>
    BY DEF Rollback
  <1> HIDE DEF low, high, n, Of
  <1>5. /\ \A i \in 1 .. h : i \in 1 .. n
        /\ \A i \in 1 .. n - h : h + i \in 1 .. n /\ h + i \notin 1 .. h
        /\ \A i \in 1 .. n : i \notin 1 .. h => i - h \in 1 .. n - h /\ h + (i - h) = i
        /\ \A i \in 1 .. h : i # 1 => i - 1 \in 1 .. h
    BY <1>2
  <1>6. ChainLine'
    <2> SUFFICES ASSUME NEW i \in 1 .. h
                 PROVE  /\ low[i].index = i
                        /\ low[i].prev = (IF i = 1 THEN << >> ELSE low[i - 1].hash)
      BY <1>3, <1>4 DEF ChainLine
    <2>1. /\ blocks[i].index = i
          /\ blocks[i].prev = (IF i = 1 THEN << >> ELSE blocks[i - 1].hash)
      BY <1>1, <1>2, <1>5 DEF ChainLine
    <2>2. low[i] = blocks[i] /\ (i # 1 => low[i - 1] = blocks[i - 1])
      BY <1>3, <1>5
    <2> QED BY <2>1, <2>2
  <1>7. /\ spent = UNION {Range(blocks[i].jobs) : i \in 1 .. n}
        /\ \A i, j \in 1 .. n : i # j => Range(blocks[i].jobs) \cap Range(blocks[j].jobs) = {}
    BY <1>1, <1>2 DEF JobsOnce
  <1>8. JobsOnce'
    <2>1. Of(high) = UNION {Range(blocks[h + i].jobs) : i \in 1 .. n - h}
      BY <1>3 DEF Of
    <2>2. Of(low) = UNION {Range(blocks[i].jobs) : i \in 1 .. h}
      BY <1>3 DEF Of
    <2>3. spent \ Of(high) = Of(low)
      <3>1. ASSUME NEW x \in spent, x \notin Of(high) PROVE x \in Of(low)
        <4>1. PICK i \in 1 .. n : x \in Range(blocks[i].jobs)
          BY <1>7
        <4>2. i \in 1 .. h
          BY <1>5, <2>1, <3>1, <4>1
        <4> QED BY <2>2, <4>1, <4>2
      <3>2. ASSUME NEW x \in Of(low) PROVE x \in spent /\ x \notin Of(high)
        <4>1. PICK i \in 1 .. h : x \in Range(blocks[i].jobs)
          BY <2>2
        <4>2. x \in spent
          BY <1>5, <1>7, <4>1
        <4>3. \A j \in 1 .. n - h : x \notin Range(blocks[h + j].jobs)
          BY <1>5, <1>7, <4>1
        <4> QED BY <2>1, <4>2, <4>3
      <3> QED BY <3>1, <3>2
    <2>4. spent' = UNION {Range(blocks'[i].jobs) : i \in DOMAIN blocks'}
      BY <1>4, <2>3 DEF Of
    <2>5. DOMAIN blocks' = 1 .. h /\ \A i \in 1 .. h : blocks'[i] = blocks[i]
      BY <1>3, <1>4
    <2>6. \A i, j \in DOMAIN blocks' :
             i # j => Range(blocks'[i].jobs) \cap Range(blocks'[j].jobs) = {}
      BY <1>5, <1>7, <2>5
    <2> QED BY <2>4, <2>6 DEF JobsOnce
  <1>9. balances \in [Accounts -> Int] /\ other \in [Accounts -> Int]
    BY <1>1 DEF CoreTypeOK
  <1>10. \A a \in Accounts : /\ FlowOf(high, a) \in Int /\ FlowOf(low, a) \in Int
                             /\ FlowOf(blocks, a) = FlowOf(low, a) + FlowOf(high, a)
    <2> SUFFICES ASSUME NEW a \in Accounts
                 PROVE  /\ FlowOf(high, a) \in Int /\ FlowOf(low, a) \in Int
                        /\ FlowOf(blocks, a) = FlowOf(low, a) + FlowOf(high, a)
      OBVIOUS
    <2>1. FlowOf(high, a) \in Int /\ FlowOf(low, a) \in Int
      BY <1>3, FlowOfInt
    <2>2. h \in 0 .. Len(blocks) /\ Len(high) = Len(blocks) - h
          /\ \A i \in 1 .. Len(blocks) - h : high[i] = blocks[h + i]
      BY <1>2, <1>3
    <2>3. FlowOf(blocks, a) = FlowOf(low, a) + FlowOf(high, a)
      BY <1>2, <1>3, <2>2, FlowOfSplit
    <2> QED BY <2>1, <2>3
  <1>11. balances' \in [Accounts -> Int]
    BY <1>4, <1>9, <1>10
  <1>12. BalancesExact'
    <2> SUFFICES ASSUME NEW a \in Accounts
                 PROVE  balances'[a] = Genesis[a] + other[a] + FlowOf(low, a)
      BY <1>4 DEF BalancesExact
    <2>1. balances'[a] = balances[a] - FlowOf(high, a)
      BY <1>4
    <2>2. balances[a] = Genesis[a] + other[a] + FlowOf(blocks, a)
      BY <1>1 DEF BalancesExact
    <2>3. Genesis[a] \in Int /\ other[a] \in Int
      BY <1>9, NewflowAssumption
    <2> QED BY <1>10, <2>1, <2>2, <2>3
  <1>13. spent' \subseteq Jobs /\ blocks' \in Seq(Block)
    BY <1>1, <1>3, <1>4 DEF CoreTypeOK
  <1> QED BY <1>4, <1>6, <1>8, <1>11, <1>12, <1>13, ChainStep

-----------------------------------------------------------------------------
(* Steps: transfers and the faucet *)

\* Moving ECU between accounts, and what a fee below zero makes.
LEMMA MoveStep ==
    ASSUME CoreInv, NEW delta \in [Accounts -> Int], created' = created + Total(delta),
           balances' = Plus(balances, delta), other' = Plus(other, delta),
           nonces' \in [Accounts -> Nat], claimed' \subseteq Accounts,
           UNCHANGED <<blocks, spent, profiles, built, poolVars, burned, verified, forgetful>>
    PROVE  CoreInv'
  <1> USE DEF CoreInv, ChainSound
  <1>1. /\ BalancesExact'
        /\ balances' \in [Accounts -> Int] /\ other' \in [Accounts -> Int]
        /\ Total(other') = Total(other) + Total(delta) /\ Total(other) \in Int /\ Total(delta) \in Int
    <2>1. UNCHANGED blocks
      OBVIOUS
    <2> QED BY <2>1, FreeMove
  <1>n. /\ created \in Int /\ burned \in Int /\ Staked(pending) \in Int
        /\ ChallengeStake * Cardinality(Open) \in Int
    BY Numbers
  <1>2. CoreTypeOK'
    <2>1. created' \in Int
      BY <1>1, <1>n
    <2> QED BY <1>1, <2>1 DEF CoreTypeOK, poolVars
  <1>3. ChainLine' /\ JobsOnce' /\ ProfilesFit'
    BY ChainKept, ProfilesKept
  <1>4. PoolInv' /\ CountInv'
    <2>1. created' \in Int
      BY <1>2 DEF CoreTypeOK
    <2> QED BY <1>1, <2>1, BooksKept DEF poolVars
  <1>5. MoneyInv'
    <2>1. PICK n \in Int : n = ChallengeStake * Cardinality(Open)
      BY <1>n
    <2>2. Staked(pending') = Staked(pending) /\ ChallengeStake * Cardinality(Open') = n
      BY <2>1 DEF poolVars, Open
    <2>3. Total(other) + Staked(pending) + n = created - burned
      BY <2>1 DEF MoneyInv
    <2>4. Total(other') + Staked(pending') + n = created' - burned'
      BY <1>1, <1>n, <2>2, <2>3
    <2> QED BY <2>2, <2>4 DEF MoneyInv
  <1> QED BY <1>1, <1>2, <1>3, <1>4, <1>5

LEMMA TransferStep ==
    ASSUME CoreInv, NEW tx \in Transfers, NEW nonce \in 0 .. MaxNonce, ApplyTransfer(tx, nonce)
    PROVE  CoreInv'
  <1> DEFINE pay == Move(tx.sender, tx.receiver, tx.amount)
             debit == Only(tx.sender, -tx.fee)
             credit == Only(Validator, FeePaid(tx.fee))
             fee == Plus(debit, credit)
             delta == Plus(pay, fee)
  <1>1. tx.sender \in Accounts /\ tx.receiver \in Accounts /\ tx.amount \in Int /\ tx.fee \in Int
        /\ Validator \in Accounts
    BY NewflowAssumption
  <1>2. -tx.fee \in Int /\ FeePaid(tx.fee) \in Int
    BY <1>1 DEF FeePaid
  <1>3. /\ pay \in [Accounts -> Int] /\ Total(pay) = 0
        /\ debit \in [Accounts -> Int] /\ Total(debit) = -tx.fee
        /\ credit \in [Accounts -> Int] /\ Total(credit) = FeePaid(tx.fee)
    <2>1. pay \in [Accounts -> Int] /\ Total(pay) = 0
      BY <1>1, TotalMove
    <2>2. debit \in [Accounts -> Int] /\ Total(debit) = -tx.fee
      BY <1>1, <1>2, TotalOnly
    <2>3. credit \in [Accounts -> Int] /\ Total(credit) = FeePaid(tx.fee)
      BY <1>1, <1>2, TotalOnly
    <2> QED BY <2>1, <2>2, <2>3
  <1>4. /\ balances' = Plus(balances, delta) /\ other' = Plus(other, delta)
        /\ created' = created + FeePaid(tx.fee) - tx.fee
        /\ nonces' = [nonces EXCEPT ![tx.sender] = nonce + 1] /\ nonce = nonces[tx.sender]
        /\ UNCHANGED <<blocks, spent, claimed, profiles, built, poolVars, burned, verified, forgetful>>
    BY DEF ApplyTransfer
  <1> HIDE DEF pay, debit, credit
  <1>5. fee \in [Accounts -> Int] /\ Total(fee) = -tx.fee + FeePaid(tx.fee)
    BY <1>3, TotalPlus
  <1> HIDE DEF fee
  <1>6. delta \in [Accounts -> Int] /\ Total(delta) = 0 + (-tx.fee + FeePaid(tx.fee))
    BY <1>3, <1>5, TotalPlus
  <1> HIDE DEF delta
  <1>7. nonces \in [Accounts -> Nat] /\ claimed \subseteq Accounts /\ created \in Int
    BY DEF CoreInv, ChainSound, CoreTypeOK
  <1>8. nonces' \in [Accounts -> Nat] /\ claimed' \subseteq Accounts
    <2>1. nonce + 1 \in Nat
      BY <1>1, <1>4, <1>7
    <2> QED BY <1>4, <1>7, <2>1
  <1>9. created' = created + Total(delta)
    BY <1>1, <1>2, <1>4, <1>6, <1>7
  <1> QED BY <1>4, <1>6, <1>8, <1>9, MoveStep

LEMMA FaucetStep ==
    ASSUME CoreInv, NEW a \in Accounts, ApplyFaucetClaim(a)
    PROVE  CoreInv'
  <1> DEFINE delta == Move(Faucet, a, FaucetAmount)
  <1>1. Faucet \in Accounts /\ FaucetAmount \in Int
    BY NewflowAssumption
  <1>2. delta \in [Accounts -> Int] /\ Total(delta) = 0
    BY <1>1, TotalMove
  <1>3. /\ balances' = Plus(balances, delta) /\ other' = Plus(other, delta)
        /\ claimed' = claimed \cup {a}
        /\ UNCHANGED <<blocks, spent, nonces, profiles, built, poolVars, historyVars>>
    BY DEF ApplyFaucetClaim
  <1> HIDE DEF delta
  <1>4. nonces' \in [Accounts -> Nat] /\ claimed' \subseteq Accounts /\ created \in Int
    BY <1>3 DEF CoreInv, ChainSound, CoreTypeOK
  <1>5. /\ created' = created + Total(delta)
        /\ UNCHANGED <<blocks, spent, profiles, built, poolVars, burned, verified, forgetful>>
    BY <1>2, <1>3, <1>4 DEF historyVars
  <1> QED BY <1>2, <1>3, <1>4, <1>5, MoveStep

-----------------------------------------------------------------------------
(* Steps: the pool *)

\* The pool's invariant, in the variables.
PoolParts ==
    /\ Distinct(pending) /\ Approved(pending, verified) /\ \A pid \in verified : Right(pid)
    /\ \A pid \in Range(settled) : Right(pid) /\ currentBlock >= pid[2] + Window
    /\ \A e \in entries :
          /\ e.type = "proof_settled" => e.ref \in Range(settled)
          /\ e.type = "proof_slashed" => e.ref \in Range(slashed) /\ ~Right(e.ref)
    /\ forgetful \/ \A pid \in Range(settled) :
                        \E e \in entries : e.type = "proof_settled" /\ e.ref = pid

LEMMA BooksTyped == CoreTypeOK => Books \in BookType
  BY DEF CoreTypeOK, Books, BookType, Ledgers

LEMMA PoolPartsGive == CoreTypeOK /\ PoolParts => PoolInv
  <1> SUFFICES ASSUME CoreTypeOK, PoolParts PROVE PoolInv
    OBVIOUS
  <1>1. Books \in BookType
    BY BooksTyped
  <1>2. /\ Books.pending = pending /\ Books.verified = verified /\ Books.settled = settled
        /\ Books.slashed = slashed /\ Books.entries = entries
    BY DEF Books
  <1> QED BY <1>1, <1>2 DEF PoolInv, PoolSound, PoolParts, SettledRight, LedgerTrue, LedgerFull

LEMMA PoolPartsHold == PoolInv => PoolParts
  <1>2. /\ Books.pending = pending /\ Books.verified = verified /\ Books.settled = settled
        /\ Books.slashed = slashed /\ Books.entries = entries
    BY DEF Books
  <1> QED BY <1>2 DEF PoolInv, PoolSound, PoolParts, SettledRight, LedgerTrue, LedgerFull

LEMMA CountNow ==
    CountInv <=> Len(settled) + Len(slashed) + Cardinality(PidsOf(pending)) <= submits
  BY DEF CountInv, Count, Books

\* A step of the pool.
LEMMA PoolStep ==
    ASSUME CoreInv, CoreTypeOK', PoolParts', CountInv', MoneyInv',
           NEW delta \in [Accounts -> Int],
           balances' = Plus(balances, delta), other' = Plus(other, delta), UNCHANGED chainVars
    PROVE  CoreInv'
  <1> USE DEF CoreInv, ChainSound
  <1>1. UNCHANGED blocks
    BY DEF chainVars
  <1>2. BalancesExact'
    BY <1>1, FreeMove
  <1>3. ChainLine' /\ JobsOnce' /\ ProfilesFit'
    BY ChainKept, ProfilesKept DEF chainVars
  <1>4. CoreTypeOK' /\ PoolParts' => PoolInv'
    BY PoolPartsGive, PTL
  <1> QED BY <1>2, <1>3, <1>4

\* What every step of the pool starts from.
LEMMA PoolNow ==
    ASSUME CoreInv
    PROVE  /\ CoreTypeOK /\ PoolParts /\ MoneyInv
           /\ pending \in Seq(Item) /\ Distinct(pending)
           /\ settled \in Seq(Pids) /\ slashed \in Seq(Pids)
           /\ Len(settled) \in Nat /\ Len(slashed) \in Nat /\ submits \in Nat
           /\ Cardinality(PidsOf(pending)) \in Nat
           /\ Len(settled) + Len(slashed) + Cardinality(PidsOf(pending)) <= submits
           /\ currentBlock \in 0 .. MaxNow
           /\ balances \in [Accounts -> Int] /\ other \in [Accounts -> Int]
  <1>1. CoreTypeOK /\ PoolParts /\ MoneyInv /\ CountInv
    BY PoolPartsHold DEF CoreInv, ChainSound
  <1>2. /\ pending \in Seq(Item) /\ settled \in Seq(Pids) /\ slashed \in Seq(Pids)
        /\ submits \in Nat /\ currentBlock \in 0 .. MaxNow
        /\ balances \in [Accounts -> Int] /\ other \in [Accounts -> Int]
    BY <1>1 DEF CoreTypeOK
  <1>3. Len(settled) \in Nat /\ Len(slashed) \in Nat
    BY <1>2
  <1>4. Cardinality(PidsOf(pending)) \in Nat
    BY <1>2, PoolFacts, FS_CardinalityType
  <1> QED BY <1>1, <1>2, <1>3, <1>4, CountNow DEF PoolParts

LEMMA NextBlockStep == ASSUME CoreInv, NextBlock PROVE CoreInv'
  <1>1. /\ currentBlock < MaxNow /\ currentBlock' = currentBlock + 1
        /\ UNCHANGED <<balances, chainVars, pending, challenges, settled, slashed, entries,
                       submits, raised, other, historyVars>>
    BY DEF NextBlock
  <1>2. CoreTypeOK /\ PoolParts /\ currentBlock \in 0 .. MaxNow /\ MaxNow \in Nat
    BY PoolNow, NewflowAssumption
  <1>3. currentBlock' \in 0 .. MaxNow
    BY <1>1, <1>2
  <1>4. CoreTypeOK'
    BY <1>1, <1>2, <1>3 DEF CoreTypeOK, chainVars, historyVars
  <1>5. ChainLine' /\ JobsOnce' /\ ProfilesFit' /\ BalancesExact'
    BY <1>1, ChainKept, ProfilesKept, BalancesKept DEF CoreInv, ChainSound, chainVars
  <1>6. PoolInv'
    <2>1. \A pid \in Range(settled) : currentBlock + 1 >= pid[2] + Window
      <3> SUFFICES ASSUME NEW pid \in Range(settled) PROVE currentBlock + 1 >= pid[2] + Window
        OBVIOUS
      <3>1. pid \in Pids
        BY PoolNow DEF Range
      <3>2. pid[2] \in Int /\ Window \in Int /\ currentBlock \in Int
        BY <1>2, <3>1, NewflowAssumption DEF Pids
      <3>3. currentBlock >= pid[2] + Window
        BY <1>2 DEF PoolParts
      <3> QED BY <3>2, <3>3
    <2>2. PoolParts'
      BY <1>1, <1>2, <2>1 DEF PoolParts, historyVars
    <2>3. CoreTypeOK' /\ PoolParts' => PoolInv'
      BY PoolPartsGive, PTL
    <2> QED BY <1>4, <2>2, <2>3
  <1>7. CountInv' /\ MoneyInv'
    BY <1>1 DEF CoreInv, CountInv, Count, Books, MoneyInv, Open, historyVars
  <1> QED BY <1>4, <1>5, <1>6, <1>7 DEF CoreInv, ChainSound

LEMMA LedgerRollbackStep ==
    ASSUME CoreInv, NEW block \in 0 .. MaxNow, LedgerRollback(block)
    PROVE  CoreInv'
  <1>1. /\ entries' \subseteq entries /\ forgetful' = TRUE
        /\ UNCHANGED <<balances, chainVars, pending, challenges, settled, slashed, currentBlock,
                       submits, raised, other, created, burned, verified>>
    BY DEF LedgerRollback
  <1>2. CoreTypeOK /\ PoolParts
    BY PoolNow
  <1>3. CoreTypeOK'
    <2>1. forgetful' \in BOOLEAN
      BY <1>1, Zenon
    <2> QED BY <1>1, <1>2, <2>1 DEF CoreTypeOK, chainVars
  <1>4. ChainLine' /\ JobsOnce' /\ ProfilesFit' /\ BalancesExact'
    BY <1>1, ChainKept, ProfilesKept, BalancesKept DEF CoreInv, ChainSound, chainVars
  <1>5. PoolInv'
    <2>1. forgetful'
      BY <1>1
    <2>2. PoolParts'
      BY <1>1, <1>2, <2>1 DEF PoolParts
    <2>3. CoreTypeOK' /\ PoolParts' => PoolInv'
      BY PoolPartsGive, PTL
    <2> QED BY <1>3, <2>2, <2>3
  <1>6. CountInv' /\ MoneyInv'
    BY <1>1 DEF CoreInv, CountInv, Count, Books, MoneyInv, Open
  <1> QED BY <1>3, <1>4, <1>5, <1>6 DEF CoreInv, ChainSound

LEMMA PoolGrows ==
    ASSUME NEW pool \in Seq(Item), Distinct(pool), NEW item \in Item, item.pid \notin PidsOf(pool),
           item.status = "pending"
    PROVE  /\ Staked(Append(pool, item)) = Staked(pool) + Stake(item.pid)
           /\ Cardinality(PidsOf(Append(pool, item))) = Cardinality(PidsOf(pool)) + 1
           /\ Staked(pool) \in Int /\ Stake(item.pid) \in Int
           /\ Cardinality(PidsOf(pool)) \in Nat
  <1> DEFINE new == Append(pool, item)
             pid == item.pid
  <1>1. new \in Seq(Item) /\ PidsOf(new) = PidsOf(pool) \cup {pid}
    BY AppendFacts
  <1>2. pid \in PidsOf(new) /\ PidsOf(pool) = PidsOf(new) \ {pid}
    BY <1>1
  <1> HIDE DEF new, pid
  <1>3. /\ Staked(new) = Stake(pid) + Staked(pool)
        /\ Staked(pool) \in Int /\ Stake(pid) \in Int
        /\ Cardinality(PidsOf(new)) = 1 + Cardinality(PidsOf(pool))
        /\ Cardinality(PidsOf(pool)) \in Nat
    BY <1>1, <1>2, StakedLess
  <1>4. Staked(new) = Staked(pool) + Stake(pid)
    BY <1>3
  <1>5. Cardinality(PidsOf(new)) = Cardinality(PidsOf(pool)) + 1
    BY <1>3
  <1> QED BY <1>3, <1>4, <1>5 DEF new, pid

LEMMA SubmitProofStep ==
    ASSUME CoreInv, NEW p \in Proofs, SubmitProof(p)
    PROVE  CoreInv'
  <1> DEFINE pid == <<p, currentBlock>>
             proof == ProofOf[p]
             delta == Only(proof.worker, -proof.stake)
             item == [pid |-> pid, status |-> "pending"]
             e == Entry("proof_pending", pid, currentBlock)
  <1>1. /\ CoreTypeOK /\ PoolParts /\ MoneyInv /\ currentBlock \in 0 .. MaxNow
        /\ pending \in Seq(Item) /\ Distinct(pending) /\ submits \in Nat
        /\ Len(settled) \in Nat /\ Len(slashed) \in Nat /\ Cardinality(PidsOf(pending)) \in Nat
        /\ Len(settled) + Len(slashed) + Cardinality(PidsOf(pending)) <= submits
    BY PoolNow
  <1>2. pid \in Pids /\ pid[1] = p /\ item \in Item /\ item.pid = pid /\ item.status = "pending"
    BY <1>1 DEF Pids, Item
  <1>3. proof.worker \in Accounts /\ proof.stake \in Int /\ Stake(pid) = proof.stake
    BY NewflowAssumption DEF Stake
  <1>4. delta \in [Accounts -> Int] /\ Total(delta) = -proof.stake
    BY <1>3, TotalOnly
  <1>5. e.type = "proof_pending" /\ e \in [type : EntryTypes, ref : Pids, block : 0 .. MaxNow]
    BY <1>1, <1>2 DEF Entry, EntryTypes
  <1>6. /\ submits' = submits + 1
        /\ balances' = Plus(balances, delta) /\ other' = Plus(other, delta)
        /\ pending' = (IF IsPending(pid) THEN SetStatus(pending, pid, "pending")
                       ELSE Append(pending, item))
        /\ burned' = (IF IsPending(pid) THEN burned + proof.stake ELSE burned)
        /\ verified' = verified \ {pid}
        /\ entries' = entries \cup {e}
        /\ UNCHANGED <<chainVars, challenges, settled, slashed, currentBlock, raised, created,
                       forgetful>>
    BY DEF SubmitProof
  <1> HIDE DEF pid, proof, delta, item, e
  <1>7. /\ pending' \in Seq(Item) /\ Distinct(pending')
        /\ Approved(pending', verified \ {pid})
        /\ Staked(pending') = Staked(pending) + (IF IsPending(pid) THEN 0 ELSE proof.stake)
        /\ Cardinality(PidsOf(pending')) =
              Cardinality(PidsOf(pending)) + (IF IsPending(pid) THEN 0 ELSE 1)
    <2>a. Approved(pending, verified)
      BY <1>1 DEF PoolParts
    <2>b. Staked(pending) \in Int
      BY <1>1, StakedSame
    <2>1. CASE IsPending(pid)
      <3> DEFINE new == SetStatus(pending, pid, "pending")
      <3>1. pending' = new
        BY <1>6, <2>1
      <3>2. new \in Seq(Item) /\ Distinct(new) /\ PidsOf(new) = PidsOf(pending)
            /\ Approved(new, verified \ {pid})
        <4>1. "pending" \in {"pending", "approved", "challenged"} /\ "pending" # "approved"
          OBVIOUS
        <4> QED BY <1>1, <2>a, <4>1, SetStatusFacts
      <3> HIDE DEF new
      <3>3. Staked(new) = Staked(pending)
        BY <1>1, <3>2, StakedSame
      <3> QED BY <1>1, <2>1, <2>b, <3>1, <3>2, <3>3
    <2>2. CASE ~IsPending(pid)
      <3> DEFINE new == Append(pending, item)
      <3>1. pending' = new
        BY <1>6, <2>2
      <3>2. item.pid \notin PidsOf(pending)
        BY <1>2, <2>2 DEF IsPending
      <3>3. new \in Seq(Item) /\ Distinct(new) /\ Approved(new, verified \ {pid})
        BY <1>1, <1>2, <2>a, <3>2, AppendFacts
      <3>4. /\ Staked(new) = Staked(pending) + Stake(item.pid)
            /\ Cardinality(PidsOf(new)) = Cardinality(PidsOf(pending)) + 1
        BY <1>1, <1>2, <3>2, PoolGrows
      <3> HIDE DEF new
      <3> QED BY <1>2, <1>3, <2>2, <3>1, <3>3, <3>4
    <2> QED BY <2>1, <2>2
  <1>8. /\ balances' \in [Accounts -> Int] /\ other' \in [Accounts -> Int]
        /\ Total(other') = Total(other) - proof.stake
    <2>1. balances \in [Accounts -> Int] /\ other \in [Accounts -> Int]
      BY PoolNow
    <2>2. /\ balances' \in [Accounts -> Int] /\ other' \in [Accounts -> Int]
          /\ Total(other') = Total(other) + Total(delta) /\ Total(other) \in Int
      BY <1>4, <1>6, <2>1, TotalPlus
    <2> QED BY <1>3, <1>4, <2>2
  <1>9. Total(other) \in Int /\ Staked(pending) \in Int /\ created \in Int /\ burned \in Int
        /\ ChallengeStake * Cardinality(Open) \in Int
    BY <1>1, Numbers
  <1>10. CoreTypeOK'
    <2>1. burned' \in Int /\ submits' \in Nat
      BY <1>1, <1>3, <1>6, <1>9
    <2>2. entries' \subseteq [type : EntryTypes, ref : Pids, block : 0 .. MaxNow]
      BY <1>1, <1>5, <1>6 DEF CoreTypeOK
    <2>3. verified' \subseteq Pids
      BY <1>1, <1>6 DEF CoreTypeOK
    <2> QED BY <1>1, <1>6, <1>7, <1>8, <2>1, <2>2, <2>3 DEF CoreTypeOK, chainVars
  <1>11. PoolParts'
    <2>1. \A x \in entries' : x \in entries \/ x.type = "proof_pending"
      BY <1>5, <1>6
    <2>2. entries \subseteq entries'
      BY <1>6
    <2>3. \A x \in verified' : Right(x)
      BY <1>1, <1>6 DEF PoolParts
    <2>4. Approved(pending', verified')
      BY <1>6, <1>7
    <2>5. UNCHANGED <<settled, slashed, currentBlock, forgetful>>
      BY <1>6
    <2>6. \A x \in entries' :
             /\ x.type = "proof_settled" => x.ref \in Range(settled)
             /\ x.type = "proof_slashed" => x.ref \in Range(slashed) /\ ~Right(x.ref)
      BY <1>1, <2>1 DEF PoolParts
    <2>7. forgetful \/ \A x \in Range(settled) :
                           \E y \in entries' : y.type = "proof_settled" /\ y.ref = x
      BY <1>1, <2>2 DEF PoolParts
    <2>8. \A x \in Range(settled) : Right(x) /\ currentBlock >= x[2] + Window
      BY <1>1 DEF PoolParts
    <2> QED BY <1>7, <2>3, <2>4, <2>5, <2>6, <2>7, <2>8 DEF PoolParts
  <1>12. CountInv'
    <2>1. Len(settled') = Len(settled) /\ Len(slashed') = Len(slashed)
      BY <1>6
    <2>2. Len(settled') + Len(slashed') + Cardinality(PidsOf(pending')) <= submits'
      BY <1>1, <1>6, <1>7, <2>1
    <2> QED BY <2>2 DEF CountInv, Count, Books
  <1>13. MoneyInv'
    <2>1. Open' = Open
      BY <1>6 DEF Open
    <2>2. Total(other) + Staked(pending) + ChallengeStake * Cardinality(Open) = created - burned
      BY <1>1 DEF MoneyInv
    <2>3. Total(other') + Staked(pending') + ChallengeStake * Cardinality(Open) = created - burned'
      <3>1. PICK k \in Int : k = ChallengeStake * Cardinality(Open)
        BY <1>9
      <3>2. CASE IsPending(pid)
        <4>1. burned' = burned + proof.stake
          BY <1>6, <3>2
        <4>2. Staked(pending') = Staked(pending)
          BY <1>7, <1>9, <3>2
        <4>3. Total(other) + Staked(pending) + k = created - burned
          BY <2>2, <3>1
        <4>4. Total(other') + Staked(pending') + k = created - burned'
          BY <1>3, <1>8, <1>9, <4>1, <4>2, <4>3
        <4> QED BY <3>1, <4>4
      <3>3. CASE ~IsPending(pid)
        BY <1>3, <1>6, <1>7, <1>8, <1>9, <2>2, <3>1, <3>3
      <3> QED BY <3>2, <3>3
    <2> QED BY <1>6, <2>1, <2>3 DEF MoneyInv
  <1> QED BY <1>4, <1>6, <1>10, <1>11, <1>12, <1>13, PoolStep

LEMMA TimesOne ==
    ASSUME NEW k \in Nat, NEW c \in Nat
    PROVE  k * (c + 1) = k * c + k /\ k * c \in Nat /\ k * (c + 1) \in Nat
  OBVIOUS

\* A status set, but for an approval, leaves the pool sound; and what it holds.
LEMMA StatusPool ==
    ASSUME CoreInv, NEW pid, NEW status \in {"pending", "challenged"},
           pending' = SetStatus(pending, pid, status), UNCHANGED verified
    PROVE  /\ pending' \in Seq(Item) /\ Distinct(pending') /\ Approved(pending', verified')
           /\ PidsOf(pending') = PidsOf(pending)
           /\ Staked(pending') = Staked(pending)
  <1> DEFINE new == SetStatus(pending, pid, status)
  <1>1. pending \in Seq(Item) /\ Distinct(pending) /\ Approved(pending, verified)
    BY PoolNow DEF PoolParts
  <1>2. status \in {"pending", "approved", "challenged"} /\ status # "approved"
    OBVIOUS
  <1>3. new \in Seq(Item) /\ Distinct(new) /\ PidsOf(new) = PidsOf(pending)
        /\ Approved(new, verified \ {pid})
    BY <1>1, <1>2, SetStatusFacts
  <1> HIDE DEF new
  <1>4. Approved(new, verified)
    BY <1>3 DEF Approved
  <1>5. Staked(new) = Staked(pending)
    BY <1>1, <1>3, StakedSame
  <1>6. pending' = new /\ verified' = verified
    BY DEF new
  <1> QED BY <1>3, <1>4, <1>5, <1>6

LEMMA SubmitChallengeStep ==
    ASSUME CoreInv, NEW by \in Challengers, NEW pid \in Pids, NEW claim \in Outputs,
           SubmitChallenge(by, pid, claim)
    PROVE  CoreInv'
  <1> DEFINE id == <<pid, by, currentBlock>>
             delta == Only(by, -ChallengeStake)
             again == id \in DOMAIN challenges /\ ~challenges[id].resolved
  <1>1. /\ CoreTypeOK /\ PoolParts /\ MoneyInv /\ currentBlock \in 0 .. MaxNow
        /\ balances \in [Accounts -> Int] /\ other \in [Accounts -> Int]
        /\ Len(settled) + Len(slashed) + Cardinality(PidsOf(pending)) <= submits
    BY PoolNow
  <1>2. by \in Accounts /\ ChallengeStake \in Nat /\ -ChallengeStake \in Int
    BY NewflowAssumption
  <1>3. id \in Pids \X Accounts \X (0 .. MaxNow)
    BY <1>1, <1>2
  <1>4. delta \in [Accounts -> Int] /\ Total(delta) = -ChallengeStake
    BY <1>2, TotalOnly
  <1>5. /\ balances' = Plus(balances, delta) /\ other' = Plus(other, delta)
        /\ raised' = raised + 1
        /\ pending' = SetStatus(pending, pid, "challenged")
        /\ burned' = (IF again THEN burned + ChallengeStake ELSE burned)
        /\ challenges' = [c \in DOMAIN challenges \cup {id} |->
              IF c = id THEN [claim |-> claim, resolved |-> FALSE] ELSE challenges[c]]
        /\ UNCHANGED <<chainVars, settled, slashed, entries, currentBlock, submits, created,
                       verified, forgetful>>
    BY DEF SubmitChallenge
  <1>6. /\ DOMAIN challenges' = DOMAIN challenges \cup {id}
        /\ challenges'[id] = [claim |-> claim, resolved |-> FALSE]
        /\ \A c \in DOMAIN challenges : c # id => challenges'[c] = challenges[c]
    BY <1>5
  <1> HIDE DEF id, delta, again
  <1>7. /\ pending' \in Seq(Item) /\ Distinct(pending') /\ Approved(pending', verified')
        /\ PidsOf(pending') = PidsOf(pending) /\ Staked(pending') = Staked(pending)
    <2>1. "challenged" \in {"pending", "challenged"} /\ UNCHANGED verified
      BY <1>5
    <2> QED BY <1>5, <2>1, StatusPool
  <1>8. /\ balances' \in [Accounts -> Int] /\ other' \in [Accounts -> Int]
        /\ Total(other') = Total(other) - ChallengeStake
    <2>1. /\ balances' \in [Accounts -> Int] /\ other' \in [Accounts -> Int]
          /\ Total(other') = Total(other) + Total(delta) /\ Total(other) \in Int
      BY <1>1, <1>4, <1>5, TotalPlus
    <2> QED BY <1>2, <1>4, <2>1
  <1>9. Total(other) \in Int /\ Staked(pending) \in Int /\ created \in Int /\ burned \in Int
        /\ Cardinality(Open) \in Nat /\ IsFiniteSet(Open)
    BY <1>1, Numbers, OpenFinite
  <1>10. CoreTypeOK'
    <2>1. burned' \in Int /\ raised' \in Nat
      <3>1. raised \in Nat
        BY <1>1 DEF CoreTypeOK
      <3> QED BY <1>2, <1>5, <1>9, <3>1
    <2>2. IsFiniteSet(DOMAIN challenges')
      <3>1. IsFiniteSet(DOMAIN challenges)
        BY <1>1 DEF CoreTypeOK
      <3> QED BY <1>6, <3>1, FS_AddElement
    <2>3. \A c \in DOMAIN challenges' :
             /\ c \in Pids \X Accounts \X (0 .. MaxNow)
             /\ challenges'[c] \in [claim : Outputs, resolved : BOOLEAN]
      <3>1. [claim |-> claim, resolved |-> FALSE] \in [claim : Outputs, resolved : BOOLEAN]
        OBVIOUS
      <3> QED BY <1>1, <1>3, <1>6, <3>1 DEF CoreTypeOK
    <2> QED BY <1>1, <1>5, <1>7, <1>8, <2>1, <2>2, <2>3 DEF CoreTypeOK, chainVars
  <1>11. PoolParts'
    BY <1>1, <1>5, <1>7 DEF PoolParts
  <1>12. CountInv'
    <2>1. Len(settled') + Len(slashed') + Cardinality(PidsOf(pending')) <= submits'
      BY <1>1, <1>5, <1>7
    <2> QED BY <2>1 DEF CountInv, Count, Books
  <1>13. Open' = Open \cup {id} /\ (again <=> id \in Open)
    BY <1>6 DEF Open, again
  <1>14. MoneyInv'
    <2>1. PICK c \in Nat : c = Cardinality(Open)
      BY <1>9
    <2>2. Total(other) + Staked(pending) + ChallengeStake * c = created - burned
      BY <1>1, <2>1 DEF MoneyInv
    <2>3. /\ ChallengeStake * (c + 1) = ChallengeStake * c + ChallengeStake
          /\ ChallengeStake * c \in Nat /\ ChallengeStake * (c + 1) \in Nat
      BY <1>2, TimesOne
    <2>4. PICK k \in Nat : k = ChallengeStake * c
      BY <2>3
    <2>5. Total(other) + Staked(pending) + k = created - burned
      BY <2>2, <2>4
    <2>6. CASE again
      <3>1. Cardinality(Open') = c
        BY <1>13, <2>1, <2>6
      <3>2. burned' = burned + ChallengeStake
        BY <1>5, <2>6
      <3>3. Total(other') + Staked(pending') + k = created - burned'
        BY <1>2, <1>7, <1>8, <1>9, <2>5, <3>2
      <3> QED BY <1>5, <2>4, <3>1, <3>3 DEF MoneyInv
    <2>7. CASE ~again
      <3>1. Cardinality(Open') = c + 1
        <4>1. id \notin Open
          BY <1>13, <2>7
        <4> QED BY <1>9, <1>13, <2>1, <4>1, FS_AddElement
      <3>2. burned' = burned
        BY <1>5, <2>7
      <3>3. Total(other') + Staked(pending') + (k + ChallengeStake) = created - burned'
        BY <1>2, <1>7, <1>8, <1>9, <2>5, <3>2
      <3>4. ChallengeStake * Cardinality(Open') = k + ChallengeStake
        BY <2>3, <2>4, <3>1
      <3> QED BY <1>5, <3>3, <3>4 DEF MoneyInv
    <2> QED BY <2>6, <2>7
  <1> QED BY <1>4, <1>5, <1>10, <1>11, <1>12, <1>14, PoolStep

LEMMA ResolveChallengeStep ==
    ASSUME CoreInv, NEW id \in DOMAIN challenges, NEW correct \in Outputs,
           ResolveChallenge(id, correct)
    PROVE  CoreInv'
  <1> DEFINE pid == id[1]
             by == id[2]
             worker == ProofOf[pid[1]].worker
             won == correct = challenges[id].claim
             prize == Only(by, ChallengeStake + Stake(pid))
             lost == LostStakes(by, worker)
             delta == IF won THEN prize ELSE lost
  <1>1. /\ CoreTypeOK /\ PoolParts /\ MoneyInv /\ currentBlock \in 0 .. MaxNow
        /\ balances \in [Accounts -> Int] /\ other \in [Accounts -> Int]
        /\ pending \in Seq(Item) /\ Distinct(pending)
        /\ settled \in Seq(Pids) /\ slashed \in Seq(Pids) /\ submits \in Nat
        /\ Len(settled) \in Nat /\ Len(slashed) \in Nat /\ Cardinality(PidsOf(pending)) \in Nat
        /\ Len(settled) + Len(slashed) + Cardinality(PidsOf(pending)) <= submits
    BY PoolNow
  <1>2. pid \in Pids /\ by \in Accounts
    <2>1. id \in Pids \X Accounts \X (0 .. MaxNow)
      BY <1>1 DEF CoreTypeOK
    <2> QED BY <2>1
  <1>3. worker \in Accounts /\ ChallengeStake \in Nat /\ Stake(pid) \in Int
        /\ ChallengeStake + Stake(pid) \in Int
    <2>1. worker \in Accounts
      BY <1>2, NewflowAssumption DEF Pids
    <2>2. ChallengeStake \in Nat /\ Stake(pid) \in Int
      BY <1>2, StakesInt, NewflowAssumption
    <2> QED BY <2>1, <2>2
  <1>4. /\ prize \in [Accounts -> Int] /\ Total(prize) = ChallengeStake + Stake(pid)
        /\ lost \in [Accounts -> Int] /\ Total(lost) = ChallengeStake
    <2>1. ChallengeStake \in Int
      BY <1>3
    <2> HIDE DEF worker, by, pid
    <2> QED BY <1>2, <1>3, <2>1, TotalOnly DEF LostStakes
  <1>5. /\ ~challenges[id].resolved
        /\ pid \in PidsOf(pending)
        /\ challenges' = [challenges EXCEPT ![id].resolved = TRUE]
        /\ balances' = Plus(balances, delta) /\ other' = Plus(other, delta)
        /\ pending' = (IF won THEN Without(pending, pid)
                       ELSE SetStatus(pending, pid, "pending"))
        /\ slashed' = (IF won THEN Append(slashed, pid) ELSE slashed)
        /\ UNCHANGED <<chainVars, settled, entries, currentBlock, submits, raised, created, burned,
                       verified, forgetful>>
    BY DEF ResolveChallenge, IsPending, StatusAfterLoss, historyVars
  <1> HIDE DEF pid, by, worker, won, prize, lost
  <1>6. delta \in [Accounts -> Int]
        /\ Total(delta) = ChallengeStake + (IF won THEN Stake(pid) ELSE 0)
    BY <1>3, <1>4
  <1> HIDE DEF delta
  <1>7. /\ DOMAIN challenges' = DOMAIN challenges
        /\ \A c \in DOMAIN challenges : c # id => challenges'[c] = challenges[c]
        /\ challenges'[id] = [challenges[id] EXCEPT !.resolved = TRUE]
    BY <1>5
  <1>8. challenges[id] \in [claim : Outputs, resolved : BOOLEAN]
    BY <1>1 DEF CoreTypeOK
  <1>9. challenges'[id] \in [claim : Outputs, resolved : BOOLEAN] /\ challenges'[id].resolved
    BY <1>7, <1>8
  <1>10. Open' = Open \ {id} /\ id \in Open
    BY <1>5, <1>7, <1>9 DEF Open
  <1>11. Total(other) \in Int /\ Staked(pending) \in Int /\ created \in Int /\ burned \in Int
         /\ Cardinality(Open) \in Nat /\ IsFiniteSet(Open)
    BY <1>1, Numbers, OpenFinite
  <1>12. /\ pending' \in Seq(Item) /\ Distinct(pending') /\ Approved(pending', verified')
         /\ Staked(pending) = Staked(pending') + (IF won THEN Stake(pid) ELSE 0)
         /\ Staked(pending') \in Int
         /\ slashed' \in Seq(Pids) /\ Range(slashed) \subseteq Range(slashed')
         /\ Len(slashed') + Cardinality(PidsOf(pending')) =
               Len(slashed) + Cardinality(PidsOf(pending))
    <2>a. UNCHANGED verified
      BY <1>5
    <2>1. CASE won
      <3> DEFINE rest == Without(pending, pid)
                 list == Append(slashed, pid)
      <3>1. pending' = rest /\ slashed' = list
        BY <1>5, <2>1
      <3>2. rest \in Seq(Item) /\ Distinct(rest) /\ PidsOf(rest) = PidsOf(pending) \ {pid}
            /\ Approved(rest, verified)
        BY <1>1, WithoutFacts DEF PoolParts
      <3>3. list \in Seq(Pids) /\ Len(list) = Len(slashed) + 1
            /\ Range(list) = Range(slashed) \cup {pid}
        BY <1>1, <1>2, ListAppend
      <3> HIDE DEF rest, list
      <3>4. /\ Staked(pending) = Stake(pid) + Staked(rest)
            /\ Staked(rest) \in Int
            /\ Cardinality(PidsOf(pending)) = 1 + Cardinality(PidsOf(rest))
            /\ Cardinality(PidsOf(rest)) \in Nat
        BY <1>1, <1>5, <3>2, StakedLess
      <3>5. Staked(pending) = Staked(rest) + (IF won THEN Stake(pid) ELSE 0)
        BY <1>3, <2>1, <3>4
      <3>6. Len(list) + Cardinality(PidsOf(rest)) = Len(slashed) + Cardinality(PidsOf(pending))
        <4>1. PICK c \in Nat : c = Cardinality(PidsOf(rest))
          BY <3>4
        <4>2. PICK m \in Nat : m = Len(slashed)
          BY <1>1
        <4>3. Len(list) = m + 1 /\ Cardinality(PidsOf(pending)) = 1 + c
          BY <3>3, <3>4, <4>1, <4>2
        <4> QED BY <4>1, <4>2, <4>3
      <3> QED BY <2>a, <3>1, <3>2, <3>3, <3>4, <3>5, <3>6
    <2>2. CASE ~won
      <3>1. pending' = SetStatus(pending, pid, "pending") /\ slashed' = slashed
        BY <1>5, <2>2
      <3>2. /\ pending' \in Seq(Item) /\ Distinct(pending') /\ Approved(pending', verified')
            /\ PidsOf(pending') = PidsOf(pending) /\ Staked(pending') = Staked(pending)
        <4>1. "pending" \in {"pending", "challenged"}
          OBVIOUS
        <4> QED BY <2>a, <3>1, <4>1, StatusPool
      <3> QED BY <1>1, <1>11, <2>2, <3>1, <3>2
    <2> QED BY <2>1, <2>2
  <1>13. /\ balances' \in [Accounts -> Int] /\ other' \in [Accounts -> Int]
         /\ Total(other') = Total(other) + ChallengeStake + (IF won THEN Stake(pid) ELSE 0)
    <2>1. /\ balances' \in [Accounts -> Int] /\ other' \in [Accounts -> Int]
          /\ Total(other') = Total(other) + Total(delta) /\ Total(other) \in Int
      BY <1>1, <1>5, <1>6, TotalPlus
    <2> QED BY <1>3, <1>6, <2>1
  <1>14. CoreTypeOK'
    <2>1. IsFiniteSet(DOMAIN challenges')
      BY <1>1, <1>7 DEF CoreTypeOK
    <2>2. \A c \in DOMAIN challenges' :
             /\ c \in Pids \X Accounts \X (0 .. MaxNow)
             /\ challenges'[c] \in [claim : Outputs, resolved : BOOLEAN]
      BY <1>1, <1>7, <1>9 DEF CoreTypeOK
    <2> QED BY <1>1, <1>5, <1>12, <1>13, <2>1, <2>2 DEF CoreTypeOK, chainVars
  <1>15. PoolParts'
    BY <1>1, <1>5, <1>12 DEF PoolParts
  <1>16. CountInv'
    <2>1. Len(slashed') \in Nat /\ Cardinality(PidsOf(pending')) \in Nat
      BY <1>12, PoolFacts, FS_CardinalityType
    <2>2. Len(settled') + Len(slashed') + Cardinality(PidsOf(pending')) <= submits'
      BY <1>1, <1>5, <1>12, <2>1
    <2> QED BY <2>2 DEF CountInv, Count, Books
  <1>17. MoneyInv'
    <2>1. PICK c \in Nat : c + 1 = Cardinality(Open)
      <3>1. Cardinality(Open) # 0
        BY <1>10, <1>11, FS_EmptySet
      <3> QED BY <1>11, <3>1
    <2>2. Cardinality(Open') = c
      <3>1. Cardinality(Open \ {id}) = Cardinality(Open) - 1
        BY <1>10, <1>11, FS_RemoveElement
      <3> QED BY <1>10, <2>1, <3>1
    <2>3. /\ ChallengeStake * (c + 1) = ChallengeStake * c + ChallengeStake
          /\ ChallengeStake * c \in Nat
      BY <1>3, TimesOne
    <2>4. PICK k \in Nat : k = ChallengeStake * c
      BY <2>3
    <2>5. Total(other) + Staked(pending) + ChallengeStake * (c + 1) = created - burned
      BY <1>1, <2>1 DEF MoneyInv
    <2>6. Total(other) + Staked(pending) + (k + ChallengeStake) = created - burned
      BY <2>3, <2>4, <2>5
    <2>7. PICK s \in Int : s = IF won THEN Stake(pid) ELSE 0
      BY <1>3
    <2>8. Total(other') + Staked(pending') + k = created - burned
      <3>1. /\ Total(other') = Total(other) + ChallengeStake + s
            /\ Staked(pending) = Staked(pending') + s
            /\ Staked(pending') \in Int
        BY <1>12, <1>13, <2>7
      <3>2. PICK t \in Int : t = Staked(pending')
        BY <3>1
      <3>3. PICK u \in Int : u = Total(other)
        BY <1>11
      <3>4. u + (t + s) + (k + ChallengeStake) = created - burned
        BY <2>6, <3>1, <3>2, <3>3
      <3>5. (u + ChallengeStake + s) + t + k = created - burned
        BY <1>3, <1>11, <3>4
      <3> QED BY <3>1, <3>2, <3>3, <3>5
    <2> QED BY <1>5, <2>2, <2>4, <2>8 DEF MoneyInv
  <1> QED BY <1>5, <1>6, <1>14, <1>15, <1>16, <1>17, PoolStep

LEMMA ProcessPendingStep == ASSUME CoreInv, ProcessPending PROVE CoreInv'
  <1> DEFINE checked == VerifyEach(Books, pending)
             after == SettleEach(checked, checked.pending)
             delta == [a \in Accounts |-> after.balances[a] - balances[a]]
  <1>1. /\ CoreTypeOK /\ MoneyInv /\ currentBlock \in 0 .. MaxNow
        /\ balances \in [Accounts -> Int] /\ other \in [Accounts -> Int]
    BY PoolNow
  <1>2. Books.pending = pending /\ Books.balances = balances /\ Books.created = created
    BY DEF Books
  <1>3. /\ PoolSound(checked, currentBlock, forgetful)
        /\ Worth(checked) = Worth(Books) /\ Count(checked) = Count(Books)
    <2>1. PoolSound(Books, currentBlock, forgetful)
      BY DEF CoreInv, PoolInv
    <2>2. LET t == VerifyEach(Books, Books.pending)
          IN  PoolSound(t, currentBlock, forgetful) /\ Worth(t) = Worth(Books) /\ Count(t) = Count(Books)
      BY <1>1, <2>1, VerifyPass
    <2> QED BY <1>2, <2>2
  <1> HIDE DEF checked
  <1>4. /\ PoolSound(after, currentBlock, forgetful)
        /\ Worth(after) = Worth(Books) /\ Count(after) = Count(Books)
    <2>1. LET t == SettleEach(checked, checked.pending)
          IN  PoolSound(t, currentBlock, forgetful) /\ Worth(t) = Worth(checked)
              /\ Count(t) = Count(checked)
      BY <1>1, <1>3, SettlePass
    <2> QED BY <1>3, <2>1
  <1>5. /\ balances' = after.balances
        /\ other' = [a \in Accounts |-> other[a] + after.balances[a] - balances[a]]
        /\ pending' = after.pending /\ slashed' = after.slashed /\ settled' = after.settled
        /\ entries' = after.entries /\ created' = after.created /\ verified' = after.verified
        /\ UNCHANGED <<chainVars, challenges, currentBlock, submits, raised, burned, forgetful>>
    BY DEF ProcessPending, checked
  <1> HIDE DEF after
  <1>6. after \in BookType
    BY <1>4 DEF PoolSound
  <1>7. /\ after.balances \in [Accounts -> Int] /\ after.pending \in Seq(Item)
        /\ after.slashed \in Seq(Pids) /\ after.settled \in Seq(Pids) /\ after.entries \in Ledgers
        /\ after.created \in Int /\ after.verified \in SUBSET Pids
    BY <1>6, BookFields
  <1>8. delta \in [Accounts -> Int] /\ balances' = Plus(balances, delta) /\ other' = Plus(other, delta)
    <2>1. delta \in [Accounts -> Int]
      BY <1>1, <1>7
    <2>2. \A a \in Accounts : /\ after.balances[a] \in Int /\ balances[a] \in Int /\ other[a] \in Int
                              /\ delta[a] = after.balances[a] - balances[a]
      BY <1>1, <1>7
    <2>3. after.balances = [a \in Accounts |-> after.balances[a]]
      BY <1>7
    <2> HIDE DEF delta
    <2>4. \A a \in Accounts : /\ balances[a] + delta[a] = after.balances[a]
                              /\ other[a] + delta[a] = other[a] + after.balances[a] - balances[a]
      BY <2>2
    <2>5. balances' = Plus(balances, delta)
      BY <1>5, <2>3, <2>4 DEF Plus
    <2>6. other' = Plus(other, delta)
      BY <1>5, <2>4 DEF Plus
    <2> QED BY <2>1, <2>5, <2>6
  <1> HIDE DEF delta
  <1>9. /\ Total(other') = Total(other) + Total(delta)
        /\ Total(balances') = Total(balances) + Total(delta)
        /\ other' \in [Accounts -> Int]
        /\ Total(other) \in Int /\ Total(balances) \in Int /\ Total(delta) \in Int
    BY <1>1, <1>8, TotalPlus
  <1>10. Books' = after
    <2>1. after = [balances |-> after.balances, pending |-> after.pending,
                   slashed |-> after.slashed, settled |-> after.settled,
                   entries |-> after.entries, created |-> after.created,
                   verified |-> after.verified]
      BY <1>6 DEF BookType
    <2>2. Books' = [balances |-> balances', pending |-> pending', slashed |-> slashed',
                    settled |-> settled', entries |-> entries', created |-> created',
                    verified |-> verified']
      BY DEF Books
    <2> QED BY <1>5, <2>1, <2>2
  <1>11. CoreTypeOK'
    <2>1. entries' \subseteq [type : EntryTypes, ref : Pids, block : 0 .. MaxNow]
          /\ verified' \subseteq Pids
      BY <1>5, <1>7 DEF Ledgers
    <2>2. /\ balances' \in [Accounts -> Int] /\ pending' \in Seq(Item)
          /\ slashed' \in Seq(Pids) /\ settled' \in Seq(Pids) /\ created' \in Int
      BY <1>5, <1>7
    <2> QED BY <1>1, <1>5, <1>9, <2>1, <2>2 DEF CoreTypeOK, chainVars
  <1>12. PoolInv'
    BY <1>4, <1>5, <1>10 DEF PoolInv
  <1>13. PoolParts'
    <2>1. PoolInv' => PoolParts'
      BY PoolPartsHold, PTL
    <2> QED BY <1>12, <2>1
  <1>14. CountInv'
    BY <1>4, <1>5, <1>10 DEF CoreInv, CountInv
  <1>15. MoneyInv'
    <2>1. Worth(after) = Total(balances') + Staked(pending') - created'
      BY <1>5 DEF Worth
    <2>2. Worth(Books) = Total(balances) + Staked(pending) - created
      BY <1>2 DEF Worth
    <2>3. Staked(pending) \in Int /\ created \in Int /\ burned \in Int
          /\ ChallengeStake * Cardinality(Open) \in Int
      BY <1>1, Numbers
    <2>4. Staked(pending') \in Int /\ created' \in Int
      BY <1>5, <1>7, StakedSame
    <2>5. Open' = Open
      BY <1>5 DEF Open
    <2>6. PICK k \in Int : k = ChallengeStake * Cardinality(Open)
      BY <2>3
    <2>7. Total(other) + Staked(pending) + k = created - burned
      BY <1>1, <2>6 DEF MoneyInv
    <2>8. PICK d \in Int, b \in Int, t \in Int, p \in Int, q \in Int, c \in Int, e \in Int :
             /\ d = Total(delta) /\ b = Total(balances) /\ t = Total(other)
             /\ p = Staked(pending) /\ q = Staked(pending') /\ c = created /\ e = created'
      BY <1>9, <2>3, <2>4
    <2>9. (b + d) + q - e = b + p - c
      BY <1>4, <1>9, <2>1, <2>2, <2>8
    <2>10. t + p + k = c - burned
      BY <2>7, <2>8
    <2>11. (t + d) + q + k = e - burned
      BY <2>3, <2>9, <2>10
    <2>12. Total(other') + Staked(pending') + k = created' - burned
      BY <1>9, <2>8, <2>11
    <2> QED BY <1>5, <2>5, <2>6, <2>12 DEF MoneyInv
  <1> QED BY <1>5, <1>8, <1>11, <1>13, <1>14, <1>15, PoolStep

-----------------------------------------------------------------------------
(* The theorems *)

LEMMA CoreStep == CoreInv /\ [CoreNext]_coreVars => CoreInv'
  <1> SUFFICES ASSUME CoreInv, [CoreNext]_coreVars PROVE CoreInv'
    OBVIOUS
  <1>1. ASSUME NEW n \in 1 .. MaxBlockJobs, NEW proofs \in [1 .. n -> Jobs], Build(proofs)
        PROVE  CoreInv'
    BY <1>1, BuildStep
  <1>2. ASSUME NEW block \in built, ApplyBlock(block) PROVE CoreInv'
    BY <1>2, ApplyStep
  <1>3. ASSUME NEW block \in built, Discard(block) PROVE CoreInv'
    BY <1>3, DiscardStep
  <1>4. ASSUME NEW h \in 0 .. Height, Rollback(h) PROVE CoreInv'
    BY <1>4, RollbackStep
  <1>5. ASSUME NEW tx \in Transfers, NEW nonce \in 0 .. MaxNonce, ApplyTransfer(tx, nonce)
        PROVE  CoreInv'
    BY <1>5, TransferStep
  <1>6. ASSUME NEW a \in Accounts, ApplyFaucetClaim(a) PROVE CoreInv'
    BY <1>6, FaucetStep
  <1>7. ASSUME NEW a \in Workers, NEW profile \in Profiles, RegisterProfile(a, profile)
        PROVE  CoreInv'
    BY <1>7, RegisterStep
  <1>8. ASSUME NEW p \in Proofs, SubmitProof(p) PROVE CoreInv'
    BY <1>8, SubmitProofStep
  <1>9. ASSUME NEW a \in Challengers, NEW pid \in Pids, NEW claim \in Outputs,
               SubmitChallenge(a, pid, claim)
        PROVE  CoreInv'
    BY <1>9, SubmitChallengeStep
  <1>10. ASSUME NEW id \in DOMAIN challenges, NEW correct \in Outputs,
                ResolveChallenge(id, correct)
         PROVE  CoreInv'
    BY <1>10, ResolveChallengeStep
  <1>11. CASE ProcessPending
    BY <1>11, ProcessPendingStep
  <1>12. CASE NextBlock
    BY <1>12, NextBlockStep
  <1>13. ASSUME NEW block \in 0 .. MaxNow, LedgerRollback(block) PROVE CoreInv'
    BY <1>13, LedgerRollbackStep
  <1>14. CASE UNCHANGED coreVars
    <2>1. CoreTypeOK' /\ ProfilesFit'
      BY <1>14, ProfilesKept
         DEF CoreInv, ChainSound, CoreTypeOK, coreVars, chainVars, poolVars, historyVars
    <2> QED BY <1>14, <2>1, Aside DEF coreVars, chainVars
  <1> QED BY <1>1, <1>2, <1>3, <1>4, <1>5, <1>6, <1>7, <1>8, <1>9, <1>10, <1>11, <1>12, <1>13,
             <1>14 DEF CoreNext

LEMMA CoreInvHolds == CoreSpec => []CoreInv
  BY CoreInit_Inv, CoreStep, PTL DEF CoreSpec

\* What moved outside of blocks is what the accounts have beside genesis.
LEMMA MoneyAddsUp == CoreInv => MoneyExact
  <1> SUFFICES ASSUME CoreInv PROVE MoneyExact
    OBVIOUS
  <1> DEFINE flow == [a \in Accounts |-> FlowOf(blocks, a)]
             free == [a \in Accounts |-> Genesis[a] + other[a]]
  <1>1. CoreTypeOK /\ BalancesExact /\ MoneyInv
    BY DEF CoreInv, ChainSound
  <1>2. balances \in [Accounts -> Int] /\ other \in [Accounts -> Int] /\ blocks \in Seq(Block)
        /\ Genesis \in [Accounts -> Int] /\ IsFiniteSet(Accounts)
    BY <1>1, NewflowAssumption DEF CoreTypeOK
  <1>3. \A a \in Accounts : /\ flow[a] = FlowOf(blocks, a) /\ flow[a] \in Int
                            /\ Genesis[a] \in Int /\ other[a] \in Int
                            /\ free[a] = Genesis[a] + other[a] /\ free[a] \in Int
    BY <1>2, FlowOfInt
  <1>4. \A a \in Accounts : balances[a] = free[a] + flow[a]
    BY <1>1, <1>3 DEF BalancesExact
  <1> HIDE DEF flow, free
  <1>5. SumFunctionOnSet(flow, Accounts) = 0
    BY <1>2, <1>3, FlowOfZero
  <1>6. SumFunctionOnSet(free, Accounts) =
          SumFunctionOnSet(Genesis, Accounts) + SumFunctionOnSet(other, Accounts)
    BY <1>2, <1>3, SumPlus
  <1>7. SumFunctionOnSet(balances, Accounts) =
          SumFunctionOnSet(free, Accounts) + SumFunctionOnSet(flow, Accounts)
    <2>1. \A a \in Accounts : free[a] \in Int /\ flow[a] \in Int /\ balances[a] = free[a] + flow[a]
      BY <1>3, <1>4
    <2> QED BY <1>2, <2>1, SumPlus
  <1>8. Total(Genesis) \in Int /\ Total(other) \in Int /\ Total(balances) \in Int
    BY <1>2, TotalInt
  <1>9. Total(balances) = Total(Genesis) + Total(other)
    BY <1>5, <1>6, <1>7, <1>8 DEF Total
  <1>10. Staked(pending) \in Int /\ ChallengeStake * Cardinality(Open) \in Int
         /\ created \in Int /\ burned \in Int
    BY <1>1, Numbers
  <1>11. PICK k \in Int : k = ChallengeStake * Cardinality(Open)
    BY <1>10
  <1>12. Total(other) + Staked(pending) + k = created - burned
    BY <1>1, <1>11 DEF MoneyInv
  <1>13. Total(balances) + Staked(pending) + k = Total(Genesis) + created - burned
    BY <1>8, <1>9, <1>10, <1>12
  <1> QED BY <1>11, <1>13 DEF MoneyExact, Total

\* The state of NEWFLOW is well typed.
THEOREM CoreTypeCorrect == CoreSpec => []CoreTypeOK
  <1>1. CoreInv => CoreTypeOK
    BY DEF CoreInv, ChainSound
  <1> QED BY <1>1, CoreInvHolds, PTL

\* Whatever forks, late blocks, rollbacks, transfers, faucet claims, submissions,
\* challenges and settlements: every balance is genesis, what moved outside of
\* blocks and what the blocks still on the chain moved; no job is in two of them;
\* and the whole of ECU is in the balances and the pool, but for the stake a slash
\* makes and the one a repeated submission or challenge loses.
THEOREM BooksAddUp == CoreSpec => []BooksHold
  <1>1. CoreInv => BooksHold
    BY MoneyAddsUp DEF CoreInv, BooksHold
  <1> QED BY <1>1, CoreInvHolds, PTL

\* However challenges, resubmissions, verifications and ledger rollbacks interleave,
\* only a right proof that was verified since its last submission settles, past its
\* window; a submission leaves the pool in one way; and the ledger tells it.
THEOREM VerifiedFirst == CoreSpec => []OnlyVerifiedSettles
  <1>1. CoreInv => OnlyVerifiedSettles
    <2> SUFFICES ASSUME CoreInv PROVE OnlyVerifiedSettles
      OBVIOUS
    <2>1. /\ PoolParts /\ pending \in Seq(Item) /\ Distinct(pending)
          /\ Len(settled) + Len(slashed) + Cardinality(PidsOf(pending)) <= submits
      BY PoolNow
    <2>2. Len(settled) + Len(slashed) + Len(pending) <= submits
      BY <2>1, PoolSize
    <2>3. ASSUME NEW pid \in Pids
          PROVE  /\ ProofStatus(pid) = "settled" => pid \in Range(settled)
                 /\ ProofStatus(pid) = "slashed" => pid \in Range(slashed)
                 /\ ~forgetful /\ pid \in Range(settled) => ProofStatus(pid) = "settled"
      <3>1. \A t : t \in Types(pid) <=> \E e \in entries : e.ref = pid /\ e.type = t
        BY DEF Types
      <3>2. ProofStatus(pid) = "settled" => "proof_settled" \in Types(pid)
        BY DEF ProofStatus
      <3>3. ProofStatus(pid) = "slashed" => "proof_slashed" \in Types(pid)
        BY DEF ProofStatus
      <3>4. "proof_slashed" \notin Types(pid) /\ "proof_settled" \in Types(pid)
            => ProofStatus(pid) = "settled"
        BY DEF ProofStatus
      <3>5. "proof_settled" \in Types(pid) => pid \in Range(settled)
        BY <2>1, <3>1 DEF PoolParts
      <3>6. "proof_slashed" \in Types(pid) => pid \in Range(slashed) /\ ~Right(pid)
        BY <2>1, <3>1 DEF PoolParts
      <3>7. ASSUME ~forgetful, pid \in Range(settled) PROVE ProofStatus(pid) = "settled"
        <4>1. Right(pid) /\ \E e \in entries : e.type = "proof_settled" /\ e.ref = pid
          BY <2>1, <3>7 DEF PoolParts
        <4> QED BY <3>1, <3>4, <3>6, <4>1
      <3> QED BY <3>2, <3>3, <3>5, <3>6, <3>7
    <2> QED BY <2>1, <2>2, <2>3 DEF OnlyVerifiedSettles, PoolParts, Approved
  <1> QED BY <1>1, CoreInvHolds, PTL
=============================================================================
