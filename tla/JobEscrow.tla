----------------------------- MODULE JobEscrow -----------------------------
(***************************************************************************)
(* The life of the money behind one job: stake terms, the bilateral lock,  *)
(* and the five ways a lock ends (settle, abort, expire, slash either      *)
(* side), with the double-entry ledger written in the same transaction,    *)
(* the job registry kept in memory and in SQLite, the batched write queue  *)
(* between the two, and a restart.                                         *)
(*                                                                         *)
(* Sources: hexis_stake.py (StakeManager), hexis_ledger_entries.py         *)
(* (LedgerOp, ledger_op, reconcile), and of hexis_bridge_v0.6.2.py the     *)
(* routes /job/request and /job/{id}/complete, WriteQueue and              *)
(* stake_expiry_sweep.                                                     *)
(*                                                                         *)
(* Concurrency.  The routes of StakeManager are plain functions, so        *)
(* FastAPI runs them on a thread pool; /job/request and /job/complete are  *)
(* coroutines and run on the event loop, one at a time between awaits.  A  *)
(* transaction that starts with BEGIN IMMEDIATE is one step.  A completion *)
(* is three steps because it makes three separate trips to the database    *)
(* and the thread pool may act between them.  The sweep lists the jobs     *)
(* with a stale lock once; it reads the first pair before its transaction  *)
(* opens and every later pair inside it.  A lock reads the clock, waits    *)
(* for its transaction, and dates its rows with what it read.              *)
(***************************************************************************)
EXTENDS Integers, Sequences, FiniteSets, Functions

CONSTANTS
    Actors,         \* escrow accounts
    Jobs,           \* job ids
    RowIds,         \* ids a lock can give its pair of stake rows (uuid4)
    None,           \* no job, no row
    Offers,         \* the agreements consumers propose
    Opening,        \* escrow balances when the ledger was switched on
    Registered,     \* actors with a row in the workers or consumers table
    CreditAmounts,  \* amounts an internal caller or the operator credits
    GrantCap,       \* FUND_ESCROW_MAX_PER_GRANT
    TransferAmounts,\* amounts an internal caller transfers
    AbortMinAge,    \* ABORT_MIN_AGE_S
    LockTTL,        \* LOCK_TTL_S
    TermsTTL,       \* TERMS_TTL_S
    PairCap,        \* PAIR_CAP_COUNT
    PairWindow,     \* PAIR_CAP_WINDOW_S
    LockWait,       \* how long BEGIN IMMEDIATE waits for the database (_conn's timeout)
    QueueSize,      \* MAX_QUEUE_SIZE
    ProposeBy,      \* bound: no proposal after this time
    MaxTime,        \* bound: the clock stops here
    MaxIssued,      \* bound on the ECU credit() creates
    MaxMined,       \* bound on the completions of one job
    MaxCrashes      \* bound on restarts

ASSUME OffersAssumption ==
    /\ Offers # {}
    /\ Offers \subseteq [c : Actors, w : Actors, ca : Nat, wa : Nat, fee : Nat]

\* Each is a table of the database, or keyed by one.
ASSUME FiniteAssumption == IsFiniteSet(Actors) /\ IsFiniteSet(Jobs) /\ IsFiniteSet(RowIds)

ASSUME OpeningAssumption ==
    /\ Opening \in [Actors -> Nat]
    /\ Registered \subseteq Actors
    /\ CreditAmounts \subseteq Nat \ {0}
    /\ GrantCap \in Nat
    /\ TransferAmounts \subseteq Nat \ {0}

ASSUME BoundsAssumption ==
    /\ {AbortMinAge, LockTTL, TermsTTL, PairWindow, LockWait} \subseteq Nat
    /\ LockWait <= PairWindow
    /\ {PairCap, QueueSize, ProposeBy, MaxTime, MaxIssued, MaxMined, MaxCrashes}
          \subseteq Nat
    /\ None \notin Jobs \cup RowIds

VARIABLES
    now,          \* the wall clock
    escrow,       \* stake_escrow.balance
    pairs,        \* consumer_stake and worker_stake, one record per lock
    terms,        \* stake_terms
    bookEscrow,   \* sum of the escrow legs, by actor
    bookLocked,   \* sum of the locked legs, by job and actor
    bookIssued,   \* minus the sum of the issuance legs
    bookBurned,   \* sum of the burn legs
    slashing,     \* pairs slashed by a dispute that has not yet logged it
    slashLog,     \* pairs with a slash_log row
    jobMem,       \* STATE.jobs[j]["status"]
    jobDb,        \* jobs.status
    queue,        \* write_queue.queue
    completing,   \* the completion the event loop is in the middle of
    mined,        \* HEXIS events mined for the job's worker
    sweep,        \* the expiry sweep between its list and the last job of it
    up,           \* the bridge serves
    crashes       \* restarts so far

moneyVars == <<escrow, bookEscrow, bookLocked, bookIssued, bookBurned>>
stakeVars == <<pairs, terms, slashing, slashLog>>
jobVars   == <<jobMem, jobDb, queue, completing, mined>>
vars == <<now, moneyVars, stakeVars, jobVars, sweep, up, crashes>>

Statuses == {"none", "locked", "released", "slashed", "aborted", "expired"}
Sides == {"consumer", "worker"}
JobStates == {"none", "pending", "void", "completed"}

AnyOffer == CHOOSE o \in Offers : TRUE

\* A row not inserted yet, and a pair of rows.
NoPair == [job |-> None, offer |-> AnyOffer, cs |-> "none", ws |-> "none",
           at |-> 0, feeTo |-> "nobody"]
Pair == [job : Jobs, offer : Offers, cs : Statuses \ {"none"}, ws : Statuses \ {"none"},
         at : Nat, feeTo : Sides \cup {"nobody"}]
Terms == [status : {"none", "proposed", "accepted"}, offer : Offers, expiry : Nat]
Write == [job : Jobs, status : JobStates]

Idle == [pc |-> "idle", job |-> None]
Asleep == [pc |-> "idle", jobs |-> {}, row |-> None]

\* What a lock holds for actor a: the fee is the consumer's until the job ends.
Share(o, a) == CASE a = o.c -> o.ca + o.fee
                 [] a = o.w -> o.wa
                 [] OTHER   -> 0

\* Mutant of Open: a released row still counts as locked.
OpenOrReleased(r) == {pairs[r].cs, pairs[r].ws} \subseteq {"locked", "released"}

\* The row pair _locked_pair() would find for the job.
Open(r) == pairs[r].cs = "locked" /\ pairs[r].ws = "locked"
OpenOf(j) == {r \in RowIds : Open(r) /\ pairs[r].job = j}
\* Mutant of Stale: the age is taken the wrong way round.
StaleSwapped(r) == pairs[r].at - LockTTL > now

Stale(r) == pairs[r].at + LockTTL < now

\* ensure_opening_balances asserts one leg for each balance older than the
\* ledger; the marker written with them keeps every later boot from repeating it.
OpeningLegs == [a \in Actors |-> Opening[a]]

Init ==
    /\ now = 0
    /\ escrow = Opening
    /\ pairs = [r \in RowIds |-> NoPair]
    /\ terms = [j \in Jobs |-> [status |-> "none", offer |-> AnyOffer, expiry |-> 0]]
    /\ bookEscrow = OpeningLegs
    /\ bookLocked = [j \in Jobs |-> [a \in Actors |-> 0]]
    /\ bookIssued = 0
    /\ bookBurned = 0
    /\ slashing = {}
    /\ slashLog = {}
    /\ jobMem = [j \in Jobs |-> "none"]
    /\ jobDb = [j \in Jobs |-> "none"]
    /\ queue = <<>>
    /\ completing = Idle
    /\ mined = [j \in Jobs |-> 0]
    /\ sweep = Asleep
    /\ up = TRUE
    /\ crashes = 0

-----------------------------------------------------------------------------
(* The ledger *)

\* LedgerOp.write: legs that do not sum to zero raise LedgerImbalance, which rolls
\* the whole operation back.
Balanced(legs) == legs.ce + legs.we + legs.cl + legs.wl + legs.burn = 0

\* One operation on job j, with its _debit/_credit_in_tx calls: every escrow change
\* carries its leg.
Post(j, o, legs) ==
    /\ Balanced(legs)
    /\ escrow' = [escrow EXCEPT ![o.c] = @ + legs.ce, ![o.w] = @ + legs.we]
    /\ bookEscrow' = [bookEscrow EXCEPT ![o.c] = @ + legs.ce, ![o.w] = @ + legs.we]
    /\ bookLocked' = [bookLocked EXCEPT ![j][o.c] = @ + legs.cl, ![j][o.w] = @ + legs.wl]
    /\ bookBurned' = bookBurned + legs.burn
    /\ UNCHANGED bookIssued

\* credit(): the balance and the issuance leg in one transaction.
Issue(a, n) ==
    /\ bookIssued + n <= MaxIssued
    /\ escrow' = [escrow EXCEPT ![a] = @ + n]
    /\ bookEscrow' = [bookEscrow EXCEPT ![a] = @ + n]
    /\ bookIssued' = bookIssued + n
    /\ UNCHANGED <<now, bookLocked, bookBurned, stakeVars, jobVars, sweep, up, crashes>>

\* A caller inside the bridge.
Credit(a, n) == up /\ Issue(a, n)

\* The operator's command line: a process of its own, whether the bridge serves
\* or not, that grants a registered actor no more than the cap.
FundEscrow(a, n) ==
    /\ a \in Registered /\ n <= GrantCap
    /\ Issue(a, n)

Transfer(a, b, n) ==
    /\ up /\ escrow[a] >= n
    /\ escrow' = [escrow EXCEPT ![a] = @ - n, ![b] = @ + n]
    /\ bookEscrow' = [bookEscrow EXCEPT ![a] = @ - n, ![b] = @ + n]
    /\ UNCHANGED <<now, bookLocked, bookIssued, bookBurned, stakeVars, jobVars,
                   sweep, up, crashes>>

-----------------------------------------------------------------------------
(* Consent *)

CanPropose(j) == terms[j].status = "none"

ProposeTerms(j, o) ==
    /\ up /\ now <= ProposeBy
    /\ o.ca > 0 /\ o.wa > 0 /\ o.fee > 0
    /\ o.c # o.w
    /\ CanPropose(j)
    /\ terms' = [terms EXCEPT ![j] = [status |-> "proposed", offer |-> o,
                                      expiry |-> now + TermsTTL]]
    /\ UNCHANGED <<now, moneyVars, pairs, slashing, slashLog, jobVars, sweep, up, crashes>>

\* terms_hash(): every number the parties agree to, and until when.
TermsHash(j, o) == [job |-> j, offer |-> o, expiry |-> terms[j].expiry]

\* The worker names the hash of the numbers it read.
AcceptTerms(j, o) ==
    /\ up
    /\ terms[j].status = "proposed"
    /\ now <= terms[j].expiry
    /\ TermsHash(j, o) = TermsHash(j, terms[j].offer)
    /\ terms' = [terms EXCEPT ![j].status = "accepted"]
    /\ UNCHANGED <<now, moneyVars, pairs, slashing, slashLog, jobVars, sweep, up, crashes>>

\* Mutant of AcceptedTerms: the numbers are not compared with the terms.
AcceptedAnyTerms(j, o) == terms[j].status = "accepted" /\ now <= terms[j].expiry

AcceptedTerms(j, o) ==
    /\ terms[j].status = "accepted"
    /\ now <= terms[j].expiry
    /\ o = terms[j].offer

\* Mutant of PairCount: only the locks still open are counted.
PairCountOpen(o) == Cardinality({r \in RowIds : /\ pairs[r].cs = "locked"
                                                /\ pairs[r].offer.c = o.c
                                                /\ pairs[r].offer.w = o.w
                                                /\ pairs[r].at >= now - PairWindow})

PairCount(o) == Cardinality({r \in RowIds : /\ pairs[r].cs # "none"
                                            /\ pairs[r].offer.c = o.c
                                            /\ pairs[r].offer.w = o.w
                                            /\ pairs[r].at >= now - PairWindow})

\* Mutant of AlreadyLocked: the wrong status is looked for.
AlreadyReleased(j) == \E r \in RowIds : pairs[r].job = j /\ pairs[r].cs = "released"

\* A completed row stays in the table; only an open one refuses a second lock.
AlreadyLocked(j) == \E r \in RowIds : pairs[r].job = j /\ pairs[r].cs = "locked"

\* Mutant of LockLegs: the fee is posted on the worker's locked account.
LockLegsFeeOnWorker(o) == [ce |-> -(o.ca + o.fee), we |-> -o.wa,
                           cl |-> o.ca, wl |-> o.wa + o.fee, burn |-> 0]

LockLegs(o) == [ce |-> -(o.ca + o.fee), we |-> -o.wa,
                cl |-> o.ca + o.fee, wl |-> o.wa, burn |-> 0]

\* Mutant of Funded: the fee is left out of the consumer's check.
FundedForStake(o) == escrow[o.c] >= o.ca /\ escrow[o.w] >= o.wa

\* _debit refuses a balance short of the stake, for the consumer of stake and fee.
Funded(o) == escrow[o.c] >= o.ca + o.fee /\ escrow[o.w] >= o.wa

\* The call read the clock at t, then waited for the write lock; everything it
\* checks inside the transaction, the pair cap included, goes by a fresh reading.
Lock(r, j, o, t) ==
    /\ up
    /\ t \in 0 .. now /\ now - t <= LockWait
    /\ pairs[r].cs = "none"
    /\ ~AlreadyLocked(j)
    /\ AcceptedTerms(j, o)
    /\ PairCount(o) < PairCap
    /\ Funded(o)
    /\ Post(j, o, LockLegs(o))
    /\ pairs' = [pairs EXCEPT ![r] = [job |-> j, offer |-> o, cs |-> "locked",
                                      ws |-> "locked", at |-> t, feeTo |-> "nobody"]]
    /\ UNCHANGED <<now, terms, slashing, slashLog, jobVars, sweep, up, crashes>>

-----------------------------------------------------------------------------
(* The ways a lock ends *)

\* Mutant of SettleLegs: the stakes go home and the fee stays where it is.
SettleLegsNoFee(o) == [ce |-> o.ca, we |-> o.wa, cl |-> -o.ca, wl |-> -o.wa, burn |-> 0]

\* Both stakes go home and the fee goes to the worker.
SettleLegs(o) == [ce |-> o.ca, we |-> o.wa + o.fee,
                  cl |-> -(o.ca + o.fee), wl |-> -o.wa, burn |-> 0]

\* Mutant of RefundLegs: an unwound lock pays the worker the fee.
RefundLegsFeeToWorker(o) == [ce |-> o.ca, we |-> o.wa + o.fee,
                             cl |-> -(o.ca + o.fee), wl |-> -o.wa, burn |-> 0]

\* Both stakes go home and so does the fee.
RefundLegs(o) == [ce |-> o.ca + o.fee, we |-> o.wa,
                  cl |-> -(o.ca + o.fee), wl |-> -o.wa, burn |-> 0]

\* Mutant of SlashLegs: half of the stake is burned and the slashed side keeps the rest.
SlashLegsHalf(o, side) ==
    IF side = "consumer"
    THEN [ce |-> o.ca - o.ca \div 2, we |-> o.wa + o.fee,
          cl |-> -(o.ca + o.fee), wl |-> -o.wa, burn |-> o.ca \div 2]
    ELSE [ce |-> o.ca + o.fee, we |-> o.wa - o.wa \div 2,
          cl |-> -(o.ca + o.fee), wl |-> -o.wa, burn |-> o.wa \div 2]

\* Mutant of SlashLegs: the honest side gets its stake and nobody the fee.
SlashLegsNoFee(o, side) ==
    IF side = "consumer"
    THEN [ce |-> 0, we |-> o.wa, cl |-> -o.ca, wl |-> -o.wa, burn |-> o.ca]
    ELSE [ce |-> o.ca, we |-> 0, cl |-> -o.ca, wl |-> -o.wa, burn |-> o.wa]

\* The faulting side's stake is burned; the honest side gets its own and the fee.
SlashLegs(o, side) ==
    IF side = "consumer"
    THEN [ce |-> 0, we |-> o.wa + o.fee,
          cl |-> -(o.ca + o.fee), wl |-> -o.wa, burn |-> o.ca]
    ELSE [ce |-> o.ca + o.fee, we |-> 0,
          cl |-> -(o.ca + o.fee), wl |-> -o.wa, burn |-> o.wa]

Close(r, cs, ws, feeTo, legs) ==
    /\ Post(pairs[r].job, pairs[r].offer, legs)
    /\ pairs' = [pairs EXCEPT ![r].cs = cs, ![r].ws = ws, ![r].feeTo = feeTo]

AbortUnstarted(r) ==
    /\ up /\ Open(r)
    /\ jobDb[pairs[r].job] = "none"
    /\ now - pairs[r].at >= AbortMinAge
    /\ Close(r, "aborted", "aborted", "consumer", RefundLegs(pairs[r].offer))
    /\ UNCHANGED <<now, terms, slashing, slashLog, jobVars, sweep, up, crashes>>

DisputeSlash(r, side) ==
    /\ up /\ Open(r)
    /\ IF side = "consumer"
       THEN Close(r, "slashed", "released", "worker", SlashLegs(pairs[r].offer, side))
       ELSE Close(r, "released", "slashed", "consumer", SlashLegs(pairs[r].offer, side))
    /\ slashing' = slashing \cup {r}
    /\ UNCHANGED <<now, terms, slashLog, jobVars, sweep, up, crashes>>

\* The second transaction of dispute_slash, after the two callbacks returned or
\* raised: an exception of theirs is swallowed.
LogSlash(r) ==
    /\ up /\ r \in slashing
    /\ slashing' = slashing \ {r}
    /\ slashLog' = slashLog \cup {r}
    /\ UNCHANGED <<now, moneyVars, pairs, terms, jobVars, sweep, up, crashes>>

\* The database stayed busy past its timeout: the call fails, the slash stands.
LogSlashFailed(r) ==
    /\ up /\ r \in slashing
    /\ slashing' = slashing \ {r}
    /\ UNCHANGED <<now, moneyVars, pairs, terms, slashLog, jobVars, sweep, up, crashes>>

\* Mutant of Expire: any registered job counts as delivered.
ExpireRegistered(r) ==
    IF jobDb[pairs[r].job] # "none"
    THEN Close(r, "expired", "expired", "worker", SettleLegs(pairs[r].offer))
    ELSE Close(r, "expired", "expired", "consumer", RefundLegs(pairs[r].offer))

\* A delivered job's fee is rescued for the worker; otherwise it goes home.
Expire(r) ==
    IF jobDb[pairs[r].job] = "completed"
    THEN Close(r, "expired", "expired", "worker", SettleLegs(pairs[r].offer))
    ELSE Close(r, "expired", "expired", "consumer", RefundLegs(pairs[r].offer))

\* The sweep decides once, and by job, what is stale.
StaleJobs == {j \in Jobs : \E r \in OpenOf(j) : Stale(r)}

SweepList ==
    /\ up /\ sweep.pc = "idle"
    /\ StaleJobs # {}
    /\ sweep' = [pc |-> "listed", jobs |-> StaleJobs, row |-> None]
    /\ UNCHANGED <<now, moneyVars, stakeVars, jobVars, up, crashes>>

\* The sweep after job j: the transaction stays open until the last of the list.
SweptJob(j, pc) == IF sweep.jobs = {j} THEN Asleep
                   ELSE [pc |-> pc, jobs |-> sweep.jobs \ {j}, row |-> None]

\* The lock ended after the list was made and none replaced it.
SweepSkip(j) ==
    /\ up /\ sweep.pc \in {"listed", "open"}
    /\ j \in sweep.jobs /\ OpenOf(j) = {}
    /\ sweep' = SweptJob(j, sweep.pc)
    /\ UNCHANGED <<now, moneyVars, stakeVars, jobVars, up, crashes>>

\* No transaction is open before the first pair to expire: it is read...
SweepReadFirst(j) ==
    /\ up /\ sweep.pc = "listed"
    /\ j \in sweep.jobs
    /\ \E r \in OpenOf(j) : sweep' = [sweep EXCEPT !.pc = "read", !.row = r]
    /\ UNCHANGED <<now, moneyVars, stakeVars, jobVars, up, crashes>>

\* ...and paid out from what was read, whatever happened in between.
SweepExpireFirst ==
    /\ up /\ sweep.pc = "read"
    /\ Expire(sweep.row)
    /\ sweep' = SweptJob(pairs[sweep.row].job, "open")
    /\ UNCHANGED <<now, terms, slashing, slashLog, jobVars, up, crashes>>

\* A pair read inside the transaction that pays it, as every later pair of a sweep
\* is, or a first one nothing touched in between. Whichever lock of the job is
\* open now is the one that expires, the listed one or a new one: its age is not
\* looked at again. (The code commits the whole list at once; here job by job.)
SweepExpire(j) ==
    /\ up /\ sweep.pc \in {"listed", "open"}
    /\ j \in sweep.jobs
    /\ \E r \in OpenOf(j) : Expire(r)
    /\ sweep' = SweptJob(j, "open")
    /\ UNCHANGED <<now, terms, slashing, slashLog, jobVars, up, crashes>>

-----------------------------------------------------------------------------
(* The job, on the event loop *)

\* submit() on a full queue returns False and no caller looks.
Submitted(j, s) == IF Len(queue) < QueueSize
                   THEN Append(queue, [job |-> j, status |-> s])
                   ELSE queue

\* Nothing refuses a job id that is already registered: the entry is replaced.
JobRequest(j) ==
    /\ up /\ completing.pc = "idle"
    /\ OpenOf(j) # {}
    /\ mined[j] < MaxMined
    /\ jobMem' = [jobMem EXCEPT ![j] = "pending"]
    /\ queue' = Submitted(j, "pending")
    /\ UNCHANGED <<now, moneyVars, stakeVars, jobDb, completing, mined, sweep, up, crashes>>

CompleteRefused(j) ==
    /\ up /\ completing.pc = "idle"
    /\ jobMem[j] = "pending"
    /\ OpenOf(j) = {}
    /\ jobMem' = [jobMem EXCEPT ![j] = "void"]
    /\ queue' = Submitted(j, "void")
    /\ UNCHANGED <<now, moneyVars, stakeVars, jobDb, completing, mined, sweep, up, crashes>>

CompleteCheck(j) ==
    /\ up /\ completing.pc = "idle"
    /\ jobMem[j] = "pending"
    /\ OpenOf(j) # {}
    /\ completing' = [pc |-> "checked", job |-> j]
    /\ UNCHANGED <<now, moneyVars, stakeVars, jobMem, jobDb, queue, mined, sweep, up, crashes>>

CompleteMine ==
    /\ up /\ completing.pc = "checked"
    /\ mined' = [mined EXCEPT ![completing.job] = @ + 1]
    /\ completing' = [completing EXCEPT !.pc = "mined"]
    /\ UNCHANGED <<now, moneyVars, stakeVars, jobMem, jobDb, queue, sweep, up, crashes>>

JobDone ==
    /\ jobMem' = [jobMem EXCEPT ![completing.job] = "completed"]
    /\ queue' = Submitted(completing.job, "completed")
    /\ completing' = Idle
    /\ UNCHANGED <<now, terms, slashing, slashLog, jobDb, mined, sweep, up, crashes>>

CompleteSettle(r) ==
    /\ up /\ completing.pc = "mined"
    /\ r \in OpenOf(completing.job)
    /\ Close(r, "released", "released", "worker", SettleLegs(pairs[r].offer))
    /\ JobDone

\* settle_complete raised: no locked pair any more, or the database stayed
\* busy. The exception is logged and the job completes all the same.
CompleteUnsettled ==
    /\ up /\ completing.pc = "mined"
    /\ UNCHANGED <<moneyVars, pairs>>
    /\ JobDone

\* The statement at the head of the queue reaches SQLite. A batch is a prefix
\* of the queue in one transaction; statements touch one job's row each, so a
\* batch is as good as its statements one by one.
Flush ==
    /\ up /\ queue # <<>>
    /\ LET q == Head(queue) IN
         jobDb' = [jobDb EXCEPT ![q.job] =
                     IF q.status # "pending" /\ @ = "none" THEN @ ELSE q.status]
    /\ queue' = Tail(queue)
    /\ UNCHANGED <<now, moneyVars, stakeVars, jobMem, completing, mined, sweep, up, crashes>>

\* The batch was popped before it was written; a write error loses it.
FlushLost ==
    /\ up /\ queue # <<>>
    /\ queue' = Tail(queue)
    /\ UNCHANGED <<now, moneyVars, stakeVars, jobMem, jobDb, completing, mined,
                   sweep, up, crashes>>

-----------------------------------------------------------------------------
(* The process and the clock *)

Crash ==
    /\ up /\ crashes < MaxCrashes
    /\ up' = FALSE
    /\ crashes' = crashes + 1
    /\ slashing' = {}
    /\ jobMem' = [j \in Jobs |-> "none"]
    /\ queue' = <<>>
    /\ completing' = Idle
    /\ sweep' = Asleep
    /\ UNCHANGED <<now, moneyVars, pairs, terms, slashLog, jobDb, mined>>

\* The two columns reconcile() compares for locked stake, by actor.
LedgerLocked(a) == SumFunctionOnSet([j \in Jobs |-> bookLocked[j][a]], Jobs)
HeldBy(a) ==
    [r \in RowIds |->
          (IF pairs[r].cs = "locked" /\ pairs[r].offer.c = a
           THEN pairs[r].offer.ca + pairs[r].offer.fee ELSE 0)
        + (IF pairs[r].ws = "locked" /\ pairs[r].offer.w = a
           THEN pairs[r].offer.wa ELSE 0)]
StoredLocked(a) == SumFunctionOnSet(HeldBy(a), RowIds)

\* ecu_total(): what the tables hold, spendable or locked.
EcuTotal == SumFunctionOnSet([a \in Actors |-> escrow[a] + StoredLocked(a)], Actors)

ReconcileOk == \A a \in Actors : /\ escrow[a] = bookEscrow[a]
                                 /\ StoredLocked(a) = LedgerLocked(a)

\* run_ledger_reconcile("boot", fatal=True) refuses to serve otherwise.
Boot ==
    /\ ~up
    /\ ReconcileOk
    /\ up' = TRUE
    /\ UNCHANGED <<now, moneyVars, stakeVars, jobVars, sweep, crashes>>

Tick ==
    /\ now < MaxTime
    /\ now' = now + 1
    /\ UNCHANGED <<moneyVars, stakeVars, jobVars, sweep, up, crashes>>

-----------------------------------------------------------------------------
StakeNext ==
    \/ \E a \in Actors : \E n \in CreditAmounts : Credit(a, n) \/ FundEscrow(a, n)
    \/ \E a, b \in Actors : \E n \in TransferAmounts : Transfer(a, b, n)
    \/ \E j \in Jobs : \E o \in Offers : ProposeTerms(j, o)
    \/ \E j \in Jobs : \E o \in Offers : AcceptTerms(j, o)
    \/ \E r \in RowIds : \E j \in Jobs : \E o \in Offers : \E t \in 0 .. now : Lock(r, j, o, t)
    \/ \E r \in RowIds : AbortUnstarted(r)
    \/ \E r \in RowIds : \E side \in Sides : DisputeSlash(r, side)
    \/ \E r \in RowIds : LogSlash(r)
    \/ \E r \in RowIds : LogSlashFailed(r)
    \/ SweepList
    \/ \E j \in Jobs : SweepSkip(j)
    \/ \E j \in Jobs : SweepExpire(j)

JobNext ==
    \/ \E j \in Jobs : JobRequest(j)
    \/ \E j \in Jobs : CompleteRefused(j)
    \/ \E j \in Jobs : CompleteCheck(j)
    \/ CompleteMine
    \/ \E r \in RowIds : CompleteSettle(r)
    \/ CompleteUnsettled
    \/ Flush
    \/ FlushLost

ProcessNext == Crash \/ Boot \/ Tick

\* Every transaction reads what it writes.
SerialNext == StakeNext \/ JobNext \/ ProcessNext

\* The code: the first pair of a sweep is read before the transaction.
Next ==
    \/ SerialNext
    \/ \E j \in Jobs : SweepReadFirst(j)
    \/ SweepExpireFirst

SerialSpec == Init /\ [][SerialNext]_vars
Spec == Init /\ [][Next]_vars

\* The sweep is a task that runs for as long as the process does, the clock
\* moves, and systemd restarts the process (Restart=always).
FairSerialSpec ==
    /\ SerialSpec
    /\ WF_vars(Tick)
    /\ WF_vars(Boot)
    /\ WF_vars(SweepList)
    /\ WF_vars(\E j \in Jobs : SweepSkip(j) \/ SweepExpire(j))
-----------------------------------------------------------------------------
(* Properties *)

TypeOK ==
    /\ now \in Nat
    /\ escrow \in [Actors -> Nat]
    /\ pairs \in [RowIds -> Pair \cup {NoPair}]
    /\ terms \in [Jobs -> Terms]
    /\ bookEscrow \in [Actors -> Int]
    /\ bookLocked \in [Jobs -> [Actors -> Int]]
    /\ bookIssued \in Nat
    /\ bookBurned \in Nat
    /\ slashing \subseteq RowIds
    /\ slashLog \subseteq RowIds
    /\ jobMem \in [Jobs -> JobStates]
    /\ jobDb \in [Jobs -> JobStates]
    /\ queue \in Seq(Write)
    /\ completing \in [pc : {"checked", "mined"}, job : Jobs] \cup {Idle}
    /\ mined \in [Jobs -> Nat]
    /\ sweep \in [pc : {"idle", "listed", "read", "open"}, jobs : SUBSET Jobs,
                  row : RowIds \cup {None}]
    /\ up \in BOOLEAN
    /\ crashes \in Nat

\* A job has at most one open lock, and the two sides of a lock open and close
\* together, whatever the thread pool, the sweep and a restart interleave.
OneOpenLock ==
    /\ \A r \in RowIds : pairs[r].cs = "locked" <=> pairs[r].ws = "locked"
    /\ \A r, s \in RowIds :
         Open(r) /\ Open(s) /\ pairs[r].job = pairs[s].job => r = s

\* Every lock ever made, open or closed, moved exactly the numbers its worker
\* accepted, between two different parties.
LockedOnConsent ==
    \A r \in RowIds : pairs[r].cs # "none" =>
        /\ terms[pairs[r].job].status = "accepted"
        /\ terms[pairs[r].job].offer = pairs[r].offer
        /\ pairs[r].offer.c # pairs[r].offer.w

\* Outside a dispute the fee reaches a worker only for a job whose HEXIS was
\* mined: settle_complete runs after the mining, and the expiry sweep pays the
\* worker only on a completed row, which only a completion writes.
FeeOnlyForMinedWork ==
    \A r \in RowIds :
        pairs[r].feeTo = "worker" /\ pairs[r].cs # "slashed" => mined[pairs[r].job] > 0

\* What a dispute burned of a lock: the stake of the side at fault, all of it.
SlashedStake(r) ==
    (IF pairs[r].cs = "slashed" THEN pairs[r].offer.ca ELSE 0)
    + (IF pairs[r].ws = "slashed" THEN pairs[r].offer.wa ELSE 0)

\* dispute_slash reduces the ECU by exactly the slashed stakes: the burn account
\* stays the sum of what the stake rows say was slashed, also for a slash whose
\* slash_log row a restart or a busy database kept from being written, and
\* slash_log names no lock whose row says anything else.
SlashesAccounted ==
    /\ bookBurned = SumFunctionOnSet([r \in RowIds |-> SlashedStake(r)], RowIds)
    /\ \A r \in slashLog : "slashed" \in {pairs[r].cs, pairs[r].ws}

\* Every balance the tables hold is the one its entries produce: the escrow
\* balances actor by actor, the locked stake job by job and actor by actor.
LedgerIsExact ==
    /\ escrow = bookEscrow
    /\ \A j \in Jobs : \A a \in Actors :
         /\ \A r \in OpenOf(j) : bookLocked[j][a] = Share(pairs[r].offer, a)
         /\ OpenOf(j) = {} => bookLocked[j][a] = 0

\* An operation that moves ECU leaves the total alone, one that
\* issues or burns moves it by exactly that amount.
EcuConserved ==
    EcuTotal = SumFunctionOnSet(Opening, Actors) + bookIssued - bookBurned

\* What a lock paid out is final: no later step touches a closed pair.
ClosedIsFinal ==
    [][\A r \in RowIds : pairs[r].cs \notin {"none", "locked"} => pairs'[r] = pairs[r]]_vars

\* No lock is forgotten: whatever becomes of its job and of the process, a
\* lock is settled, unwound or slashed in the end.
LocksEnd == \A r \in RowIds : Open(r) ~> ~Open(r)

\* The bridge comes back after every crash: the boot reconcile never refuses.
ComesBack == ~up ~> up

\* No pair of actors has more than PairCap locks dated within a window that falls
\* short of PairWindow by the time a lock may wait for its transaction: a lock is
\* dated before it waits and counted against a clock read after. Within PairWindow
\* itself the code lets one lock too many through.
PairCapHolds ==
    \A r \in RowIds : pairs[r].cs # "none" =>
        Cardinality({s \in RowIds :
            /\ pairs[s].cs # "none"
            /\ pairs[s].offer.c = pairs[r].offer.c
            /\ pairs[s].offer.w = pairs[r].offer.w
            /\ pairs[s].at \in pairs[r].at - (PairWindow - LockWait) .. pairs[r].at})
          <= PairCap

-----------------------------------------------------------------------------
(* Refinement *)

\* How a pair of stake rows stands, to the two parties.
Standing(r) ==
    CASE pairs[r].cs = "none"    -> "none"
      [] pairs[r].cs = "locked"  -> "held"
      [] pairs[r].cs = "slashed" -> "consumer_faulted"
      [] pairs[r].ws = "slashed" -> "worker_faulted"
      [] OTHER -> IF pairs[r].feeTo = "worker" THEN "delivered" ELSE "unwound"

Contract == INSTANCE EscrowContract WITH
    Deals  <- RowIds,
    wallet <- escrow,
    deal   <- [r \in RowIds |-> [is |-> Standing(r), offer |-> pairs[r].offer]]

\* The tables, the ledger, the registry, the queue, the sweep and the restarts
\* together do no more than the contract says: every lock is paid out once, in
\* one of its four ways, and nothing else moves escrow.
ImplementsContract == Contract!Spec
=============================================================================
