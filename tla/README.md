# HEXIS protocol: a TLA+ model

HEXIS lets a consumer and a worker agree on a job, lock ECU for it on both
sides, do it, and be paid; a dispute slashes one side, and what a slash leaves
uncovered becomes a debt. A delivered job mints HEXIS, may be audited, and
leaves its trace in a hash-linked chain that anybody can check. The bridge
(`hexis_bridge_v0.6.2.py`, FastAPI) is one Python process over one SQLite file,
kept alive by systemd; the Trust API (`hexis_api_v0.6.1.py`) is another, with a
database of its own. This directory models the parts where the order of things
decides who ends up with the money or with the proof, checks them with TLC on
small instances, and proves the most important of the results with TLAPS for
every instance.

    tlc -workers 2 -config MCJobEscrow_serial.cfg MCJobEscrow
    tlapm JobEscrow_proofs.tla

`PROJECT.json` lists the components, the runs, the mutants (one plausible bug
per property, which the property must find), the source lines behind every
definition, the hazards and the theorems.

## 1. The system

### Processes and how they interleave

- Routes written as `async def` (`/job/request`, `/job/{id}/complete`,
  `/worker/register`, `/consumer/register`, `/audit/claim`,
  `/audit/{id}/verdict`, the signature dependency) run on the event loop, one at a
  time between two `await`s.
- Routes written as plain `def` (all of `/stake/*`, `/severity/*`) run on a thread pool and interleave with each other and with the event loop.
- Background tasks on the loop: the write queue's flush, the stake expiry sweep,
  health and seal tasks. A separate thread pins records to IPFS.
- Shared state: SQLite (WAL; a transaction opened by `BEGIN IMMEDIATE` is atomic,
  a read outside one is not), the registries in `STATE` (memory, rebuilt from
  rows at boot; `STATE.jobs` is not rebuilt), the write queue between the two.
- Any step may be the last before a crash. systemd restarts the process, and the
  boot audits (ledger reconcile, registry collision) decide whether it serves.

### Components

| Component | State | Operations | Hard behaviour | What makes it correct |
|---|---|---|---|---|
| Bilateral stake and escrow, `hexis_stake.py` | escrow balances, stake rows of both sides, terms, slash log | propose, accept, lock, settle, abort, expire, dispute, credit, transfer | threads against the sweep against a completion; five ways to end a lock from four callers | one open lock per job; a lock moves what the worker accepted and pays out once, as agreed |
| Double-entry ledger, `hexis_ledger_entries.py` | signed legs per operation, by account | `ledger_op`, `reconcile` | legs and balances are written by different code paths | every balance is the one its entries produce; a boot after a crash is never refused |
| Job registry, completion, write queue, `hexis_bridge_v0.6.2.py` | `STATE.jobs`, `jobs`, the queue | request, complete, flush, restart | memory and disk diverge: full queue, lost batch, crash; a completion is three trips to the database | no fee for undelivered work, no mining for a dead lock |
| Signed writes and registries, `hexis_identity.py` and the bridge | signature rows, `STATE.workers`, `STATE.consumers`, their tables | verify and record, prune, register, reload | replays, late and early delivery, pruning, restarts | a request is served once; evidence is kept; an actor on disk can sign |
| Severity engine and repayment, `hexis_severity.py` | incidents, flags, reserve account | classify, eligibility, repay in three steps | every step is its own transaction on a thread pool | victims are made whole before an offender works again; the reserve covers what it owes |
| Sampling (PoSP), `hexis_sampling.py` | audits, assignments, validator stakes | open, claim, verdict, refund, resolve | votes, expiries and refunds in any order; three transactions per claim | the innocent are not harmed; a verdict has its votes and is final; the pool holds the locked stakes |
| Sampling epochs, `hexis_sampling.py` | epochs, their secrets, rows of the chain | roll over, commit, reveal, select | the epoch ends while a job is being delivered; a crash between the tables and the chain | what a reader recomputes from the chain is what was audited |
| Benchmark gate and mint, `hexis_geo.py`, `hexis_mining.py`, the bridge | challenges, flags in memory and on disk, energy and mints of a region | register, submit, spot check, request, complete, mint | a check in an executor beside the loop, the flag through the write queue, a restart | a job goes to a worker that earned it; a mint is counted |
| Audit chain and sealing, `hexis_audit.py` | hash-linked rows, signatures | log, seal on the host or with an offline signature, the four `record_*` commands, page | read-then-insert; the head moves while the signer signs | one line; a seal covers what it says; nothing is recorded twice |
| Chain verifier, `verify_audit_chain.py` | the pages it fetched | fetch, check | the chain grows between pages and within one | no false verdict about the hashes |
| HEXIS ledger and pin pipeline, `hexis_ledger.py` | mint index, pin queue, a thread | mint, enqueue, pin, retry, restore | two files, a crash between them, a provider that answers late or wrongly | every pending record is queued; what is called pinned is hosted |
| NEWFLOW core, `newflow_core.py` | blocks, balances, optimistic pool | build, apply, roll back, transfer, submit, challenge, resolve, settle | calls in any order: late blocks, forks, challenges of approved proofs | the books add up; only a verified proof settles |
| Trust API, `hexis_api_v0.6.1.py`, `hexis_reconcile.py` | keys, buckets, in-flight count, queue, cache, totals | submit, read, write in batches, invalidate, reconcile | tasks that run after the commit; a reconcile on a thread; a stop with a full queue | counts are exact; no stale answer; the reconcile's verdict is the truth |
| Rate limiter, cache, capacity guard of the bridge | counters | each one critical section under an asyncio lock | none that another component sees | not modelled (those of the Trust API are) |
| Boot audits and their record, in the bridge | append-only file | scan, report | none of their own | their verdict is modelled where it acts (`Boot`, `Reload`) |
| Formula, CIDs | none | pure functions | floating point | not modelled |
| Earlier versions, figures, one-off tools, site | none of the bridge's | reads | none | not modelled |

### How they interact

A lock asks the severity engine whether both parties may work, takes the terms
the worker accepted, and writes rows, balances and ledger legs in one
transaction. `/job/request` reads the open lock; `/job/{id}/complete` reads it,
mines, then settles. The sweep reads locks and the jobs table. A dispute slashes,
then reports an incident, then logs. `/severity/repay` moves escrow in and out of
the reserve through `StakeManager.transfer`. A
completion may open an audit; a verdict credits the validator, may take from the
worker and report an incident, and settles stakes out of the pool account. Everything that
writes passes the signature guard first. `/job/{id}/complete` also mints, by the
worker's country and history, and hands the mint to the index, the index to the pin
queue, and the queue to a thread. Every component logs into the audit chain, and
the boot reconcile of the ledger must reach it before the bridge serves.

## 2. What is modelled, and how it corresponds to the code

### JobEscrow and EscrowContract

`JobEscrow.tla` is the life of the money behind a job. One record of `pairs` is
one row of `consumer_stake` and one of `worker_stake`, inserted by the same lock.
`bookEscrow`, `bookLocked`, `bookIssued`, `bookBurned` are the running sums of the
ledger's legs, by account; `escrow` and the rows are what the tables say. Each
operation computes its legs (`LockLegs`, `SettleLegs`, `RefundLegs`, `SlashLegs`)
and `Post` refuses an unbalanced operation, as `LedgerOp` does. `feeTo` is a
history variable: who received the fee.

| Action | Code |
|---|---|
| `ProposeTerms`, `AcceptTerms` | the two halves of consent; `offer` is what the hash covers |
| `Lock` | `StakeManager.lock`: open row, terms, pair cap, two debits, two inserts |
| `AbortUnstarted`, `DisputeSlash`, `CompleteSettle` | the route handlers' endings |
| `LogSlash`, `LogSlashFailed` | the second transaction of a dispute, which may be refused by a busy database |
| `SweepList`, `SweepSkip`, `SweepReadFirst`, `SweepExpireFirst`, `SweepExpire` | `expire_stale` |
| `JobRequest`, `CompleteRefused`, `CompleteCheck`, `CompleteMine`, `CompleteSettle` or `CompleteUnsettled` | the job routes |
| `Flush`, `FlushLost`, `Submitted` | the write queue; a refused or lost statement is not reported to anyone |
| `Crash`, `Boot` | the process dies at any step; boot runs the reconcile, fatally |
| `Credit`, `Transfer` | the internal callers of the two methods |

Choices of atomicity, each read from the code:

- `ledger_op` takes `BEGIN IMMEDIATE`, so a whole ledger operation is one step.
- A lock reads the clock, then waits for that transaction up to the connection's
  timeout (`LockWait`, 10 s). Its rows are dated with the first reading (`t` of
  `Lock`), its terms and the pair cap are checked against a second one (`now`).
- `expire_stale` lists the stale jobs once (`SweepList`) and does not look at the age of
  a lock again: a job on the list whose lock was replaced has its new lock expired. The
  first pair is read by a `SELECT` that runs while no transaction is open, and is
  paid from that reading; its ledger operation opens the transaction of the whole
  sweep, so later pairs are read inside it. Jobs are taken in any order and in a
  step each: the code commits the whole list together, so the model allows more
  states, not fewer. The two `SELECT`s of `_locked_pair` are one step.
- `AbortUnstarted` compares ages with the present time. The code's reading may be
  earlier, which only refuses more; likewise the sweep's cutoff.
- A completion makes three separate trips to the database: check, mine, settle.
  Job routes are coroutines and cannot interleave with each other there (no
  `await` that yields between); the stake routes on the thread pool can.
- A queue flush is a prefix of the queue in one transaction; its statements touch
  one job's row each, so it is modelled statement by statement.
- `CompleteUnsettled` covers every way `settle_complete` may raise: no open pair,
  or a busy database.
- `JobRequest` overwrites a registered job, and does not compare its worker and
  fee with the lock, as in the code; `STATE.jobs` is empty after a restart.

`EscrowContract.tla` is the promise to the two parties, with no clock, queue,
ledger, registry or process: a deal takes what both put up, once, and pays it out
once in one of four ways. `JobEscrow` implements it (`ImplementsContract`): a
pair maps to a deal by `Standing`, `escrow` to `wallet`.

### SignedWrites

`rows` is `write_signatures` (nonce, received_at), `served` a history variable of
the times each request passed the guard. `Record` is `verify_signed_write` and
`_record_signature`; the guard's counter and `_maybe_prune` are `MaybePrune`, in
which a prune may fail (it is logged). The registrations verify without counting,
as in the code. Both registries, their tables and the queue between them are
there, with a boot that reads them, one that cannot (`BootBlind`), and the refusal
of an address in both. Requests are delivered any number of times, at any time.
A `Delivery` may arrive at another endpoint, with another body, in another actor's
name, or under a signature that covers less than the required components;
`Authentic` is what the verification then says. The guard and the two
registrations have no `await` between check and effect, so a delivery is one step.

### SeverityDebt

`reports` holds classifications between their count of prior incidents (a plain
`SELECT`) and their `INSERT`s; `repays` the calls of `/severity/repay` between
their steps: pay in, check the debt, allocate (one transaction), pay out victim by
victim. `StopReport` and `StopRepay` end a call anywhere. `Share` is the loop that
spreads an amount over the incidents, oldest first, skipping those that name no
victim. `reserve` is the balance of the account `SEVERITY_RESERVE`. A refused
repayment leaves its money in the reserve, as the code does.

### Sampling

`Sampling.tla` is the audit of a completed job. `audits`, `votes` and `stakes` are
the three tables; `escrow` holds the actors' balances and the two internal
accounts, `AUDIT_STAKE_POOL` and `SEVERITY_RESERVE`. `clawed` is a history
variable (what a conviction took), `incident` what its incident reports.

The audit routes are coroutines without an `await`, so only one call is ever under
way: `call` holds where it is and its local variables. Its steps are the
transactions it makes, and between them the thread pool may spend an actor's
escrow (`Spend`), a transfer may fail (`Fails`) or the call may end (`StopCall`: a
crash, or a transaction refused by a busy database).

| Action | Code |
|---|---|
| `MaybeOpen` | `maybe_open`, for a job the epoch's secret selects |
| `RefundStale`, then `PayStake`s and `MarkStakes` | `_refund_stale_stakes`, the start of every claim |
| `Assign`, then `LockStake`, then `StakeRow` or `DenyClaim` | the rest of `claim` |
| `SubmitVerdict`, then `Reward`, then `ClawRead`, `ClawTake`, `ClawReport` | `submit_verdict` and the bridge's callbacks |
| `ResolveStakes`, then `PayStake`s and `MarkStakes` | `_resolve_stakes` |

An actor of `Honest` completes a job with the right result and votes for it; the
others say anything. `Related` is what `independence_fn` and `same_pair_fn` answer
from the pairs that dealt (`Dealt`), the transfers the ledger shows (`Transferred`)
and the lookups that fail (`Unanswered`), for which both refuse. A claim without an audit to give ends after
its first steps. Stakes of one call are paid in any order, except that those
slashed come last, as in `release + slash`.

### AuditChain and AuditLog

`chain` is `audit_log` in order of `sequence`. A hash is the history it commits
to: `id` is the sequence of contents up to the row, so two rows have the same
`event_id` exactly when they agree on all that goes into it. `call` holds a
`log_action` between its read of the last row and its `INSERT`; `Insertable` is
the `UNIQUE` constraint on `sequence` and the primary key, and a refused insert
is an exception the callers swallow.

| Action | Code |
|---|---|
| `ThreadReads`, `ThreadInserts` | `log_action` from the audit wire; `LogFail` is any other exception |
| `Start`, `ReconcileReads`, `ReconcileInserts`, `Crash` | the bridge's start, `run_ledger_reconcile` at boot and every hour, `LedgerState.observe` |
| `SignHead`, `SealRemotely` | `GET /audit/chain/head`, the offline signature, `POST /audit/seal` at any later time, any number of times |
| `SealReads`, `SealWrites`, `SealFails` | `seal()` with the key on the host |
| `RecordDocumentSeal`, `RecordDesignation`, `RecordVoid`, `RecordAnchor`, then `OperatorReads`, `OperatorInserts` | the `record_*` commands: a check on one connection, then `log_action` on another |
| `ReaderStarts`, `FetchRows`, `FetchBounds`, `ReaderFails` | `fetch_full_chain` over `get_chain_page`, whose rows and bounds are two `SELECT`s |

`AuditLog.tla` is the promise: entries are appended one at a time, an attestation
is never taken back and the log itself says so in the same step. `ImplementsLog`
is the refinement.

### TrustApi

The event loop runs every coroutine of the service and no lock of its cache,
limiter or guard is held across an `await`, so a handler between two awaits is a
step: `Arrive` is the middleware, `Get` and `Submit` the endpoints with the
release of the slot, `Refuse` any other answer. `queue` and `batch` are the write
worker's; `Flush` is one transaction, after which the keys it touched are in
`dropping` until their `invalidate` tasks run. `FlushFails` rolls back, with or
without the invalidations begun. The reconcile runs on a thread and each of its
`SELECT`s is a step (`SelectEvents`, `SelectStats`, `SelectActors`,
`RecordVerdict`); `Seen` is the snapshot `read_snapshot` takes. `Stop` loses what
is in memory, `Tamper` is an edit of the file by hand.

### Newflow

Blocks are built from any tip, kept, and applied at any later time or never;
their hash is their history. `Valid` checks every settlement against the state
before the block, as the code does; `Rollback` undoes balances and spent jobs,
and leaves nonces, claims and the pool alone. The optimistic pool is `pending`,
`challenges`, `settled`, `slashed`; a proof is identified by its content and its
block, so the same proof submitted twice in a block replaces itself.
`ProcessPending` is both passes of `process_pending` over the dict.
`VerifyEach` and `SettleEach` go over the items the dict held when the pass began,
each item against what the ones before it left. `other` (what moved outside of
blocks), `created`, `burned`, `verified` and `forgetful` are history variables.
The module's initial states, steps and specification are `CoreInit`, `CoreNext`
and `CoreSpec`: its proofs share a module with those of `SignedWrites`, in which
no name may have two meanings.

### PinPipeline

`index` and `queue` are memory, `indexDisk` and `queueDisk` the two files, each
replaced as a whole by a write that may fail. The index is a sequence of entries, as in
the code: `event_id` is made of the job and the worker, so a job that is locked and mined
again has one event, two records (`EventOf`) and two entries. `IndexAdd` appends
whatever is there; who looks an event up (`OnPinned`, `Restore`) finds its
`First` entry; the queue takes an event once. `mint` is where `_index_and_pin` is
for each record. The thread takes a copy of the queue (`TakeAll`), skips what is
not due (`NotDue`), and pins (`Pin`: every configured provider is asked; an answer
may be ours, another, lost, or a refusal). `Failed`, `OnPinned` and `Done` are the
three ways on. `Crash` may come between any two writes; `Boot` reads the files,
with whatever providers are configured then, and `Restore` puts back old records
whose content lies in a directory.

### MintGate, SamplingEpochs and JobOutcome

`MintGate` has what stands before and behind a job. `Register`, `Issue`, `Submit`,
`SpotCheck`, `Activate` are a worker's way to its flag: `verify` reads the
challenge, computes in an executor, and updates the status later, while the
worker may try again. `Flush` is the write queue's share in it and `Stopped` a
restart that reads the registry, or cannot. `Request` gives a job only to a
benchmarked worker, or to one that memory does not hold: the code skips the gate
then. `Trusted` is the trust grade with its demo mode. A job that is registered may be
requested again and is then pending again, whatever became of it; whether its stakes
are locked is `JobEscrow`'s, so here any request may come at any time, which only
adds behaviours. `Mine` is `job_complete`'s mint: energy recorded, C decayed by earlier
mints and damped by the region's share, the mint cap, the index row, the count.
The bridge passes over an exception of the geo engine in each of its three calls
(`Raised`): without the energy the mint goes on, without an answer on damping
or cap it is undamped or uncapped, and a count that raises leaves the mint in the
index uncounted (`uncounted`). An index that raises, with or without its entry in
memory, ends the call and leaves the job pending (`FailDelivery`).
`CutDelivery` stops the process after any of these; a restart knows no jobs.

`SamplingEpochs` has `_current_epoch`, `maybe_open` and the rows they write into the
chain, one by one, each of which may fail (`missing`). `Drawn` says which jobs a secret selects.
`CutOpening` ends a call between its transactions and its rows.

Both have state and actions only. `JobOutcome` composes them: a completion mints
and logs (`Completed`), awaits, and then lets the sampling decide (`Sampling`), which may
raise and is passed over (`FailSampling`). In between, while the delivery is in
`delivering`, time passes, other jobs are completed, the same job is requested and
completed again, and the process may stop. (Those awaits are on locks of
asyncio, which need not yield when nobody holds them: the model yields always.)

## 3. The runs

Every bound is named in its module; the values are in the cfg files. All runs pass.

| Run | Specification | What it shows |
|---|---|---|
| `escrow_threads` | `Spec` | the code's own interleaving, the sweep's early read included: types and non-negative balances, one open lock, consent |
| `escrow_serial` | `FairSerialSpec` | with every read inside its transaction: the ledger is exact, ECU is conserved, the burn account is what was slashed whether or not the slash was logged, the pair cap holds over every window that is shorter than the configured one by the wait for a transaction, no fee without mined work, payouts are final, the contract is implemented, every lock ends, every crash is followed by a boot |
| `signed_writes` | `Spec` | no request is served twice, whatever part of it was altered on the way; evidence outlives the retention; registered actors can sign after a restart |
| `severity_serial` | `SerialSpec` | with one debt check per actor at a time: victims receive what the incidents record, nobody re-enters owing, sanctions only grow |
| `sampling_one` | `FairSpec` | one audit, actors that spend in between, one failure: no overdraft, nothing settled is rewritten, a validator that left gets its stake back |
| `sampling_pool` | `Spec` | two audits on one pool, one failure: the innocent are unharmed, verdicts are backed, the pool is exact |
| `audit_chain` | `Spec` | a reconcile, both sealers and a paging reader: one line, seals that belong to their rows, a verifier that is right about a moving chain, an append-only log |
| `audit_records` | `Spec` | a logging thread, one operator, restarts: nothing designated, voided, anchored or sealed twice; no serving before the anchor of this start |
| `trust_api` | `Spec` | exact counts, bounded cache, no accepted event unaccounted for, no stale answer without its invalidation under way, a reconcile that tells the truth about one version |
| `newflow` | `CoreSpec` | the chain's account of every balance and the whole of ECU through forks, rollbacks, challenges and slashes; only verified proofs settle |
| `pin_pipeline` | `LivePinSpec` | no event whose first entry is pending is forgotten, what is called pinned is hosted, what is queued is pinned in the end |
| `job_outcome` | `Spec` | only benchmarked workers are given jobs, every mint is counted once and for what it was but for those a stop or an exception left uncounted, the selection of every epoch can be recomputed from the chain |

**Bounds of the escrow runs.** Two rows let a job be locked, ended and locked
again, or two jobs be locked at once. Stakes 1
and 2 and fee 4 (or 8): no two different sets of legs have the same sum, so a
missing or swapped leg shows. In `escrow_serial`, `PairCap = PairWindow = LockWait = 1`:
the smallest cap that both refuses and admits a second lock, with a lock that may wait
across the edge of the window. `LockTTL` is 0 there and 1 in `escrow_threads`,
`TermsTTL` 2 and 1, `AbortMinAge` 1, with a clock to 3: an abort, an expiry, a lock
replaced on the sweep's list and an expired agreement all occur. `escrow_threads` checks
nothing about dates and has `LockWait = 0`. A queue of one is full after one
statement. One completion of a job may be mined, one restart may happen; the
transfer amount 12 leaves a side that had a grant too poor to fund a lock; a grant is at most `GrantCap = 3`. `escrow_threads` leaves out credits, transfers and restarts, which
`escrow_serial` has; `escrow_serial` has one job and one offer, which suffices
because the properties it adds speak of one lock, one account or one pair.
Symmetry (rows and jobs) is used only in runs without liveness.

**Bounds of `signed_writes`.** The retention is the shortest the code accepts
(`MaxAge + ClockSkew`), where a row goes at the first moment it may; every second
write prunes; clients are off by the full skew, either way; three requests are a
first delivery, its replay's competitor and the write that prunes.

**Bounds of `severity_serial`.** Two incidents give a recurrence (threshold one)
and an order to pay in; one may name no victim. Two repayments with amounts 1 and
2 cover part, all and more than is owed; the tiers reach quarantine, debt and the
blacklist.

**Bounds of the sampling runs.** Three actors audit each other, two honest, one
not. Two partners never audit one another, and one lookup fails, so that each audit
has validators it may and may not have. A quorum of two is the smallest above one
vote. Everyone can pay one stake and not two, so a second claim may be denied; one
expiry is shorter than the other, and the clock runs past both. Audits are opened
at the start, which is when their age differs most from their assignments'. One
failure reaches every way a call can be left half done.

**Bounds of the audit runs.** Five rows with pages of two: three pages, a full one
that is the last, a page that grows between its two `SELECT`s. In `audit_chain` the
reconciler and two sealers are three writers that interfere (one reads and
inserts, two append within their transaction), and one signature is captured and
posted again at every later point. In `audit_records` an operator's command meets
another thread's rows between its check, its read and its insert; two keys, one of
them in force, two digests of one document, a second start. One operator is a
limit of the result, see section 5. The proofs have no such bounds.

**Bounds of `trust_api`.** One actor and one key, two requests for one slot, a
queue of one, batches of two, a cache of two entries for four keys with an order
list of three; windows of one and two seconds and answers that expire at once or
after a second, with a clock to 1: an entry exactly at its window's edge occurs.

**Bounds of `newflow`.** Three accounts, one of them the validator and the faucet;
two jobs that verify, one whose price was not agreed; one right and one fake
proof; a window of one block and a pool of two submissions and two challenges, so
that a proof is approved, challenged, lost and verified again. `CONSTRAINT
OneSide` keeps a behaviour on the side of the chain or on that of the pool, both
beside a transfer that pays a fee: the two share the balances only, and neither
reads what the other writes but the balance of a payer, which transfers move as
well. A transfer whose fee is below zero, and worker profiles, come without
either. The theorems have no such constraint.

**Bounds of `pin_pipeline`.** One new mint of an event of its own, one old record that
its provider had encoded itself, and one mint of the old record's job: an event with
two records and two entries, the first of which the boot may restore. Two providers,
configured both or not at all; an answer is given by each. One crash or stop.

**Bounds of `job_outcome`.** Two benchmarked workers in a poor and a rich country and a
newcomer; two jobs, one of which is worth a mint only where C is 1 or more; three
epochs of length one; one row of the chain is lost; one restart, readable or not;
three calls that may mint. The mint cap is 40 percent among at least one actor, so that
it both admits and refuses; a worker whose first mint is damped falls below
`MinTrust = 100` and is refused from then on. `CONSTRAINT OneSide` keeps a
behaviour on one of three sides: a newcomer's registration (`GateSide`: it meets the
rest in `Request` only, whose gate reads the flag and the score); one job requested and
mined up to three times with rewards, stops and raising calls, while no epoch opens
(`MintSide`: what a mint comes to does not touch the selection); two jobs of one worker, or
one job twice, through three epochs with a lost row, exceptions of the sampling
and a stop (`SelectionSide`). The theorems have no such constraint.

**Fairness** (`FairSerialSpec`). `Tick`: time passes. `Boot`: the unit file says
`Restart=always`. `SweepList`, and `SweepSkip` or `SweepExpire` of some job: the sweep
is a loop that runs for as long as the process does and swallows its errors. No client is assumed to do anything: that a
lock ends rests on the sweep alone. The clock is bounded in the runs; every lock
is stale before it stops (`ProposeBy` and `TermsTTL` end the making of locks
early enough).

**Fairness** (`FairSpec` of `Sampling`). `Proceed`: a call that has begun goes on,
or is stopped. `Tick`: the clock moves on between calls (strong, because calls
keep coming). Some validator keeps asking for audits: this is the premise of
`AbsentStakeReturns` and not a fact of the code, which has no other caller of the
refund.

**Fairness** (`LivePinSpec` of `PinPipeline`). Weak: systemd starts the process and the
boot runs on, the pin thread runs on, backoff times pass. Strong, on the
environment: providers that are asked again and again confirm at last, an index
that is written again and again is written at last. (The queue's file is not
assumed to be: an entry left in it is pinned again after a restart.) `EventuallyPinned` assumes
besides that from some time on a provider is configured, and speaks of what is in
the queue's file: what was lost before it got there is in `missed`. A file in
`record_restore/` is in the end renamed.

**Deadlock** is not checked: with a bounded clock and bounded counters every
instance comes to rest.

## 4. What is proved

Assumptions: the named `ASSUME`s of each module. They type the constants, say that
the keys of tables are finitely many (`Actors`, `Jobs`, `RowIds`, `Repays`,
`Workers`, `Countries`, `Accounts`: a sum over the rest would not be defined), keep the
marker `None` apart from data, and repeat two facts of the code: `Retention >= MaxAge +
ClockSkew`, which `prune_write_signatures` enforces by raising, and that C of every
country lies between `C_MIN` and `C_MAX` (`hexis_mining.py:112`). All results hold
for any number of actors, jobs, rows, requests and any values of the bounds. The
`CONSTRAINT`s of the runs play no part in them.

Every safety property the runs check is a theorem here.

**`Sums_proofs`.** Lemmas on `SumFunctionOnSet`, on which every statement about money
rests. The sum folds a set in the order `CHOOSE` gives, and the library's induction
theorems cannot be used here (they take an operator); so each lemma takes a least
counterexample among the subsets of a finite set (`LeastSubset`), which the
well-founded order of the naturals gives. That the order does not matter is
`SumRemove`; from it follow what one changed addend does (`SumChange`), sums by
class (`SumByClass`), by another name of the elements (`SumRename`) and comparisons.

**`JobEscrow_proofs`, under the code's interleaving (`Spec`).** `TypeCorrect`,
`AtMostOneOpenLock`, `ConsentBeforeLock`, `FeesEarned`,
`PairsCapped`. The inductive invariant of the first three is `StructureInv`. It joins
them, because each needs the others (a
balance stays natural only if the row being paid was funded by accepted terms
between two different parties), and adds two facts: proposed terms name two
different parties, and a sweep between its read and its payment holds a row that
exists. Every step is one of five kinds (quiet, bank, consent, lock, ending), so
that the case split over the actions is made once. A fee is earned because wherever a
completion stands, in the handler, in the write queue or in the table, its job
was mined (`CompletionsMined`). The cap counts the rows of a pair in the window before the second
reading of the clock, and the new row is dated by the first: a row that shares a window of
`PairWindow - LockWait` with the new one is dated within `PairWindow` of the clock and
is counted, whether it is open or has ended (`CapStep`); an ending keeps parties and
time (`EndingsKeep`).

**`JobEscrow_proofs`, with serial reads (`SerialSpec`).** `LedgerExact`,
`PayoutIsFinal`, `Implementation`, `EcuIsConserved`, `SlashesAreAccounted`,
`ReconcileAgrees`. The inductive
invariant is `StructureInv` and
`LedgerIsExact` together: an ending takes exactly its job's legs off the locked
accounts because, by `OneOpenLock`, no other row of the job is open. The
difference to `Spec` is the sweep's early read only; with it they fail
(section 5). `ReconcileAgrees` is what the boot reconcile asks: it adds that the
locked accounts agree with the sum of the open rows (`LockedAgrees`), and is the safety
half of `ComesBack`, since a boot that is refused never serves. For
`SlashesAreAccounted` only a slash burns, and it burns the one stake its row then names
(`EndsBurn`); what is in the log or waits for it is a slashed row, which no ending
touches again.

**`Accounts_proofs`, on `SignedWrites`.** `TypeCorrect`, `NoReplay`, `EvidenceSurvives`,
`RegisteredCanSign`.
`ServedOnce` alone is not inductive: a replay is refused because the row of the
first delivery is still there (`EvidenceKept`), and it is still there while the
signature is fresh because a signature is stamped at most the skew ahead of its
delivery (`StampedInTime`). This is where the retention's bound is used. A
registered actor can sign because a row on its way to SQLite is of an actor memory
already holds (`QueueKnown`), and a restart empties the queue.

**`Accounts_proofs`, on `Newflow`.** `CoreTypeCorrect`, `BooksAddUp`,
`VerifiedFirst`, for any genesis, jobs, proofs, fees and stakes (of any sign, as
the code takes them), window, and blocks and pools of any length. Neither property
is inductive. `CoreInv` replaces the total of ECU by what is outside of it: what
moved outside of blocks is what the pool holds, made or lost (`MoneyInv`); the
total follows because a settlement moves ECU between two accounts, so the blocks
on the chain sum to nothing (`MoneyAddsUp`, by exchanging the sums over blocks, settlements
and accounts). That a rollback restores every balance is the sum over a list
cut in two (`FlowOfSplit`), and it frees exactly the popped jobs because no job is in two
blocks. For the pool, `PoolInv` says that one proof has one item (the dict's key), that only
right proofs were ever verified, and that an entry `settled` or `slashed` in the
ledger tells the truth; `CountInv` that a submission leaves the pool in one way.
`process_pending` goes over a dict it changes: `VerifyPass` and `SettlePass` show by
the least position that fails that each item is still there when its turn
comes and that its step keeps the pool sound, its worth and its count.
`UpTo` replaces the induction theorem on naturals, which the provers cannot
instantiate; `KeptFacts` says what a filtered list holds.

**`SeverityDebt_proofs`, under the code's interleaving (`Spec`).** `SanctionsGrow`,
`VictimsAreSafe`. What an incident adds is computed from a count made before its
INSERT. The first proof
shows that this does not matter to the sanctions: whatever was counted, the end of a
quarantine is a time, the later of the two ends is kept, and a repayment touches the
debt only (`SanctionInv`). For the second, the shares of one repayment add up to its
amount or exhaust what is owed (`SharesAddUp`, from the recursion over the incidents
oldest first), no share exceeds what its incident still lacks, and the reserve
holds what every call brought and has not paid out (`ReceiveInv`). It needs no
assumption about the order of calls.

**`SeverityDebt_proofs`, one debt check per actor at a time (`SerialSpec`).**
`PaidIsWhole`. The recorded debt is never below what the incidents lack, and a repayment
between its check and its allocation is no larger than that debt (`DebtCovers`); two
checks of one actor break exactly this (section 5).

**`Sampling_proofs`.** `TypeCorrect`, `NoInnocentHarmed`, `BackedVerdicts`,
`FinalVerdicts`, `ExactPool`. The inductive invariant says of each audit (`AuditSound`)
who may
have voted and what its status and its stakes rest on, and of an innocent worker's
(`AuditHarmless`) that nothing was taken. What makes it inductive is what holds in the
middle of a call: the audit being assigned is still assigned and its validator has
not voted (`CallOK`); every stake about to be paid is still locked, and one about
to be slashed is a dissenter's (`PlanOK`). That a conviction of an innocent needs
a quorum of liars is where honest votes and the cardinality of `Actors \ Honest`
meet. Failed transfers and calls cut short are allowed without a bound. `ExactPool`
counts the locked stakes against the pool's balance through every step of a call
(`PoolInv`); it needs that nobody takes an audit in which a stake of its own still
waits, since its new row would replace the old one.

**`Records_proofs`, on `AuditChain`.** `Sound`, `IsLog`, `Anchored`, `ReadSoundly`,
`RecordedSoundly`. `ChainSound` needs two facts
more: nothing that calls `log_action` writes a seal record (`SealsOnlyByHalves`),
and a row's history is as long as the row is far from the start, so that no two
rows share an `event_id` (`HashLengths`). An insert succeeds only if the row that
was read is still the last: by `ReadFromChain` what was read is some row k, by
`OneLine` row k + 1, if there is one, has the sequence the insert wants, and
`Insertable` refuses it. The newest row is never signed, so the head both sealers
look for is the newest row, which is what makes a captured seal useless a row
later. The refinement (`IsLog`) then serves `Anchored`: a record that reached the
chain stays where it is. What a reader has fetched is the beginning of the chain, but
for signatures set since (`ReaderInv`), through any number of pages.
`RecordedSoundly` has the hypothesis that there is at most one operator: what its check
found is still so at its insert (`RecordInv`), since no other caller writes records of
these kinds. With two it is false (section 5), and it is the only theorem with a
hypothesis.

**`Records_proofs`, on `PinPipeline`.** `Remembered`, `PinnedTruly`.
`NothingForgotten` is about
each index with its own queue, and a write of one file from memory or a restart
mixes the four: so both indexes go with the queue in memory (`KeptAnyway`), what is
queued in memory is queued on disk unless its write was lost (`QueueWritten`),
which every event the file has memory has too (`Known`), and the event the thread is
about to take off the queue is pending in neither index (`Handled`). All of it is about the
first entries, which are what the code's lookups find; a second entry changes
nothing that they see.

**`JobOutcome_proofs`.** `OnlyEarned`, `CountedOnce`, `Provable`. A flag is raised from a
queued write or by a
submission the spot check has cleared, so both must already belong to a worker
that earned it, and a check under way must be of a submission in time
(`EarnedOnTheWay`). `CountedOnce` compares an index that only grows with the rows of the cap's count,
and the calls that were cut or raised between the two; what a score may be, damped or
not (`WorthIts`), is where the bounds of C are used. For `Provable`, epochs follow one
another and only the last has no reveal (`EpochsInOrder`); every row of the chain and
every delivery under way tells of what happened (`RowsTrue`, `DeliveriesTold`), every
selection that ran was made by the epoch of its time and on a delivery's row
(`RanRight`), an audit has its opening in the chain or that row is among the lost, and
every opening in the chain is of a selection that ran (`AuditsOpened`,
`OpeningsRan`), and an opening's row stands
between the commitment and the reveal of the epoch that drew it (`OpenedBetween`),
whichever rows are lost.

**`TrustApi_proofs`.** `Current`, `Bounded`, `VerdictIsTrue`, `MemoryIsSound`. The
eviction loop takes keys off the front
of an order list on which a key may stand several times and keys stand that are no
longer cached. `CacheOK` says that every cached key is on it, so the loop reaches a
prefix that leaves room (`EvictionFindsRoom`, by the least such prefix), and what it
leaves on the list covers what it leaves in the table (`SetOK`). For `Current`, a
batch changes only answers whose keys it hands to the invalidate tasks.
`VerdictIsTrue`: the totals per actor and the overall ones are sums of the same events by
two classifications (`TiedIsConsistent`), and each `SELECT` of the reconcile reads the
version its first one saw (`ReconOK`). `MemoryIsSound` joins the accounting of events
(`BooksRight`), the rate limit, where the bucket holds at least one entry for each accepted
event of every window that still matters (`BucketCovers`), and the counters.

**Only model-checked.** Liveness (`LocksEnd`, `ComesBack`, `AbsentStakeReturns`,
`EventuallyPinned`) is out of the prover's reach.

## 5. Where the code and its comments disagree, and what it does not promise

The properties of the runs are stated for what the code does keep. What follows was
met while modelling and is visible in the actions; the first group is reachable in
the models as they are, by checking the property named under the specification
named.

**Money and locks.**

1. The sweep pays from a stale read (`hexis_stake.py:871`): a settlement between
   its first read and its transaction pays the lock twice. `LedgerIsExact` under
   `Spec` of `JobEscrow`; this is why it is stated for `SerialSpec`.
2. A second lock of a job expires on the first one's status (`hexis_stake.py:879`):
   only an open row refuses a lock, terms are not consumed, `jobs.status` stays.
   `FeeOnlyForMinedWork` says what remains true.
3. Mined after the lock was slashed (`hexis_bridge_v0.6.2.py:4613`): the check, the
   mining and the settlement are three trips.
4. Two repayments pass the check on one debt (`hexis_severity.py:285`), and a later
   incident is cleared unpaid. `MadeWhole` under `Spec` of `SeverityDebt`.
5. A stake is found stale by the age of the audit, not of the assignment
   (`hexis_sampling.py:692`): the stake of a validator at work is returned.
   `InnocentUnharmed` and `PoolIsExact` hold nevertheless.
6. `hexis_stake.py:665` speaks of one lock per job; a job can be locked again on the
   same terms after an ending. A job whose terms expired can never be proposed
   again (527-533, 578, 627). An accepted job whose row is still in the queue can be
   aborted (823). A completion whose settlement failed and whose status was lost
   refunds the fee at expiry. A repayment refused with 400 has already paid in. Both
   parties of a lock are found eligible before its transaction (658), a dispute
   may come between. The sweep lists stale jobs once (864) and does not look at the age
   of what it expires (871): a job that was settled and locked anew in between loses its
   fresh lock. Prior incidents are counted before the `INSERT`
   (`hexis_severity.py:184`): two disputes of one actor may count the same.
7. The pair cap lets more locks through than configured when one waits for its
   transaction: `now` is read at `hexis_stake.py:660`, `BEGIN IMMEDIATE` at 664 waits up to
   ten seconds, the count reads the clock again (465) and the row is dated with the
   first reading (716). A lock that was dated before the window's edge moved and counted
   after it makes one too many. `PairCapHolds` therefore speaks of windows that are
   `LockWait` shorter; for `PairWindow` itself it fails in `MCJobEscrow_serial.cfg`.
8. The row of `slash_log` is written in a second transaction (986-994). When that is
   refused by a busy database, the call fails, the money is gone and no log row says
   so. `SlashesAccounted` says what remains: the burn account and the stake
   rows agree whatever the log has.

**Sampling.**

9. A stake whose release failed is marked as returned, because the callback answers
   `False` and nobody looks (`hexis_sampling.py:708`, 769; the comment at 772 says it
   stays locked). Assignment, transfer and stake row are three transactions (557): a
   crash after a stake is paid and before it is marked pays it twice. The clawback
   reads a balance and takes from it later (`hexis_bridge_v0.6.2.py:3511`), and one
   that failed is reported as money taken (3520). A voter's stake in an audit that
   was contested, claimed again and abandoned waits for a verdict, whenever that
   comes.
10. `_posp_independent` looks for accounts between which ECU moved, by opposite legs
    of one operation. A lock's two legs have the same sign and a fee passes through
    the locked account, so a job's payment never matches: it is the pair's activity
    record that tells the parties of a job apart, and the ledger signal finds direct
    transfers only (`Transferred` against `Dealt` in `Sampling`).
11. The commitment of an epoch is not in the chain before every job it decides: the job
    that rolls the epoch over was logged before the commitment, and a job whose
    completion straddles the end is decided by the next secret.
    `SelectionProvable` says what a reader can and cannot recompute. A commitment or
    reveal whose row was not written is not written again.

**Identity, gate and mint.**

12. One address may hold two roles (`hexis_bridge_v0.6.2.py:4055`): the worker
    endpoint does not look at the consumers. The boot refuses it, later.
13. A failed or expired challenge tells the worker to register again
    (`hexis_geo.py:378`), and registration answers 409 to an address it knows
    (`hexis_bridge_v0.6.2.py:4055`): no call gives it another challenge. The same
    holds after a crash between the passed challenge and the flag. Of two
    submissions of one worker the later overwrites the earlier's status.
14. After a boot that could not read a registry, known actors may register anew, a
    worker memory does not hold is not asked for its benchmark (4474), and its mint
    is scaled by the default country.
15. C's decay and damping multiply, so that a C above 1 can end below it; the comment
    beside the decay (1686) says that only the part above 1 fades. A mint cap of two percent
    refuses every further mint of a region with 3 to 50 equal actors. A retried
    completion records its energy twice. A mint of a PoSP reward does not invalidate the
    cached trust answer.
16. The bridge passes over what the geo engine raises: a count that fails leaves the mint
    in the index uncounted (`hexis_bridge_v0.6.2.py:1726`), a failure of damping or cap
    mints undamped or uncapped (1714), energy that is not recorded (4672) lowers the
    region's share. An index whose file cannot be written keeps the entry in memory and
    fails the call with the job still pending: a completion that is retried mints again.
    `/job/request` overwrites a registered job (4532), so a job whose lock is open, or that
    was locked anew, can be mined more than once. `MintsCounted` counts the mints that
    have no row (`uncounted`) and holds in all of these.
17. A worker with no score is accepted in demo mode (4487); one whose first mint is
    below the trust floor is refused from then on.

**Audit chain.**

18. The header of `hexis_audit.py` (9-11) says events are written in the same
    transaction as the operation; `log_action_within` has no caller and `log_action`
    opens its own. An event that loses the race for its sequence is lost.
19. The verifier compares its rows with a count taken with the first page and looks
    for seals of rows it fetched earlier: it may report a failure about a chain
    that moved while it read. `ReaderSound` claims these two checks for a chain
    that stood still, the hash checks always.
20. Two operators at once violate `RecordsSound`: each command checks before it
    reads the last row. Sealing with an offline signature is refused when the chain
    moved on since the head was fetched (`hexis_audit.py:775`); under steady traffic
    it may never succeed.

**Trust API.**

21. `_flush` invalidates the key `leaderboard`, and leaderboards are
    cached under keys that carry their limit: they are served until they expire. The
    cache evicts in order of insertion, though called LRU. Rate buckets are in memory:
    a restart forgets them.

**NEWFLOW core.**

22. `validate_block` checks each settlement against the state before
    the block: two settlements of one job, or of a consumer who can pay one of them,
    pass together. A consumer is not asked again at settlement and may go negative
    (`newflow_core.py:1118`). A slash pays the validator a stake nobody took from it
    (1054; the docstring at 1048 speaks of the worker's). The same proof submitted twice
    in a block burns the first stake, and a settled proof may be submitted again. A won
    challenge leaves no entry in the ledger. A rollback leaves nonces and faucet
    claims. `validate_transfer` does not ask that a fee is not negative
    (`newflow_core.py:716`; the field's comment at 411 says "may be 0"): the sender is
    credited with it, and nobody debited; the bridges build transfers with fee 0
    only. The validator's share of a slash is half its balance, so a negative balance
    makes it negative (1189). `BooksHold` counts all of these exactly, in the terms `other`,
    `created` and `burned`: it accounts for them and would not find them. What it finds is
    any step that moves ECU in another way than these do.

**Pin pipeline.**

23. A job that is locked and mined again has the same `event_id`
    (`hexis_bridge_v0.6.2.py:1618`). `LocalIndex.add` appends a second entry
    (`hexis_ledger.py:576`) and `set_pinned` stops at the first (591-601): the second
    stays `pending` for ever, with nothing queued and no write lost, and the first may carry
    the address of the second's record. A record that is queued while one of its event is,
    is not queued at all. `NothingForgotten` speaks of first entries, and
    `PinnedIsHosted` of an address of the event, for this reason.
24. `IPFSClient.pin` returns `None` when no provider
    confirms, its docstring says the CID is returned even then (`hexis_ledger.py:307`); `HexisLedger.retrieve` calls a method `IPFSClient` does not have. An index
    entry whose write failed stays in memory and is gone after a restart. A
    queue write that failed, followed by a crash, leaves a record `pending` for ever
    (`missed`). A restore whose index write failed counts as refused and its file is set
    aside; unless a later write of the index succeeds, the content is gone with the
    next restart.

## 6. What is left out, and why

- In `JobEscrow`: the eligibility question before a lock (`SeverityDebt` has it),
  the chain balances of the reconcile, HTTP, logging, audit entries.
- In `SignedWrites`: cryptography and encodings, the contents of a registration,
  the faucet.
- In `SeverityDebt`: floating point (amounts are integers, the code rounds to
  eight places), the configuration table (it is the constants).
- In `Sampling`: the HEXIS mined for an audit, the incident beyond its amount,
  stakes of zero (the default gate: nothing is locked), `set_config`.
  Independence does not change while an audit is open.
- In `AuditChain`: key files and their rotation, the bytes that are hashed, the
  age checks of the verifier and what it prints.
- In `TrustApi`: leaderboards with other limits, key tiers, the usage page, the
  route audit, the tolerance of the reconcile's comparison.
- In `Newflow`: wallets and signatures, Base58, block rewards, all but one of the
  ledger's queries, job commitments beyond what was agreed.
- In `PinPipeline`: the bytes of a record and the CID computed from them, summaries,
  the older store.
- In `MintGate`: the scores that make a job's worth (one number), `wipe_hexis` and
  the consumer's mint, which nothing calls.
- Not modelled: the bridge's rate limiter, cache and capacity guard (one critical
  section each, no partner), the source scanners of the boot audits, the formula
  and CIDs (pure functions of floating-point numbers and bytes, no control), the
  earlier bridges and APIs kept for reference, figures, one-off tools and the
  site.

## 7. What would come next

1. A composition of `JobEscrow`'s lock with `SeverityDebt`'s gate: what an actor
   barred between the question and the lock can still do, bounded by one lock.
2. What the refinements of the escrow and the log do not say yet: that an outcome of
   `EscrowContract` is final under the code's interleaving but for the sweep's first pair.
