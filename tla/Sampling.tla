------------------------------- MODULE Sampling -------------------------------
(***************************************************************************)
(* Proof of sampled computation: a completed job is audited by validators  *)
(* who run it again, vote, and stand to lose a stake.                      *)
(*                                                                         *)
(* Sources: hexis_sampling.py (maybe_open, claim, submit_verdict,          *)
(* _refund_stale_stakes, _resolve_stakes) and of hexis_bridge_v0.6.2.py    *)
(* the callbacks it is given (_posp_reward, _posp_clawback,                *)
(* _posp_validator_stake) and the two audit routes.                        *)
(*                                                                         *)
(* The routes are coroutines without an await, so the event loop runs one  *)
(* call at a time and no two calls interleave.  But a call is many         *)
(* transactions: the audit's row, each movement of money and the stake's   *)
(* row are written one after the other.  The thread pool spends escrow in  *)
(* between, a transfer can fail, and a call can end after any of them.     *)
(***************************************************************************)
EXTENDS Integers, FiniteSets

CONSTANTS
    Actors,           \* workers, each a validator of the others
    Honest,           \* actors that run the workload and report what they get
    Dealt,            \* pair_activity: <<consumer, worker>> of every lock there was
    Transferred,      \* <<a, b>> with opposite escrow legs in one ledger operation
    Unanswered,       \* <<validator, worker>> for which a lookup raises
    Audits,           \* audits, one for each sampled job
    Results,          \* what a run of the workload may be said to return
    Right,            \* what it returns
    None,
    Pool,             \* AUDIT_STAKE_POOL
    Reserve,          \* SEVERITY_RESERVE
    Opening,          \* escrow of each actor at the start
    Stake,            \* validator_stake
    Fee,              \* audit_fee
    Value,            \* job_value_ecu
    Quorum,           \* fail_quorum_n
    AuditExpiry,      \* audit_expiry_s
    ContestedExpiry,  \* contested_expiry_s
    SpendAmounts,     \* what actors spend elsewhere
    OpenBy,           \* bound: no audit is opened after this time
    MaxTime,          \* bound: the clock stops here
    MaxFaults         \* bound on failed transfers and calls cut short

ASSUME SamplingAssumption ==
    /\ IsFiniteSet(Actors)
    /\ Honest \subseteq Actors
    /\ Dealt \cup Transferred \cup Unanswered \subseteq Actors \X Actors
    /\ Right \in Results /\ None \notin Results \cup Actors \cup Audits
    /\ Pool \notin Actors /\ Reserve \notin Actors /\ Pool # Reserve
    /\ Opening \in [Actors -> Nat]
    /\ {Stake, Quorum} \subseteq Nat \ {0}
    /\ {Fee, Value, AuditExpiry, ContestedExpiry, OpenBy, MaxTime,
        MaxFaults} \subseteq Nat
    /\ SpendAmounts \subseteq Nat \ {0}

VARIABLES
    now,
    audits,     \* sampling_audits
    votes,      \* sampling_verdicts
    stakes,     \* sampling_stakes.status
    escrow,     \* balances, the two internal accounts included
    clawed,     \* what a conviction took from the worker
    incident,   \* the slashed amount its incident reports
    call,       \* the call the event loop is in the middle of
    faults      \* failed transfers and calls cut short so far

ledger == <<escrow, faults>>
tables == <<audits, votes, stakes>>
convictions == <<clawed, incident>>
vars == <<now, tables, ledger, convictions, call>>

Final == {"passed", "failed"}
AuditStatuses == {"none", "pending", "assigned", "contested"} \cup Final
StakeStatuses == {"none", "locked", "released", "slashed", "refunded"}

Audit == [status : AuditStatuses, worker : Actors \cup {None}, result : Results,
          validator : Actors \cup {None}, created : Nat, assigned : Nat]
NoAudit == [status |-> "none", worker |-> None, result |-> Right,
            validator |-> None, created |-> 0, assigned |-> 0]

\* A stake to give back or to slash.
Payment == [audit : Audits, by : Actors, to : {"released", "slashed", "refunded"}]

Steps == {"idle", "assign", "lock", "row", "deny", "reward", "claw", "take",
          "report", "resolve", "pay"}
Call == [pc : Steps, who : Actors \cup {None}, audit : Audits \cup {None},
         prev : AuditStatuses, amount : Nat,
         plan : SUBSET Payment, done : SUBSET Payment]
Idle == [pc |-> "idle", who |-> None, audit |-> None, prev |-> "none",
         amount |-> 0, plan |-> {}, done |-> {}]

Init ==
    /\ now = 0
    /\ audits = [a \in Audits |-> NoAudit]
    /\ votes = [a \in Audits |-> [v \in Actors |-> None]]
    /\ stakes = [a \in Audits |-> [v \in Actors |-> "none"]]
    /\ escrow = [x \in Actors \cup {Pool, Reserve} |->
                    IF x \in Actors THEN Opening[x] ELSE 0]
    /\ clawed = [a \in Audits |-> 0]
    /\ incident = [a \in Audits |-> 0]
    /\ call = Idle
    /\ faults = 0

\* Partners of one another, whichever of them was the consumer.
HaveTransacted(a, b) == <<a, b>> \in Dealt \/ <<b, a>> \in Dealt

\* Either lookup that fails answers as if the two were partners.
SamePair(v, w) == HaveTransacted(v, w) \/ <<v, w>> \in Unanswered

\* No ECU ever went from one account straight to the other.  A job's fee goes
\* through the lock and is no such movement; SamePair is for that.
Independent(v, w) ==
    /\ v # w
    /\ <<v, w>> \notin Transferred /\ <<w, v>> \notin Transferred
    /\ <<v, w>> \notin Unanswered

\* <<validator, worker>> that one may not audit the other.
Related == {p \in Actors \X Actors : SamePair(p[1], p[2]) \/ ~Independent(p[1], p[2])}

\* Mutant of Covered: a debit does not look at the balance.
CoveredAlways(x, n) == TRUE

Covered(x, n) == escrow[x] >= n

\* StakeManager.transfer, in a transaction of its own.
Moves(x, y, n) ==
    /\ Covered(x, n)
    /\ escrow' = [escrow EXCEPT ![x] = @ - n, ![y] = @ + n]
    /\ UNCHANGED faults

\* It raises when the balance is short or the database stays busy, and every
\* caller goes on without the money having moved.
Fails(x, n) ==
    /\ UNCHANGED escrow
    /\ \/ ~Covered(x, n) /\ UNCHANGED faults
       \/ faults < MaxFaults /\ faults' = faults + 1

-----------------------------------------------------------------------------
(* A completed job is sampled *)

\* Whether a job is sampled is up to the epoch's secret.
MaybeOpen(a, w, x) ==
    /\ call.pc = "idle"
    /\ now <= OpenBy
    /\ audits[a].status = "none"
    /\ w \in Honest => x = Right
    /\ audits' = [audits EXCEPT ![a] =
         [status |-> "pending", worker |-> w, result |-> x,
          validator |-> None, created |-> now, assigned |-> 0]]
    /\ UNCHANGED <<now, votes, stakes, ledger, convictions, call>>

-----------------------------------------------------------------------------
(* A validator asks for an audit *)

\* Mutant of Stale: only those who voted are looked for.
StaleVoted(a, v) ==
    /\ stakes[a][v] = "locked"
    /\ \/ /\ audits[a].status \in {"pending", "assigned"}
          /\ audits[a].created < now - AuditExpiry
          /\ votes[a][v] # None
       \/ /\ audits[a].status = "contested"
          /\ audits[a].created < now - ContestedExpiry

\* The stakes _refund_stale_stakes selects: the age is the audit's.
Stale(a, v) ==
    /\ stakes[a][v] = "locked"
    /\ \/ /\ audits[a].status \in {"pending", "assigned"}
          /\ audits[a].created < now - AuditExpiry
          /\ votes[a][v] = None
       \/ /\ audits[a].status = "contested"
          /\ audits[a].created < now - ContestedExpiry

RefundStale(v) ==
    /\ call.pc = "idle"
    /\ LET stale == {p \in Payment : p.to = "refunded" /\ Stale(p.audit, p.by)}
       IN  call' = [Idle EXCEPT !.pc = IF stale = {} THEN "assign" ELSE "pay",
                                !.who = v, !.plan = stale]
    /\ UNCHANGED <<now, tables, ledger, convictions>>

\* Mutant of Overdue: the status is not looked at.
OverdueAny(a) == audits[a].status # "none" /\ audits[a].assigned < now - AuditExpiry

Overdue(a) == audits[a].status = "assigned" /\ audits[a].assigned < now - AuditExpiry

Reclaimed == [a \in Audits |->
    IF Overdue(a)
    THEN [audits[a] EXCEPT !.status = "pending", !.validator = None, !.assigned = 0]
    ELSE audits[a]]

\* Mutant of MayAudit: a validator is not asked who it has dealt with.
MayAuditAny(v, a) == Reclaimed[a].worker # v /\ votes[a][v] = None

\* Nobody audits itself, votes twice, or audits somebody it has dealt with.
MayAudit(v, a) ==
    /\ Reclaimed[a].worker # v
    /\ votes[a][v] = None
    /\ <<v, Reclaimed[a].worker>> \notin Related

\* One transaction: overdue audits are reopened, the oldest open one that the
\* validator may take is assigned to it.
Assign ==
    /\ call.pc = "assign"
    /\ LET able == {a \in Audits : /\ Reclaimed[a].status \in {"pending", "contested"}
                                   /\ MayAudit(call.who, a)}
       IN  \/ /\ able = {}
              /\ audits' = Reclaimed
              /\ call' = Idle
           \/ \E a \in able :
                /\ \A b \in able : Reclaimed[a].created <= Reclaimed[b].created
                /\ audits' = [Reclaimed EXCEPT ![a].status = "assigned",
                                               ![a].validator = call.who,
                                               ![a].assigned = now]
                /\ call' = [call EXCEPT !.pc = "lock", !.audit = a,
                                        !.prev = Reclaimed[a].status]
    /\ UNCHANGED <<now, votes, stakes, ledger, convictions>>

\* The stake moves to the pool...
LockStake ==
    /\ call.pc = "lock"
    /\ \/ Moves(call.who, Pool, Stake) /\ call' = [call EXCEPT !.pc = "row"]
       \/ Fails(call.who, Stake) /\ call' = [call EXCEPT !.pc = "deny"]
    /\ UNCHANGED <<now, tables, convictions>>

\* ...and then has a row; without a stake the audit goes back to where it was.
StakeRow ==
    /\ call.pc = "row"
    /\ stakes' = [stakes EXCEPT ![call.audit][call.who] = "locked"]
    /\ call' = Idle
    /\ UNCHANGED <<now, audits, votes, ledger, convictions>>

DenyClaim ==
    /\ call.pc = "deny"
    /\ audits' = [audits EXCEPT ![call.audit].status = call.prev,
                                ![call.audit].validator = None,
                                ![call.audit].assigned = 0]
    /\ call' = Idle
    /\ UNCHANGED <<now, votes, stakes, ledger, convictions>>

-----------------------------------------------------------------------------
(* A validator votes *)

\* Mutant of Verdict: one short of the quorum convicts.
VerdictEarly(a, x, agree) ==
    IF x = audits[a].result THEN "passed"
    ELSE IF Cardinality(agree) >= Quorum - 1 THEN "failed" ELSE "contested"

\* One vote that reproduces the result clears the worker; a quorum of votes for
\* one and the same other result convicts it.
Verdict(a, x, agree) ==
    IF x = audits[a].result THEN "passed"
    ELSE IF Cardinality(agree) >= Quorum THEN "failed" ELSE "contested"

SubmitVerdict(v, a, x) ==
    /\ call.pc = "idle"
    /\ audits[a].status = "assigned" /\ audits[a].validator = v
    /\ votes[a][v] = None
    /\ v \in Honest => x = Right
    /\ votes' = [votes EXCEPT ![a][v] = x]
    /\ audits' = [audits EXCEPT ![a].status =
                    Verdict(a, x, {u \in Actors : votes'[a][u] = x})]
    /\ call' = [Idle EXCEPT !.pc = "reward", !.who = v, !.audit = a]
    /\ UNCHANGED <<now, stakes, ledger, convictions>>

\* Every vote earns the fee, a contested one included.
Reward ==
    /\ call.pc = "reward"
    /\ \/ /\ escrow' = [escrow EXCEPT ![call.who] = @ + Fee]
          /\ UNCHANGED faults
       \/ /\ faults < MaxFaults /\ faults' = faults + 1
          /\ UNCHANGED escrow
    /\ call' = CASE audits[call.audit].status = "failed" -> [call EXCEPT !.pc = "claw"]
                 [] audits[call.audit].status = "passed" -> [call EXCEPT !.pc = "resolve"]
                 [] OTHER -> Idle
    /\ UNCHANGED <<now, tables, convictions>>

Convicted == audits[call.audit].worker

\* The clawback reads the worker's balance, takes what there is of the job's
\* value in a second transaction, and reports in a third what it meant to take.
ClawRead ==
    /\ call.pc = "claw"
    /\ LET x == IF escrow[Convicted] < Value THEN escrow[Convicted] ELSE Value IN
         call' = [call EXCEPT !.amount = x, !.pc = IF x > 0 THEN "take" ELSE "report"]
    /\ UNCHANGED <<now, tables, ledger, convictions>>

ClawTake ==
    /\ call.pc = "take"
    /\ \/ /\ Moves(Convicted, Reserve, call.amount)
          /\ clawed' = [clawed EXCEPT ![call.audit] = call.amount]
       \/ Fails(Convicted, call.amount) /\ UNCHANGED clawed
    /\ call' = [call EXCEPT !.pc = "report"]
    /\ UNCHANGED <<now, tables, incident>>

ClawReport ==
    /\ call.pc = "report"
    /\ \/ incident' = [incident EXCEPT ![call.audit] = call.amount] /\ UNCHANGED faults
       \/ faults < MaxFaults /\ faults' = faults + 1 /\ UNCHANGED incident
    /\ call' = [call EXCEPT !.pc = "resolve"]
    /\ UNCHANGED <<now, tables, escrow, clawed>>

\* What becomes of a stake: back to those who did not vote, back to those the
\* outcome agrees with, slashed for the others.
Deserts(a, v) ==
    IF votes[a][v] = None THEN "refunded"
    ELSE IF votes[a][v] = votes[a][audits[a].validator] THEN "released"
    ELSE "slashed"

ResolveStakes ==
    /\ call.pc = "resolve"
    /\ LET locked == {v \in Actors : stakes[call.audit][v] = "locked"} IN
         call' = IF locked = {} THEN Idle
                 ELSE [call EXCEPT !.pc = "pay",
                         !.plan = {[audit |-> call.audit, by |-> v,
                                    to |-> Deserts(call.audit, v)] : v \in locked}]
    /\ UNCHANGED <<now, tables, ledger, convictions>>

-----------------------------------------------------------------------------
(* Stakes are paid back one transfer at a time, then marked together *)

PayStake ==
    /\ call.pc = "pay"
    /\ \E p \in call.plan :
         /\ p.to = "slashed" => \A q \in call.plan : q.to = "slashed"
         /\ \/ Moves(Pool, IF p.to = "slashed" THEN Reserve ELSE p.by, Stake)
            \/ Fails(Pool, Stake)
         /\ call' = [call EXCEPT !.plan = @ \ {p}, !.done = @ \cup {p}]
    /\ UNCHANGED <<now, tables, convictions>>

\* Mutant of Marked: a refunded stake stays locked.
MarkedUnlessRefunded(a, v) ==
    IF \E p \in call.done : p.audit = a /\ p.by = v /\ p.to # "refunded"
    THEN (CHOOSE p \in call.done : p.audit = a /\ p.by = v).to
    ELSE stakes[a][v]

\* The status a stake is left with; a transfer that failed is marked all the same.
Marked(a, v) ==
    IF \E p \in call.done : p.audit = a /\ p.by = v
    THEN (CHOOSE p \in call.done : p.audit = a /\ p.by = v).to
    ELSE stakes[a][v]

MarkStakes ==
    /\ call.pc = "pay" /\ call.plan = {}
    /\ stakes' = [a \in Audits |-> [v \in Actors |-> Marked(a, v)]]
    /\ call' = IF call.audit = None
               THEN [call EXCEPT !.pc = "assign", !.done = {}]
               ELSE Idle
    /\ UNCHANGED <<now, audits, votes, ledger, convictions>>

-----------------------------------------------------------------------------
(* Everybody else *)

\* The process dies between two transactions, or one of them is refused.
StopCall ==
    /\ call.pc # "idle"
    /\ faults < MaxFaults /\ faults' = faults + 1
    /\ call' = Idle
    /\ UNCHANGED <<now, tables, escrow, convictions>>

\* An actor locks its escrow elsewhere, on the thread pool.
Spend(x, n) ==
    /\ escrow[x] >= n
    /\ escrow' = [escrow EXCEPT ![x] = @ - n]
    /\ UNCHANGED <<now, tables, faults, convictions, call>>

\* A call takes its time once, at the start.
Tick ==
    /\ call.pc = "idle"
    /\ now < MaxTime
    /\ now' = now + 1
    /\ UNCHANGED <<tables, ledger, convictions, call>>

\* The steps a call takes by itself.
Proceed ==
    \/ Assign \/ LockStake \/ StakeRow \/ DenyClaim
    \/ Reward \/ ClawRead \/ ClawTake \/ ClawReport
    \/ ResolveStakes \/ PayStake \/ MarkStakes

Next ==
    \/ \E a \in Audits : \E w \in Actors : \E x \in Results : MaybeOpen(a, w, x)
    \/ \E v \in Actors : RefundStale(v)
    \/ \E v \in Actors : \E a \in Audits : \E x \in Results : SubmitVerdict(v, a, x)
    \/ Proceed
    \/ StopCall
    \/ \E x \in Actors : \E n \in SpendAmounts : Spend(x, n)
    \/ Tick

Spec == Init /\ [][Next]_vars

\* Calls run to their end, the clock moves on between them, and somebody keeps
\* asking for audits.
FairSpec ==
    /\ Spec
    /\ WF_vars(Proceed)
    /\ SF_vars(Tick)
    /\ WF_vars(\E v \in Actors : RefundStale(v))

-----------------------------------------------------------------------------
(* Properties *)

TypeOK ==
    /\ now \in Nat
    /\ audits \in [Audits -> Audit]
    /\ votes \in [Audits -> [Actors -> Results \cup {None}]]
    /\ stakes \in [Audits -> [Actors -> StakeStatuses]]
    /\ escrow \in [Actors \cup {Pool, Reserve} -> Nat]
    /\ clawed \in [Audits -> Nat]
    /\ incident \in [Audits -> Nat]
    /\ call \in Call
    /\ faults \in Nat

\* Fewer liars than the quorum never convict a worker that did its job, never
\* take its money, and cost no honest validator of it a stake: whatever the
\* order of claims, votes, expiries and failures.
InnocentUnharmed ==
    Cardinality(Actors \ Honest) < Quorum =>
        \A a \in Audits : audits[a].worker \in Honest =>
            /\ audits[a].status # "failed"
            /\ clawed[a] = 0
            /\ \A v \in Honest : stakes[a][v] # "slashed"

\* Who voted for a result of an audit.
Voters(a, x) == {v \in Actors : votes[a][v] = x}

\* A verdict rests on validators other than the worker that were independent of
\* it: one for its result, or a quorum of them for one other result.
VerdictsAreBacked ==
    \A a \in Audits :
        /\ \A v \in Actors : votes[a][v] # None =>
              v # audits[a].worker /\ <<v, audits[a].worker>> \notin Related
        /\ audits[a].status = "passed" => Voters(a, audits[a].result) # {}
        /\ audits[a].status = "failed" =>
              \E x \in Results \ {audits[a].result} : Cardinality(Voters(a, x)) >= Quorum

\* A verdict is final, nobody changes a vote, and a stake that was returned to
\* a voter or slashed is not touched again.
VerdictsAreFinal ==
    [][\A a \in Audits :
        /\ audits[a].status \in Final => audits'[a].status = audits[a].status
        /\ \A v \in Actors :
             /\ votes[a][v] # None => votes'[a][v] = votes[a][v]
             /\ stakes[a][v] \in {"released", "slashed"} => stakes'[a][v] = stakes[a][v]]_vars

\* While every transfer succeeds and every call ends, the pool holds exactly the
\* stakes whose rows say locked, but for those the call under way is moving.
PoolIsExact ==
    faults = 0 =>
        escrow[Pool] + Stake * Cardinality(call.done) =
            Stake * (Cardinality({p \in Audits \X Actors : stakes[p[1]][p[2]] = "locked"})
                     + IF call.pc = "row" THEN 1 ELSE 0)

\* A validator that claimed an audit and left gets its stake back, as long as
\* anybody keeps asking for audits, unless a transfer failed or a call was cut
\* short: then its stake may be marked and not paid.
AbsentStakeReturns ==
    \A a \in Audits : \A v \in Actors :
        stakes[a][v] = "locked" /\ votes[a][v] = None
            ~> stakes[a][v] # "locked" \/ votes[a][v] # None \/ faults > 0
=============================================================================
