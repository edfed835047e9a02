------------------------------ MODULE MintGate ------------------------------
(***************************************************************************)
(* What stands before and behind a job: the hardware benchmark a worker    *)
(* must pass to be given one, and the HEXIS a delivered one mints, scaled  *)
(* by the worker's seniority and by its region's share of the network's    *)
(* energy, and refused when the worker holds too much of what its region   *)
(* minted.                                                                 *)
(*                                                                         *)
(* Source: hexis_geo.py, and registration, benchmark and mint in           *)
(* hexis_bridge_v0.6.2.py.  The handlers are coroutines of one event loop: *)
(* a call runs to its next await alone, and the spot check runs in an      *)
(* executor beside them.  The process may stop anywhere, any call of the   *)
(* geo engine may raise, and so may the index.  The module has the         *)
(* component's state and actions; JobOutcome composes them.                *)
(*                                                                         *)
(* Scores are whole percents of what a job is worth where C is 1.  Failed  *)
(* writes of the write queue are in SignedWrites, the index and its file   *)
(* in PinPipeline.  Whether both stakes are locked, which a request and a  *)
(* completion ask, is in JobEscrow: here a job can be requested at any     *)
(* time, also again.                                                       *)
(***************************************************************************)
EXTENDS Integers, Sequences, FiniteSets, Functions, SequencesExt

CONSTANTS
    Workers,
    Veterans,            \* the workers on disk, benchmarked, at the start
    Country,             \* the country a worker declares
    ContextOf,           \* C of a country, in percent: between C_MIN and C_MAX
    DefaultCountry,      \* job_complete's country of a worker it does not find
    UnknownCountry,      \* _posp_reward's
    Jobs,
    MinTrust,            \* score under which get_trust_grade accepts nobody
    Worth,               \* of each job: its witnesses, its sacrifice S, and the product
                         \* of its scores without C, in percent of MIN_HEXIS
    MinWitnesses,        \* MIN_WITNESSES
    MinSacrifice,        \* MIN_SACRIFICE, in the unit of S
    None,
    TMax, Expiry,        \* bench_T_max_s, bench_expiry_s
    Window,              \* epoch_window_s
    HalfLife,            \* C_DECAY_HALFLIFE_MINTS
    DampingCap, MintCap, \* shares, in percent
    MinActors,           \* mint_cap_min_actors
    MaxNow,              \* bound on time
    MaxBoots,            \* bound on restarts
    MaxTries,            \* bound on submitted benchmarks
    MaxCalls             \* bound on calls of mine_hexis_for_job

Countries == DOMAIN ContextOf

ASSUME MintGateAssumption ==
    /\ IsFiniteSet(Workers) /\ IsFiniteSet(Countries)
    /\ Veterans \subseteq Workers
    /\ Worth \in [Jobs -> [witnesses : Nat, sacrifice : Nat, product : Nat]]
    /\ {MinWitnesses, MinSacrifice} \subseteq Nat
    /\ Country \in [Workers -> Countries]
    /\ {DefaultCountry, UnknownCountry} \subseteq Countries
    /\ \A c \in Countries : ContextOf[c] \in 80 .. 125
    /\ {MinTrust, TMax, Expiry, Window, MaxNow, MaxBoots, MaxTries, MaxCalls} \subseteq Nat
    /\ {HalfLife, DampingCap, MintCap, MinActors} \subseteq Nat \ {0}
    /\ TMax <= Expiry

VARIABLES
    now,
    boots,
    members,      \* STATE.workers: "absent", or whether benchmark_passed
    rows,         \* the workers table, likewise
    writes,       \* the write queue
    registering,  \* registrations waiting for their write
    challenges,   \* benchmark_challenges, by address
    verifying,    \* benchmark submissions under way
    tries,
    jobs,         \* STATE.jobs, in memory only: worker and step of a job
    index,        \* hexis_index, the entries of each actor; their country and what
                  \* scaled them is history
    activity,     \* geo_activity
    calls,        \* calls of mine_hexis_for_job so far
    earned,       \* history: workers that answered a challenge rightly in time
    unread,       \* history: jobs last accepted when the registry had not been read
    uncounted     \* history: mints whose geo_activity row was never written

gateVars == <<members, rows, writes, registering, challenges, verifying, tries, earned>>
mintVars == <<index, activity, calls, uncounted>>
mintGateVars == <<now, boots, gateVars, jobs, mintVars, unread>>

Flags == {"absent", "no", "passed"}

Recall(w) == IF w \in Veterans THEN "passed" ELSE "absent"

MintGateInit ==
    /\ now = 0 /\ boots = 0 /\ tries = 0 /\ calls = 0
    /\ members = [w \in Workers |-> Recall(w)]
    /\ rows = [w \in Workers |-> Recall(w)]
    /\ writes = << >> /\ registering = {} /\ verifying = {}
    /\ challenges = [w \in Workers |-> None]
    /\ jobs = [j \in Jobs |-> None]
    /\ index = [w \in Workers |-> << >>] /\ activity = << >>
    /\ earned = Veterans /\ unread = {} /\ uncounted = 0

----------------------------------------------------------------------------
(* Registration and the benchmark.                                         *)

\* worker_register up to its await; an address in memory is refused, whatever
\* became of its benchmark.
Register(w) ==
    /\ members[w] = "absent"
    /\ members' = [members EXCEPT ![w] = "no"]
    /\ writes' = Append(writes, [worker |-> w, sets |-> "no"])
    /\ registering' = registering \cup {w}
    /\ UNCHANGED <<now, boots, rows, challenges, verifying, tries, earned, jobs, mintVars, unread>>

\* issue: a challenge takes the place of the one before.
Issue(w) ==
    /\ w \in registering
    /\ registering' = registering \ {w}
    /\ challenges' = [challenges EXCEPT ![w] = [at |-> now, status |-> "pending"]]
    /\ UNCHANGED <<now, boots, members, rows, writes, verifying, tries, earned, jobs, mintVars,
                   unread>>

SetStatus(w, status) ==
    IF challenges[w] = None THEN challenges ELSE [challenges EXCEPT ![w].status = status]

\* Neither expired nor slower than the floor.
InTime(elapsed) == elapsed <= Expiry /\ elapsed <= TMax

\* verify, up to the spot check: the row is read once, and what was read is used
\* after the seconds the check takes.  Signing takes a row in workers.
Submit(w) ==
    /\ tries < MaxTries
    /\ tries' = tries + 1
    /\ rows[w] # "absent"
    /\ challenges[w] # None /\ challenges[w].status = "pending"
    /\ LET elapsed == now - challenges[w].at
       IN  IF InTime(elapsed)
           THEN /\ verifying' = verifying \cup
                     {[worker |-> w, try |-> tries, elapsed |-> elapsed, step |-> "checking"]}
                /\ UNCHANGED challenges
           ELSE challenges' = SetStatus(w, "failed") /\ UNCHANGED verifying
    /\ UNCHANGED <<now, boots, members, rows, writes, registering, earned, jobs, mintVars, unread>>

\* The chains are recomputed; the status is set by address, on whatever row is
\* there by now.
SpotCheck(v, right) ==
    /\ v.step = "checking"
    /\ challenges' = SetStatus(v.worker, IF right THEN "passed" ELSE "failed")
    /\ verifying' = (verifying \ {v}) \cup
                        (IF right THEN {[v EXCEPT !.step = "passed"]} ELSE {})
    /\ earned' = IF right /\ v.elapsed <= TMax THEN earned \cup {v.worker} ELSE earned
    /\ UNCHANGED <<now, boots, members, rows, writes, registering, tries, jobs, mintVars, unread>>

\* worker_benchmark after the executor.
Activate(v) ==
    /\ v.step = "passed"
    /\ verifying' = verifying \ {v}
    /\ members' = [members EXCEPT ![v.worker] = IF @ = "absent" THEN @ ELSE "passed"]
    /\ writes' = Append(writes, [worker |-> v.worker, sets |-> "passed"])
    /\ UNCHANGED <<now, boots, rows, registering, challenges, tries, earned, jobs, mintVars,
                   unread>>

\* The write queue executes its first statement: INSERT OR REPLACE, or an
\* UPDATE that finds its row.
Flush ==
    /\ writes # << >>
    /\ writes' = Tail(writes)
    /\ LET w == writes[1].worker
       IN  rows' = [rows EXCEPT ![w] =
                       IF writes[1].sets = "passed" /\ @ = "absent" THEN @ ELSE writes[1].sets]
    /\ UNCHANGED <<now, boots, members, registering, challenges, verifying, tries, earned, jobs,
                   mintVars, unread>>

\* Mutant: whoever is on disk has passed.
ReadBackPassed(row) == IF row = "absent" THEN row ELSE "passed"

\* What a boot makes of a row.
ReadBack(row) == row

\* The process stops and boots; the jobs are gone, and so is a registry that it
\* cannot read.
Stopped(readable) ==
    /\ boots < MaxBoots
    /\ boots' = boots + 1
    /\ members' = [w \in Workers |-> IF readable THEN ReadBack(rows[w]) ELSE "absent"]
    /\ jobs' = [j \in Jobs |-> None]
    /\ writes' = << >> /\ registering' = {} /\ verifying' = {}
    /\ UNCHANGED <<now, rows, challenges, tries, earned>>

Standing(w) == SumFunctionOnSet([k \in DOMAIN index[w] |-> index[w][k].score], DOMAIN index[w])

\* get_trust_grade, and the demo mode for who has no score at all.
Trusted(w) == Standing(w) = 0 \/ Standing(w) >= MinTrust

\* job_request: a worker in memory must have passed, one that is not there is
\* not asked.  Its stake is locked, so its key is on disk.  A job that was
\* requested before, whatever became of it, is registered anew.
Request(j, w) ==
    /\ members[w] # "no"
    /\ rows[w] # "absent"
    /\ Trusted(w)
    /\ jobs' = [jobs EXCEPT ![j] = [worker |-> w, step |-> "pending"]]
    /\ unread' = IF members[w] = "absent" THEN unread \cup {j} ELSE unread \ {j}
    /\ UNCHANGED <<now, boots, gateVars, mintVars>>

----------------------------------------------------------------------------
(* Minting.                                                                *)

Recent(kind, country) ==
    {i \in DOMAIN activity : /\ activity[i].kind = kind
                             /\ activity[i].country = country
                             /\ activity[i].at >= now - Window}
AmountOf(rowids) == SumFunctionOnSet([i \in rowids |-> activity[i].amount], rowids)
Energy(country) == AmountOf(Recent("energy", country))
Of(rowids, w) == {i \in rowids : activity[i].actor = w}

\* record_energy, record_mint: nothing is written of nothing.
Noted(log, kind, w, country, amount) ==
    IF amount <= 0 THEN log
    ELSE Append(log, [kind |-> kind, actor |-> w, country |-> country, amount |-> amount,
                      at |-> now])

\* damping applies to C above 1 only, and not to the only active region; energy
\* is what the ledger of regions holds once this job's is in it.
Damped(context, country, energy) ==
    LET total == SumFunctionOnSet(energy, Countries)
        share == 100 * energy[country]
    IN  IF \/ context <= 100
           \/ Cardinality({c \in Countries : energy[c] > 0}) < 2
           \/ share <= DampingCap * total
        THEN context
        ELSE 100 + ((context - 100) * DampingCap * total) \div share

\* The seniority decay, at its half-lives: only what is above 1 decays.
Decayed(context, prior) ==
    IF context <= 100 THEN context
    ELSE 100 + (context - 100) \div (2 ^ (prior \div HalfLife))

\* Both scales are ratios to the full C and multiply.
Score(context, decayed, damped) == (decayed * damped) \div context

\* mint_allowed, on the mints of the region in the window.
MintAllowed(w, country) ==
    LET region == Recent("mint", country)
    IN  \/ Cardinality({activity[i].actor : i \in region}) < MinActors
        \/ 100 * AmountOf(Of(region, w)) < MintCap * AmountOf(region)

\* HexisMiner.mine: enough witnesses, enough sacrificed, and a product with the
\* country's C that reaches the threshold.
Eligible(j, country) ==
    /\ Worth[j].witnesses >= MinWitnesses
    /\ Worth[j].sacrifice >= MinSacrifice
    /\ Worth[j].product * ContextOf[country] >= 100 * 100

\* mine_hexis_for_job: what it adds to the index, if anything, given the calls of
\* the geo engine that have no answer.
Minted(w, country, energy, raises) ==
    LET context == ContextOf[country]
        decayed == Decayed(context, Len(index[w]))
        damped == IF "damping" \in raises THEN context ELSE Damped(context, country, energy)
    IN  IF "cap" \in raises \/ MintAllowed(w, country)
        THEN <<[score |-> Score(context, decayed, damped), country |-> country,
                senior |-> decayed < context, damped |-> damped < context]>>
        ELSE << >>

\* Mutant: a capped mint is counted as the one before it.
CountedCapped(minted) == IF minted = << >> THEN MintCap ELSE minted[1].score

\* The amount record_mint gets.
Counted(minted) == IF minted = << >> THEN 0 ELSE minted[1].score

\* One mint as far as the call gets: the index, then the count of the window.  A
\* count that raises is passed over, and the call goes on.
Mint(w, country, minted, log, upto) ==
    /\ calls < MaxCalls
    /\ calls' = calls + 1
    /\ index' = IF upto = "energy" THEN index ELSE [index EXCEPT ![w] = @ \o minted]
    /\ activity' = IF upto = "count" THEN Noted(log, "mint", w, country, Counted(minted)) ELSE log
    /\ uncounted' = IF upto = "index" THEN uncounted + Len(minted) ELSE uncounted

\* The calls of the geo engine that raise and are passed over, before a mint; when
\* the damping does the cap is not asked.
Raised ==
    {raises \in SUBSET {"energy", "damping", "cap"} : "damping" \in raises => "cap" \in raises}

\* The country of a worker, or what stands for it when memory has no such worker.
Where(w, otherwise) == IF members[w] = "absent" THEN otherwise ELSE Country[w]

\* job_complete up to the settlement: energy, mint, count; any call of the geo
\* engine may raise, and is passed over.
Mine(j, upto, raises) ==
    LET w == jobs[j].worker
        country == Where(w, DefaultCountry)
        burnt == IF "energy" \in raises THEN 0 ELSE 1
        energy == [c \in Countries |-> Energy(c) + (IF c = country THEN burnt ELSE 0)]
        minted == IF Eligible(j, country) THEN Minted(w, country, energy, raises) ELSE << >>
    IN  /\ jobs[j] # None /\ jobs[j].step = "pending"
        /\ Mint(w, country, minted, Noted(activity, "energy", w, country, burnt), upto)

Deliver(j) ==
    /\ \E upto \in {"index", "count"}, raises \in Raised : Mine(j, upto, raises)
    /\ jobs' = [jobs EXCEPT ![j].step = "completed"]
    /\ UNCHANGED <<now, boots, gateVars, unread>>

\* The index raises, before its entry is there or when its file is not written,
\* and the call ends: the job is still pending and can be completed again.
FailDelivery(j) ==
    /\ \E upto \in {"energy", "index"}, raises \in Raised : Mine(j, upto, raises)
    /\ UNCHANGED <<now, boots, gateVars, jobs, unread>>

\* A delivery the process did not survive.
CutDelivery(j, readable) ==
    /\ Stopped(readable)
    /\ \E upto \in {"energy", "index", "count"}, raises \in Raised :
          Mine(j, upto, raises)
    /\ UNCHANGED unread

\* _posp_reward mints the same way for a validator that had passed when it claimed
\* the audit, with no energy, and passes over whatever raises.
Reward(w) ==
    LET country == Where(w, UnknownCountry)
    IN  /\ rows[w] = "passed"
        /\ \E upto \in {"energy", "index", "count"}, raises \in {{}, {"cap"}, {"damping", "cap"}} :
              Mint(w, country, Minted(w, country, [c \in Countries |-> Energy(c)], raises),
                   activity, upto)
        /\ UNCHANGED <<now, boots, gateVars, jobs, unread>>

Tick ==
    /\ now < MaxNow
    /\ now' = now + 1
    /\ UNCHANGED <<boots, gateVars, jobs, mintVars, unread>>

----------------------------------------------------------------------------
(* Properties.                                                             *)

MintGateTypeOK ==
    /\ members \in [Workers -> Flags] /\ rows \in [Workers -> Flags]
    /\ \A w \in Workers : challenges[w] # None =>
          challenges[w].status \in {"pending", "passed", "failed"} /\ challenges[w].at \in Nat
    /\ \A j \in Jobs : jobs[j] # None => jobs[j].step \in {"pending", "completed"}
    /\ {now, boots, tries, calls, uncounted} \subseteq Nat

\* However submissions, registrations, queued writes and restarts overlap, a
\* worker counts as benchmarked, in memory or on disk, only if it answered a
\* challenge rightly and fast enough, and only such a worker is given a job, but
\* for jobs accepted while the registry had not been read (worker_benchmark,
\* verify, job_request).
GateHolds ==
    /\ MintGateTypeOK
    /\ \A w \in Workers : "passed" \in {members[w], rows[w]} => w \in earned
    /\ \A j \in Jobs \ unread : jobs[j] # None => jobs[j].worker \in earned

Entries(w) == {i \in DOMAIN activity : activity[i].actor = w /\ activity[i].kind = "mint"}

\* Entries of the index that the count of the mint cap has no row for.
Uncounted == [w \in Workers |-> Len(index[w]) - Cardinality(Entries(w))]

\* The index and the count of the mint cap tell the same story: every mint is
\* counted once, for what it was, but for those whose call was cut, or whose index
\* or count raised, between the two; no score exceeds its country's C, none below 1
\* is ever softened, and a boost falls under 1 only where seniority and damping
\* meet, whatever of the geo engine raises and however often a job is requested and
\* mined again (mine_hexis_for_job, c_scale, record_mint).
MintsCounted ==
    /\ SumFunctionOnSet(Uncounted, Workers) = uncounted
    /\ \A w \in Workers : \A i \in Entries(w) :
          \E k \in DOMAIN index[w] : /\ index[w][k].score = activity[i].amount
                                     /\ index[w][k].country = activity[i].country
    /\ \A w \in Workers : \A k \in DOMAIN index[w] :
          LET entry == index[w][k]
              context == ContextOf[entry.country]
          IN  /\ entry.score <= context
              /\ context <= 100 => entry.score = context
              /\ context > 100 /\ ~(entry.senior /\ entry.damped) => entry.score >= 100

=============================================================================
