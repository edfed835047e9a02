------------------------------- MODULE Newflow -------------------------------
(***************************************************************************)
(* The NEWFLOW core: a chain of blocks whose settlements move ECU, free    *)
(* transfers and a faucet beside it, and the optimistic pool, where a      *)
(* worker stakes on a proof, a validator approves or slashes it, anybody   *)
(* may challenge it inside its window, and only an approved proof settles. *)
(* All of them write the one table of balances.                            *)
(*                                                                         *)
(* Source: newflow_core.py.  Every operation is one synchronous call; what *)
(* interleaves is calls: blocks built on a tip that moves, challenges and  *)
(* verifications of the same proof, rollbacks.                             *)
(*                                                                         *)
(* A block's hash is the history it commits to: the job lists of all the   *)
(* blocks up to it.  Signatures verify; a proof is right or fake.          *)
(***************************************************************************)
EXTENDS Integers, Sequences, FiniteSets, Functions

CONSTANTS
    Accounts,
    Validator,       \* the account of ValidatorVerifier.validator
    Faucet,          \* ChainState.faucet_address
    Genesis,         \* what apply_genesis allocates
    Jobs,
    JobOf,           \* a ProofWithPayment, and what its JobCommitment agreed to
    Proofs,
    ProofOf,         \* worker, consumer, fee, stake and output of a StakedProof
    Workers,         \* the accounts that register
    Profiles,        \* worker profiles: tier and tasks
    TaskTier,        \* TASK_MIN_TIER, tiers as numbers
    FaucetAmount, FaucetMaxUsers,
    Transfers,       \* signed transfers, but for their nonce
    StakeMultiplier, MinStake, Window,
    Challengers, ChallengeStake,
    MaxBlockJobs,    \* bound on the proofs a block is built from
    MaxBuilt,        \* bound on blocks that were built and not discarded
    MaxHeight,       \* bound on the chain
    MaxNow,          \* bound on the pool's block number
    MaxSubmits,      \* bound on submitted proofs
    MaxChallenges,   \* bound on challenges
    MaxNonce         \* bound on transfers of one account

Outputs == {"right", "fake"}

ASSUME NewflowAssumption ==
    /\ IsFiniteSet(Accounts)
    /\ {Validator, Faucet} \cup Workers \cup Challengers \subseteq Accounts
    /\ Genesis \in [Accounts -> Nat]
    /\ JobOf \in [Jobs -> [consumer : Accounts, worker : Accounts, fee : Int,
                           computed : BOOLEAN,
                           agreed : [worker : Accounts, fee : Int]]]
    /\ ProofOf \in [Proofs -> [worker : Accounts, consumer : Accounts, fee : Int,
                               stake : Int, output : Outputs]]
    /\ Transfers \subseteq [sender : Accounts, receiver : Accounts, amount : Int, fee : Int]
    /\ {StakeMultiplier, MinStake, Window, ChallengeStake, FaucetAmount} \subseteq Nat
    /\ {MaxBlockJobs, MaxNow} \subseteq Nat

VARIABLES
    balances,
    blocks, spent, nonces, claimed, profiles,   \* ChainState
    built,        \* blocks made by build_block, on whatever tip there was
    pending,      \* OptimisticPool.pending, in dict order
    challenges,   \* OptimisticPool.challenges
    settled, slashed,
    entries,      \* Ledger, the entries of the pool; no query tells their order
    currentBlock, \* the block number the pool's callers pass
    submits, raised,
    other,        \* history: what moved outside of blocks, by account
    created,      \* history: ECU a slash or a fee below zero made out of nothing
    burned,       \* history: stakes that were overwritten
    verified,     \* history: submissions approved on their own output
    forgetful     \* history: the ledger was rolled back

chainVars == <<blocks, spent, nonces, claimed, profiles, built>>
poolVars == <<pending, challenges, settled, slashed, entries, currentBlock, submits, raised>>
historyVars == <<created, burned, verified, forgetful>>
coreVars == <<balances, chainVars, poolVars, other, historyVars>>

Height == Len(blocks)
Tip == IF Height = 0 THEN << >> ELSE blocks[Height].hash

Pids == Proofs \X (0 .. MaxNow)
Stake(pid) == ProofOf[pid[1]].stake
Right(pid) == ProofOf[pid[1]].output = "right"
PidsOf(pool) == {pool[i].pid : i \in DOMAIN pool}
IsPending(pid) == pid \in PidsOf(pending)
StatusOf(pid) == pending[CHOOSE i \in DOMAIN pending : pending[i].pid = pid].status

\* The elements of a list that are in a set.
Kept(list, set) ==
    LET upTo[k \in 0 .. Len(list)] ==
            IF k = 0 THEN << >>
            ELSE IF list[k] \in set THEN Append(upTo[k - 1], list[k]) ELSE upTo[k - 1]
    IN  upTo[Len(list)]

\* Balances with amounts added to some accounts.
Plus(bal, delta) == [a \in Accounts |-> bal[a] + delta[a]]
Only(a, n) == [b \in Accounts |-> IF b = a THEN n ELSE 0]
Move(from, to, n) == Plus(Only(from, -n), Only(to, n))

CoreInit ==
    /\ balances = Genesis
    /\ blocks = << >> /\ spent = {} /\ built = {}
    /\ nonces = [a \in Accounts |-> 0]
    /\ claimed = {} /\ profiles = [a \in Accounts |-> << >>]
    /\ pending = << >> /\ challenges = << >>
    /\ settled = << >> /\ slashed = << >> /\ entries = {}
    /\ currentBlock = 0 /\ submits = 0 /\ raised = 0
    /\ other = [a \in Accounts |-> 0]
    /\ created = 0 /\ burned = 0 /\ verified = {} /\ forgetful = FALSE

----------------------------------------------------------------------------
(* Blocks.                                                                 *)

\* verify_all: the job was computed, and is paid what its consumer agreed to.
VerifyAll(j) ==
    /\ JobOf[j].computed
    /\ JobOf[j].agreed = [worker |-> JobOf[j].worker, fee |-> JobOf[j].fee]

\* compute_block_hash, over the Merkle root of the block's proofs.
HashOf(prev, jobs) == Append(prev, jobs)

\* build_block: proofs that do not verify are skipped; with none left there is
\* no block.
Build(proofs) ==
    LET jobs == Kept(proofs, {j \in Jobs : VerifyAll(j)})
    IN  /\ jobs # << >>
        /\ Cardinality(built) < MaxBuilt
        /\ built' = built \cup
             {[index |-> Height + 1, prev |-> Tip, jobs |-> jobs, hash |-> HashOf(Tip, jobs)]}
        /\ UNCHANGED <<balances, blocks, spent, nonces, claimed, profiles, poolVars, other,
                       historyVars>>

\* A block nobody will apply any more.
Discard(block) ==
    /\ built' = built \ {block}
    /\ UNCHANGED <<balances, blocks, spent, nonces, claimed, profiles, poolVars, other,
                   historyVars>>

\* Mutant: only the first settlement is looked up among the spent jobs.
ValidFirst(block) ==
    /\ block.index = Height + 1
    /\ block.prev = Tip
    /\ block.jobs[1] \notin spent
    /\ \A i \in DOMAIN block.jobs :
          balances[JobOf[block.jobs[i]].consumer] >= JobOf[block.jobs[i]].fee

\* validate_block.  Each settlement is checked against the state before the
\* block, not against the settlements ahead of it.
Valid(block) ==
    /\ block.index = Height + 1
    /\ block.prev = Tip
    /\ block.hash = HashOf(block.prev, block.jobs)
    /\ \A i \in DOMAIN block.jobs :
          /\ block.jobs[i] \notin spent
          /\ balances[JobOf[block.jobs[i]].consumer] >= JobOf[block.jobs[i]].fee

\* What a settlement adds to an account, what a block's do, and what those of many do.
Paid(j, a) ==
    (IF JobOf[j].worker = a THEN JobOf[j].fee ELSE 0)
    - (IF JobOf[j].consumer = a THEN JobOf[j].fee ELSE 0)
Flow(jobs) ==
    [a \in Accounts |-> SumFunctionOnSet([i \in DOMAIN jobs |-> Paid(jobs[i], a)], DOMAIN jobs)]
FlowOf(list, a) == SumFunctionOnSet([i \in DOMAIN list |-> Flow(list[i].jobs)[a]], DOMAIN list)

ApplyBlock(block) ==
    /\ Height < MaxHeight
    /\ Valid(block)
    /\ balances' = Plus(balances, Flow(block.jobs))
    /\ spent' = spent \cup Range(block.jobs)
    /\ blocks' = Append(blocks, block)
    /\ UNCHANGED <<nonces, claimed, profiles, built, poolVars, other, historyVars>>

\* Nonces, claims, transfers and the pool are left as they are.
Rollback(h) ==
    /\ h < Height
    /\ LET popped == SubSeq(blocks, h + 1, Height)
       IN  /\ balances' = [a \in Accounts |-> balances[a] - FlowOf(popped, a)]
           /\ spent' = spent \ UNION {Range(popped[i].jobs) : i \in DOMAIN popped}
    /\ blocks' = SubSeq(blocks, 1, h)
    /\ UNCHANGED <<nonces, claimed, profiles, built, poolVars, other, historyVars>>

----------------------------------------------------------------------------
(* Transfers, the faucet, workers.                                         *)

\* apply_transfer of a signed transfer, which may be posted again at any time.
\* The sender is debited whatever fee it signed, the validator is credited with
\* one above zero only.
FeePaid(fee) == IF fee > 0 THEN fee ELSE 0
ApplyTransfer(tx, nonce) ==
    /\ nonce = nonces[tx.sender] /\ nonce < MaxNonce
    /\ tx.amount > 0 /\ tx.sender # tx.receiver
    /\ balances[tx.sender] >= tx.amount + tx.fee
    /\ LET delta == Plus(Move(tx.sender, tx.receiver, tx.amount),
                         Plus(Only(tx.sender, -tx.fee), Only(Validator, FeePaid(tx.fee))))
       IN  /\ balances' = Plus(balances, delta)
           /\ other' = Plus(other, delta)
    /\ created' = created + FeePaid(tx.fee) - tx.fee
    /\ nonces' = [nonces EXCEPT ![tx.sender] = nonce + 1]
    /\ UNCHANGED <<blocks, spent, claimed, profiles, built, poolVars, burned, verified, forgetful>>

ApplyFaucetClaim(receiver) ==
    /\ receiver \notin claimed
    /\ Cardinality(claimed) < FaucetMaxUsers
    /\ balances[Faucet] >= FaucetAmount
    /\ balances' = Plus(balances, Move(Faucet, receiver, FaucetAmount))
    /\ other' = Plus(other, Move(Faucet, receiver, FaucetAmount))
    /\ claimed' = claimed \cup {receiver}
    /\ UNCHANGED <<blocks, spent, nonces, profiles, built, poolVars, historyVars>>

\* Every task a profile names is known and within its tier.
Acceptable(profile) ==
    profile.tasks \subseteq DOMAIN TaskTier
    /\ \A t \in profile.tasks : profile.tier >= TaskTier[t]

RegisterProfile(a, profile) ==
    /\ Acceptable(profile)
    /\ profiles' = [profiles EXCEPT ![a] = <<profile>>]
    /\ UNCHANGED <<balances, blocks, spent, nonces, claimed, built, poolVars, other,
                   historyVars>>

CanHandle(profile, task) ==
    task \in DOMAIN TaskTier /\ task \in profile.tasks /\ profile.tier >= TaskTier[task]

----------------------------------------------------------------------------
(* The optimistic pool.                                                    *)

Entry(type, pid, block) == [type |-> type, ref |-> pid, block |-> block]

WithinWindow(pid) == currentBlock < pid[2] + Window

SetStatus(pool, pid, status) ==
    [i \in DOMAIN pool |-> IF pool[i].pid = pid THEN [pool[i] EXCEPT !.status = status]
                           ELSE pool[i]]
Without(pool, pid) == Kept(pool, {p \in Range(pool) : p.pid # pid})

\* submit_proof, and the entry its caller records.  The same proof submitted
\* again in the same block takes the place of the first in the dict.
SubmitProof(p) ==
    LET pid == <<p, currentBlock>>
        proof == ProofOf[p]
    IN  /\ submits < MaxSubmits
        /\ submits' = submits + 1
        /\ proof.stake >= proof.fee * StakeMultiplier
        /\ proof.stake >= MinStake
        /\ balances[proof.worker] >= proof.stake
        /\ balances[proof.consumer] >= proof.fee
        /\ balances' = Plus(balances, Only(proof.worker, -proof.stake))
        /\ other' = Plus(other, Only(proof.worker, -proof.stake))
        /\ pending' = IF IsPending(pid) THEN SetStatus(pending, pid, "pending")
                      ELSE Append(pending, [pid |-> pid, status |-> "pending"])
        /\ burned' = IF IsPending(pid) THEN burned + proof.stake ELSE burned
        /\ verified' = verified \ {pid}
        /\ entries' = entries \cup {Entry("proof_pending", pid, currentBlock)}
        /\ UNCHANGED <<chainVars, challenges, settled, slashed, currentBlock, raised, created,
                       forgetful>>

\* submit_challenge: the claim is an output, and not the worker's.
SubmitChallenge(by, pid, claim) ==
    LET id == <<pid, by, currentBlock>>
    IN  /\ raised < MaxChallenges
        /\ raised' = raised + 1
        /\ IsPending(pid)
        /\ StatusOf(pid) \in {"pending", "approved"}
        /\ WithinWindow(pid)
        /\ claim # ProofOf[pid[1]].output
        /\ balances[by] >= ChallengeStake
        /\ balances' = Plus(balances, Only(by, -ChallengeStake))
        /\ other' = Plus(other, Only(by, -ChallengeStake))
        /\ pending' = SetStatus(pending, pid, "challenged")
        /\ burned' = IF id \in DOMAIN challenges /\ ~challenges[id].resolved
                     THEN burned + ChallengeStake ELSE burned
        /\ challenges' = [c \in DOMAIN challenges \cup {id} |->
              IF c = id THEN [claim |-> claim, resolved |-> FALSE] ELSE challenges[c]]
        /\ UNCHANGED <<chainVars, settled, slashed, entries, currentBlock, submits, created,
                       verified, forgetful>>

\* Mutant: a proof that survived a challenge needs no verification.
StatusAfterLossApproved(pid) == "approved"

\* A lost challenge sends the proof back to be verified, also one that was
\* approved before.
StatusAfterLoss(pid) == "pending"

\* Mutant: the challenger gets the stake back as well.
LostStakesBoth(by, worker) == Plus(Only(worker, ChallengeStake), Only(by, ChallengeStake))

\* Who gets the challenger's stake when the challenge is lost.
LostStakes(by, worker) == Only(worker, ChallengeStake)

\* resolve_challenge, with the output its caller found to be the correct one.
ResolveChallenge(id, correct) ==
    LET pid == id[1]
        by == id[2]
        won == correct = challenges[id].claim
        delta == IF won THEN Only(by, ChallengeStake + Stake(pid))
                 ELSE LostStakes(by, ProofOf[pid[1]].worker)
    IN  /\ ~challenges[id].resolved
        /\ IsPending(pid)
        /\ challenges' = [challenges EXCEPT ![id].resolved = TRUE]
        /\ balances' = Plus(balances, delta)
        /\ other' = Plus(other, delta)
        /\ pending' = IF won THEN Without(pending, pid)
                      ELSE SetStatus(pending, pid, StatusAfterLoss(pid))
        /\ slashed' = IF won THEN Append(slashed, pid) ELSE slashed
        /\ UNCHANGED <<chainVars, settled, entries, currentBlock, submits, raised, historyVars>>

----------------------------------------------------------------------------
(* process_pending: verify what is pending, then settle what is approved   *)
(* and past its window.  One pass over the dict each.                      *)

ValidatorStake(bal, pid) ==
    LET half == bal[Validator] \div 2
    IN  IF Stake(pid) < half THEN Stake(pid) ELSE half

\* approve_proof or slash_proof.  The slash pays the validator the worker's
\* stake, and a stake of its own that nobody took from it.
Verify(s, item) ==
    LET pid == item.pid
        extra == ValidatorStake(s.balances, pid)
    IN  IF item.status # "pending" THEN s
        ELSE IF Right(pid)
        THEN [s EXCEPT !.pending = SetStatus(@, pid, "approved"),
                       !.verified = @ \cup {pid},
                       !.entries = @ \cup {Entry("proof_approved", pid, currentBlock)}]
        ELSE [s EXCEPT !.balances = Plus(@, Only(Validator, extra + Stake(pid))),
                       !.created = @ + extra,
                       !.pending = Without(@, pid),
                       !.slashed = Append(@, pid),
                       !.entries = @ \cup {Entry("proof_slashed", pid, currentBlock)}]

\* process_block: the consumer's balance is not looked at again.
Settle(s, item) ==
    LET pid == item.pid
        proof == ProofOf[pid[1]]
    IN  IF item.status # "approved" \/ WithinWindow(pid) THEN s
        ELSE [s EXCEPT !.balances = Plus(@, Plus(Only(proof.consumer, -proof.fee),
                                                 Only(proof.worker, proof.fee + proof.stake))),
                       !.pending = Without(@, pid),
                       !.settled = Append(@, pid),
                       !.entries = @ \cup {Entry("proof_settled", pid, currentBlock)}]

\* A pass looks at the items the dict held when it began.
VerifyEach(s, items) ==
    LET after[k \in 0 .. Len(items)] == IF k = 0 THEN s ELSE Verify(after[k - 1], items[k])
    IN  after[Len(items)]
SettleEach(s, items) ==
    LET after[k \in 0 .. Len(items)] == IF k = 0 THEN s ELSE Settle(after[k - 1], items[k])
    IN  after[Len(items)]

Books ==
    [balances |-> balances, pending |-> pending, slashed |-> slashed, settled |-> settled,
     entries |-> entries, created |-> created, verified |-> verified]

ProcessPending ==
    LET checked == VerifyEach(Books, pending)
        after == SettleEach(checked, checked.pending)
    IN  /\ pending # << >>
        /\ balances' = after.balances
        /\ other' = [a \in Accounts |-> other[a] + after.balances[a] - balances[a]]
        /\ pending' = after.pending
        /\ slashed' = after.slashed
        /\ settled' = after.settled
        /\ entries' = after.entries
        /\ created' = after.created
        /\ verified' = after.verified
        /\ UNCHANGED <<chainVars, challenges, currentBlock, submits, raised, burned, forgetful>>

NextBlock ==
    /\ currentBlock < MaxNow
    /\ currentBlock' = currentBlock + 1
    /\ UNCHANGED <<balances, chainVars, pending, challenges, settled, slashed, entries,
                   submits, raised, other, historyVars>>

\* Ledger.rollback_to_block: entries of later blocks are gone.
LedgerRollback(block) ==
    /\ \E e \in entries : e.block > block
    /\ entries' = {e \in entries : e.block <= block}
    /\ forgetful' = TRUE
    /\ UNCHANGED <<balances, chainVars, pending, challenges, settled, slashed, currentBlock,
                   submits, raised, other, created, burned, verified>>

----------------------------------------------------------------------------
CoreNext ==
    \/ \E n \in 1 .. MaxBlockJobs : \E proofs \in [1 .. n -> Jobs] : Build(proofs)
    \/ \E block \in built : ApplyBlock(block) \/ Discard(block)
    \/ \E h \in 0 .. Height : Rollback(h)
    \/ \E tx \in Transfers, nonce \in 0 .. MaxNonce : ApplyTransfer(tx, nonce)
    \/ \E a \in Accounts : ApplyFaucetClaim(a)
    \/ \E a \in Workers, profile \in Profiles : RegisterProfile(a, profile)
    \/ \E p \in Proofs : SubmitProof(p)
    \/ \E a \in Challengers, pid \in Pids, claim \in Outputs : SubmitChallenge(a, pid, claim)
    \/ \E id \in DOMAIN challenges, correct \in Outputs : ResolveChallenge(id, correct)
    \/ ProcessPending
    \/ NextBlock
    \/ \E block \in 0 .. MaxNow : LedgerRollback(block)

CoreSpec == CoreInit /\ [][CoreNext]_coreVars

----------------------------------------------------------------------------
(* Ledger queries.                                                         *)

Types(pid) == {e.type : e \in {x \in entries : x.ref = pid}}

ProofStatus(pid) ==
    CASE "proof_slashed" \in Types(pid) -> "slashed"
      [] "proof_slashed" \notin Types(pid) /\ "proof_settled" \in Types(pid) -> "settled"
      [] Types(pid) \cap {"proof_slashed", "proof_settled"} = {}
         /\ "proof_approved" \in Types(pid) -> "approved"
      [] Types(pid) = {"proof_pending"} -> "pending"
      [] OTHER -> "unknown"

----------------------------------------------------------------------------
(* Properties.                                                             *)

Lists == Seq(Seq(Jobs))
Block == [index : Nat, prev : Lists, jobs : Seq(Jobs), hash : Lists]
Item == [pid : Pids, status : {"pending", "approved", "challenged"}]
EntryTypes == {"proof_pending", "proof_approved", "proof_settled", "proof_slashed"}

CoreTypeOK ==
    /\ {balances, other} \subseteq [Accounts -> Int]
    /\ blocks \in Seq(Block) /\ built \subseteq Block
    /\ spent \subseteq Jobs /\ claimed \subseteq Accounts
    /\ nonces \in [Accounts -> Nat]
    /\ profiles \in [Accounts -> {<< >>} \cup {<<p>> : p \in Profiles}]
    /\ pending \in Seq(Item)
    /\ IsFiniteSet(DOMAIN challenges)
    /\ \A id \in DOMAIN challenges :
          /\ id \in Pids \X Accounts \X (0 .. MaxNow)
          /\ challenges[id] \in [claim : Outputs, resolved : BOOLEAN]
    /\ {settled, slashed} \subseteq Seq(Pids)
    /\ entries \subseteq [type : EntryTypes, ref : Pids, block : 0 .. MaxNow]
    /\ currentBlock \in 0 .. MaxNow /\ {submits, raised} \subseteq Nat
    /\ {created, burned} \subseteq Int
    /\ verified \subseteq Pids /\ forgetful \in BOOLEAN

\* A line of blocks, each on the one before.
ChainLine ==
    \A i \in DOMAIN blocks :
        /\ blocks[i].index = i
        /\ blocks[i].prev = (IF i = 1 THEN << >> ELSE blocks[i - 1].hash)

\* The spent jobs are those of the blocks, and no job is in two of them.
JobsOnce ==
    /\ spent = UNION {Range(blocks[i].jobs) : i \in DOMAIN blocks}
    /\ \A i, j \in DOMAIN blocks :
          i # j => Range(blocks[i].jobs) \cap Range(blocks[j].jobs) = {}

BalancesExact ==
    \A a \in Accounts : balances[a] = Genesis[a] + other[a] + FlowOf(blocks, a)

ProfilesFit ==
    \A a \in Accounts, t \in DOMAIN TaskTier :
        profiles[a] # << >> /\ t \in profiles[a][1].tasks => CanHandle(profiles[a][1], t)

\* The chain is a line of blocks, no job is in two of them, and the spent jobs
\* and every balance are exactly what the blocks still on the chain and the
\* movements outside of blocks add up to: through forks, late blocks and
\* rollbacks (apply_block, rollback).
ChainSound == CoreTypeOK /\ ChainLine /\ JobsOnce /\ BalancesExact /\ ProfilesFit

Staked(pool) == SumFunctionOnSet([pid \in PidsOf(pool) |-> Stake(pid)], PidsOf(pool))
Open == {id \in DOMAIN challenges : ~challenges[id].resolved}

\* ECU is in a balance or locked in the pool, but for the leaks the code has: a
\* slash creates the validator's stake, a fee below zero what its sender gains,
\* and a proof or challenge submitted over itself burns one (OptimisticPool
\* against any history of challenges, settlements, transfers and rollbacks).
MoneyExact ==
    SumFunctionOnSet(balances, Accounts) + Staked(pending) + ChallengeStake * Cardinality(Open)
    = SumFunctionOnSet(Genesis, Accounts) + created - burned

\* Both books at once: the chain's account of every balance, and the whole of ECU.
BooksHold == ChainSound /\ MoneyExact

\* Whatever was challenged, lost, resubmitted or resolved wrongly in between, a
\* proof settles only on an approval of its own right output, and only after
\* its window; its money leaves the pool in one way per submission; and the
\* ledger, unless rolled back, says settled or slashed of no other proof
\* (process_block, process_pending).
OnlyVerifiedSettles ==
    /\ \A pid \in Range(settled) :
          /\ Right(pid)
          /\ currentBlock >= pid[2] + Window
    /\ \A i \in DOMAIN pending : pending[i].status = "approved" => pending[i].pid \in verified
    /\ Len(settled) + Len(slashed) + Len(pending) <= submits
    /\ \A pid \in Pids :
          /\ ProofStatus(pid) = "settled" => pid \in Range(settled)
          /\ ProofStatus(pid) = "slashed" => pid \in Range(slashed)
          /\ ~forgetful /\ pid \in Range(settled) => ProofStatus(pid) = "settled"

=============================================================================
