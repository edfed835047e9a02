------------------------------ MODULE MCNewflow ------------------------------
(***************************************************************************)
(* Three accounts, two jobs that verify and one that does not, a right and *)
(* a fake proof, and a window of one block.                                *)
(***************************************************************************)
EXTENDS Newflow, TLC

CONSTANTS worker, consumer, validator, j1, j2, bad, good, fake, render

MCGenesis == (worker :> 6) @@ (consumer :> 2) @@ (validator :> 2)
MCJobOf == [j \in Jobs |->
    [consumer |-> consumer, worker |-> worker, fee |-> 1, computed |-> TRUE,
     agreed |-> [worker |-> worker, fee |-> IF j = bad THEN 0 ELSE 1]]]
MCProofOf == [p \in Proofs |->
    [worker |-> worker, consumer |-> consumer, fee |-> 1, stake |-> 3,
     output |-> IF p = good THEN "right" ELSE "fake"]]
MCTransfers ==
    {[sender |-> worker, receiver |-> consumer, amount |-> 1, fee |-> 1],
     [sender |-> consumer, receiver |-> worker, amount |-> 1, fee |-> -1]}
MCProfiles == {[tier |-> 1, tasks |-> {render}], [tier |-> 2, tasks |-> {render}]}
MCTaskTier == render :> 2

\* Blocks and the pool meet in the balances only, and each side's movements are
\* arbitrary to the other: a behaviour uses one of the two, beside a transfer with
\* a fee.  Profiles, and the transfer whose fee is below zero, meet neither.
NobodyRegistered == \A a \in Workers : profiles[a] = << >>
FeesPaid == nonces[consumer] = 0
PoolUnused == submits = 0 /\ currentBlock = 0
ChainUnused == built = {} /\ blocks = << >>
OneSide ==
    \/ PoolUnused /\ ChainUnused
    \/ PoolUnused /\ NobodyRegistered /\ FeesPaid
    \/ ChainUnused /\ claimed = {} /\ NobodyRegistered /\ FeesPaid
=============================================================================
