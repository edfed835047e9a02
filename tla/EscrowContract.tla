--------------------------- MODULE EscrowContract ---------------------------
(***************************************************************************)
(* What hexis_stake.py promises two parties who lock ECU for a job, with   *)
(* no ledger, queue, clock, registry or process in sight: a deal takes     *)
(* what both agreed to put up, once, and pays it all out, once, in one of  *)
(* four ways.  JobEscrow is shown to implement this module.                *)
(***************************************************************************)
EXTENDS Integers

CONSTANTS
    Actors,    \* the parties
    Deals,     \* the locks that can be made
    Offers,    \* what two parties can agree to put up
    Opening    \* what each party starts with

VARIABLES
    wallet,    \* what each actor can spend
    deal       \* each deal: its offer and how it stands

vars == <<wallet, deal>>

Outcomes == {"delivered", "unwound", "consumer_faulted", "worker_faulted"}

\* What each side walks away with.
ToConsumer(o, outcome) ==
    CASE outcome = "delivered"        -> o.ca
      [] outcome = "unwound"          -> o.ca + o.fee
      [] outcome = "consumer_faulted" -> 0
      [] outcome = "worker_faulted"   -> o.ca + o.fee

ToWorker(o, outcome) ==
    CASE outcome = "delivered"        -> o.wa + o.fee
      [] outcome = "unwound"          -> o.wa
      [] outcome = "consumer_faulted" -> o.wa + o.fee
      [] outcome = "worker_faulted"   -> 0

Init ==
    /\ wallet = Opening
    /\ deal \in [Deals -> [is : {"none"}, offer : Offers]]

\* Money enters from outside, or moves between two wallets.
Deposit(a) ==
    /\ wallet'[a] > wallet[a]
    /\ wallet' = [wallet EXCEPT ![a] = wallet'[a]]
    /\ UNCHANGED deal

Move(a, b) ==
    /\ wallet'[a] \in 0..wallet[a]
    /\ wallet' = [wallet EXCEPT ![a] = wallet'[a], ![b] = @ + wallet[a] - wallet'[a]]
    /\ UNCHANGED deal

Hold(d, o) ==
    /\ deal[d].is = "none"
    /\ o.c # o.w
    /\ wallet[o.c] >= o.ca + o.fee
    /\ wallet[o.w] >= o.wa
    /\ wallet' = [wallet EXCEPT ![o.c] = @ - (o.ca + o.fee), ![o.w] = @ - o.wa]
    /\ deal' = [deal EXCEPT ![d] = [is |-> "held", offer |-> o]]

PayOut(d, outcome) ==
    /\ deal[d].is = "held"
    /\ LET o == deal[d].offer IN
         wallet' = [wallet EXCEPT ![o.c] = @ + ToConsumer(o, outcome),
                                  ![o.w] = @ + ToWorker(o, outcome)]
    /\ deal' = [deal EXCEPT ![d].is = outcome]

Next ==
    \/ \E a \in Actors : Deposit(a)
    \/ \E a, b \in Actors : Move(a, b)
    \/ \E d \in Deals : \E o \in Offers : Hold(d, o)
    \/ \E d \in Deals : \E outcome \in Outcomes : PayOut(d, outcome)

Spec == Init /\ [][Next]_vars
=============================================================================
