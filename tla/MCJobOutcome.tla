---------------------------- MODULE MCJobOutcome ----------------------------
(***************************************************************************)
(* Two benchmarked workers and a newcomer, in a poor and a rich country,   *)
(* and two jobs, of which the secrets select some.                         *)
(***************************************************************************)
EXTENDS JobOutcome, TLC

CONSTANTS old, peer, new, poor, rich, unknown, j1, j2

MCCountry == old :> poor @@ peer :> rich @@ new :> poor
MCContext == poor :> 125 @@ rich :> 80 @@ unknown :> 100
\* The second job is worth a mint where C is 1 or more.
MCWorth == j1 :> [witnesses |-> 3, sacrifice |-> 1, product |-> 200]
           @@ j2 :> [witnesses |-> 3, sacrifice |-> 1, product |-> 100]
MCDrawn == {<<1, j1>>, <<2, j2>>, <<2, j1>>}

\* What a newcomer's registration and benchmark do, and what deliveries do, meet
\* only in the request, and what a mint comes to does not touch the selection: a
\* behaviour shows one of the three.
GateSide ==
    /\ calls = 0 /\ chain = << >> /\ epochs = << >> /\ now <= 1
    /\ peer \notin registering /\ challenges[peer] = None
    /\ jobs[j2] = None /\ (jobs[j1] = None \/ jobs[j1].worker = new)

NobodyNew == /\ registering = {} /\ writes = << >> /\ tries = 0 /\ rows[new] = "absent"
             /\ \A w \in Workers : challenges[w] = None

\* One job, mined up to three times, with audit rewards, stops and failures; the third
\* time only when nothing of it was delivered.
MintSide ==
    /\ NobodyNew /\ epochs = << >> /\ jobs[j2] = None
    /\ \A k \in DOMAIN chain : chain[k].job = j1
    /\ \/ calls <= 2 /\ Cardinality(delivering) <= 1
       \/ boots = 0 /\ chain = << >>

\* Two jobs of one worker, or one job twice, delivered and minted with no failure; the
\* last second only when no row is missing and nothing stopped.
SelectionSide ==
    /\ now <= 1 \/ (boots = 0 /\ missing = {})
    /\ NobodyNew /\ calls <= 2 /\ uncounted = 0 /\ members = rows /\ unread = {}
    /\ \A j \in Jobs : jobs[j] = None \/ jobs[j].worker = old
    /\ Cardinality({k \in DOMAIN chain : chain[k].type = "job_complete"}) = calls
    /\ Cardinality({i \in DOMAIN activity : activity[i].kind = "energy"}) = calls

OneSide == GateSide \/ MintSide \/ SelectionSide
=============================================================================
