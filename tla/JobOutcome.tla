----------------------------- MODULE JobOutcome -----------------------------
(***************************************************************************)
(* A job from its acceptance to its outcome: MintGate decides who is given *)
(* it and what it mints, SamplingEpochs whether it is audited.  Between    *)
(* the two, job_complete awaits: time passes, other jobs are delivered,    *)
(* the job itself is requested and delivered again, the epoch ends, or the *)
(* process stops.                                                          *)
(***************************************************************************)
EXTENDS MintGate, SamplingEpochs

ASSUME JobOutcomeAssumption ==
    Sampled \subseteq Jobs /\ EpochLength \in Nat \ {0} /\ MaxFaults \in Nat

VARIABLE
    delivering    \* job_completes between their row in the chain and their end

vars == <<mintGateVars, epochVars, delivering>>

Init == MintGateInit /\ EpochsInit /\ delivering = {}

\* The benchmark, registration, requests and rewards, and a delivery that fails;
\* nothing of it is sampled.
Before ==
    /\ \/ \E w \in Workers : Register(w) \/ Issue(w) \/ Submit(w) \/ Reward(w)
       \/ \E v \in verifying : Activate(v) \/ \E right \in BOOLEAN : SpotCheck(v, right)
       \/ Flush
       \/ \E j \in Jobs, w \in Workers : Request(j, w)
       \/ \E j \in Jobs : FailDelivery(j)
       \/ Tick
    /\ UNCHANGED <<epochVars, delivering>>

\* job_complete up to its awaits, and its row in the chain.
Completed(j) ==
    /\ Deliver(j)
    /\ chain' = Append(chain, JobRow(j, now))
    /\ delivering' = delivering \cup {[job |-> j, row |-> Len(chain) + 1]}
    /\ UNCHANGED <<epochs, audits, ran, missing>>

\* The rest of job_complete, which keeps the job it read.
Sampling(d) ==
    /\ delivering' = delivering \ {d}
    /\ \E failed \in SUBSET Range(Events(d.job, now)) : MaybeOpen(d.job, d.row, now, failed)
    /\ UNCHANGED mintGateVars

\* maybe_open as far as it gets.
Cut(d) == \E n \in 0 .. Len(Events(d.job, now)), opened \in BOOLEAN :
              CutOpening(d.job, now, n, opened)

\* maybe_open raises, in its first transaction or later, and is passed over.
FailSampling(d) ==
    /\ delivering' = delivering \ {d}
    /\ UNCHANGED epochVars \/ Cut(d)
    /\ UNCHANGED mintGateVars

Crash ==
    /\ \E readable \in BOOLEAN : Stopped(readable)
    /\ delivering' = {}
    /\ UNCHANGED <<mintVars, unread, epochVars>>

CrashInDelivery(j) ==
    /\ \E readable \in BOOLEAN : CutDelivery(j, readable)
    /\ delivering' = {}
    /\ UNCHANGED epochVars

CrashInSampling(d) ==
    /\ \E readable \in BOOLEAN : Stopped(readable)
    /\ delivering' = {}
    /\ Cut(d)
    /\ UNCHANGED <<mintVars, unread>>

Next ==
    \/ Before
    \/ Crash
    \/ \E j \in Jobs : Completed(j) \/ CrashInDelivery(j)
    \/ \E d \in delivering : Sampling(d) \/ FailSampling(d) \/ CrashInSampling(d)

Spec == Init /\ [][Next]_vars
=============================================================================
