---------------------------- MODULE Sampling_proofs ----------------------------
(***************************************************************************)
(* What an audit may do to a worker and to a validator, for any number of  *)
(* actors and audits, any quorum, any expiries, and any number of failed   *)
(* transfers and calls cut short.                                          *)
(*                                                                         *)
(* A verdict is final and backed, and the innocent are not harmed, because *)
(* of what holds between the steps of a call: the audit being assigned is  *)
(* nobody else's, the stakes about to be paid are locked, and a stake      *)
(* about to be slashed is a dissenter's.  The stake pool is exact because  *)
(* nobody can take an audit in which a stake of its own still waits.       *)
(***************************************************************************)
EXTENDS Sampling, FiniteSetTheorems, TLAPS

FewLiars == Cardinality(Actors \ Honest) < Quorum

\* Of one audit, its votes, its stakes and what a conviction took: who may have
\* voted, what honest actors say, what the status and the stakes rest on.
AuditSound(r, V, S, c) ==
    /\ r.status # "none" => r.worker \in Actors
    /\ r.status = "none" => c = 0 /\ \A v \in Actors : V[v] = None
    /\ r.worker \in Honest => r.result = Right
    /\ \A v \in Actors : V[v] # None => v # r.worker /\ <<v, r.worker>> \notin Related
    /\ \A v \in Honest : V[v] \in {None, Right}
    /\ r.status = "assigned" =>
          r.validator # r.worker /\ <<r.validator, r.worker>> \notin Related
    /\ r.status = "passed" => r.validator \in Actors /\ V[r.validator] = r.result
    /\ r.status = "failed" =>
          \E x \in Results \ {r.result} : Cardinality({v \in Actors : V[v] = x}) >= Quorum
    /\ \A v \in Actors : S[v] \in {"released", "slashed"} => V[v] # None

\* What an innocent worker and its honest validators keep.
AuditHarmless(r, S, c) ==
    FewLiars /\ r.worker \in Honest =>
        /\ r.status # "failed"
        /\ c = 0
        /\ \A v \in Honest : S[v] # "slashed"

Sound(a) == AuditSound(audits[a], votes[a], stakes[a], clawed[a])
Unharmed(a) == AuditHarmless(audits[a], stakes[a], clawed[a])

\* Of the call under way.
CallOK ==
    /\ call.pc # "idle" => call.who \in Actors
    /\ call.pc # "pay" => call.plan = {} /\ call.done = {}
    /\ call.pc \in {"lock", "row", "deny"} =>
          /\ call.audit \in Audits
          /\ audits[call.audit].status = "assigned"
          /\ votes[call.audit][call.who] = None
          /\ call.prev \in {"pending", "contested"}
    /\ call.pc \in {"reward", "claw", "take", "report", "resolve"} =>
          /\ call.audit \in Audits
          /\ audits[call.audit].status # "none"
    /\ call.pc \in {"claw", "take", "report"} => audits[call.audit].status = "failed"
    /\ call.pc = "resolve" => audits[call.audit].status \in Final

\* Of the stakes it is about to pay.
PlanOK ==
    \A p \in call.plan \cup call.done :
        /\ stakes[p.audit][p.by] = "locked"
        /\ p.to \in {"released", "slashed"} => votes[p.audit][p.by] # None
        /\ FewLiars /\ audits[p.audit].worker \in Honest /\ p.by \in Honest
              => p.to # "slashed"

IInv ==
    /\ TypeOK
    /\ \A a \in Audits : Sound(a) /\ Unharmed(a)
    /\ CallOK
    /\ PlanOK

-----------------------------------------------------------------------------
(* Money *)

Accounts == Actors \cup {Pool, Reserve}

\* A transfer overdraws nobody, whether the money moves or not.
LEMMA TransferTyped ==
    ASSUME escrow \in [Accounts -> Nat], faults \in Nat,
           NEW x \in Accounts, NEW y \in Accounts, NEW n \in Nat,
           Moves(x, y, n) \/ Fails(x, n)
    PROVE  escrow' \in [Accounts -> Nat] /\ faults' \in Nat
  <1>1. CASE Moves(x, y, n)
    <2>1. escrow[x] - n \in Nat
      BY <1>1 DEF Moves, Covered
    <2> QED BY <1>1, <2>1 DEF Moves
  <1>2. CASE Fails(x, n)
    BY <1>2 DEF Fails
  <1> QED BY <1>1, <1>2

-----------------------------------------------------------------------------
(* Steps that leave the three tables alone *)

LEMMA AuditKept ==
    ASSUME NEW a \in Audits, Sound(a), Unharmed(a),
           audits'[a] = audits[a], votes'[a] = votes[a], stakes'[a] = stakes[a],
           clawed'[a] = clawed[a]
    PROVE  Sound(a)' /\ Unharmed(a)'
  BY DEF Sound, Unharmed

LEMMA TablesKept ==
    ASSUME IInv, UNCHANGED <<tables, clawed>>
    PROVE  \A a \in Audits : Sound(a)' /\ Unharmed(a)'
  BY AuditKept DEF IInv, tables

\* A step that moves money and the call under way.
LEMMA MoneyStep ==
    ASSUME IInv,
           \/ LockStake \/ Reward \/ ClawRead \/ ClawTake \/ ClawReport
           \/ PayStake \/ StopCall \/ Tick
           \/ \E x \in Actors : \E n \in SpendAmounts : Spend(x, n)
    PROVE  TypeOK'
  <1> USE DEF IInv
  <1>1. LockStake => TypeOK'
    <2> SUFFICES ASSUME LockStake PROVE TypeOK'
      OBVIOUS
    <2>1. call.who \in Accounts /\ Pool \in Accounts /\ Stake \in Nat
      BY SamplingAssumption DEF LockStake, CallOK, Accounts
    <2>2. escrow' \in [Accounts -> Nat] /\ faults' \in Nat
      BY <2>1, TransferTyped DEF LockStake, TypeOK, Accounts
    <2>3. call' \in Call
      BY DEF LockStake, TypeOK, Call, Steps
    <2> QED BY <2>2, <2>3 DEF LockStake, TypeOK, tables, convictions, Accounts
  <1>2. Reward => TypeOK'
    <2> SUFFICES ASSUME Reward PROVE TypeOK'
      OBVIOUS
    <2>1. call.who \in Accounts /\ Fee \in Nat
      BY SamplingAssumption DEF Reward, CallOK, Accounts
    <2>2. escrow' \in [Accounts -> Nat] /\ faults' \in Nat
      BY <2>1 DEF Reward, TypeOK, Accounts
    <2>3. call' \in Call
      BY DEF Reward, TypeOK, Call, Steps, Idle, AuditStatuses
    <2> QED BY <2>2, <2>3 DEF Reward, TypeOK, tables, convictions, Accounts
  <1>3. ClawRead => TypeOK'
    <2> SUFFICES ASSUME ClawRead PROVE TypeOK'
      OBVIOUS
    <2>1. Convicted \in Actors
      BY DEF ClawRead, CallOK, Sound, AuditSound, Convicted
    <2>2. escrow[Convicted] \in Nat /\ Value \in Nat
      BY <2>1, SamplingAssumption DEF TypeOK
    <2>3. call' \in Call
      BY <2>2 DEF ClawRead, TypeOK, Call, Steps
    <2> QED BY <2>3 DEF ClawRead, TypeOK, tables, ledger, convictions
  <1>4. ClawTake => TypeOK'
    <2> SUFFICES ASSUME ClawTake PROVE TypeOK'
      OBVIOUS
    <2>1. Convicted \in Accounts /\ Reserve \in Accounts /\ call.amount \in Nat
      BY DEF ClawTake, CallOK, Sound, AuditSound, Convicted, TypeOK, Call, Accounts
    <2>2. escrow' \in [Accounts -> Nat] /\ faults' \in Nat
      BY <2>1, TransferTyped DEF ClawTake, TypeOK, Accounts
    <2>3. call' \in Call /\ clawed' \in [Audits -> Nat]
      BY <2>1 DEF ClawTake, TypeOK, Call, Steps
    <2> QED BY <2>2, <2>3 DEF ClawTake, TypeOK, tables, Accounts
  <1>5. ClawReport => TypeOK'
    <2> SUFFICES ASSUME ClawReport PROVE TypeOK'
      OBVIOUS
    <2>1. call.amount \in Nat /\ call' \in Call
      BY DEF ClawReport, TypeOK, Call, Steps
    <2>2. incident' \in [Audits -> Nat] /\ faults' \in Nat
      BY <2>1 DEF ClawReport, TypeOK
    <2> QED BY <2>1, <2>2 DEF ClawReport, TypeOK, tables
  <1>6. PayStake => TypeOK'
    <2> SUFFICES ASSUME NEW p \in call.plan, PayStake,
                        \/ Moves(Pool, IF p.to = "slashed" THEN Reserve ELSE p.by, Stake)
                        \/ Fails(Pool, Stake),
                        call' = [call EXCEPT !.plan = @ \ {p}, !.done = @ \cup {p}]
                 PROVE  TypeOK'
      BY DEF PayStake
    <2>1. p \in Payment
      BY DEF TypeOK, Call
    <2>2. /\ Pool \in Accounts /\ Stake \in Nat
          /\ (IF p.to = "slashed" THEN Reserve ELSE p.by) \in Accounts
      BY <2>1, SamplingAssumption DEF Payment, Accounts
    <2>3. escrow' \in [Accounts -> Nat] /\ faults' \in Nat
      BY <2>2, TransferTyped DEF TypeOK, Accounts
    <2>4. call' \in Call
      BY <2>1 DEF TypeOK, Call
    <2> QED BY <2>3, <2>4 DEF PayStake, TypeOK, tables, convictions, Accounts
  <1>7. StopCall => TypeOK'
    BY DEF StopCall, TypeOK, Call, Idle, Steps, AuditStatuses, tables, convictions
  <1>8. Tick => TypeOK'
    BY DEF Tick, TypeOK, tables, ledger, convictions
  <1>9. ASSUME NEW x \in Actors, NEW n \in SpendAmounts, Spend(x, n) PROVE TypeOK'
    <2>1. n \in Nat
      BY SamplingAssumption
    <2>2. escrow[x] - n \in Nat
      BY <1>9, <2>1 DEF Spend, TypeOK
    <2> QED BY <1>9, <2>2 DEF Spend, TypeOK, tables, convictions
  <1> QED BY <1>1, <1>2, <1>3, <1>4, <1>5, <1>6, <1>7, <1>8, <1>9

\* What those steps make of the call and of its plan.
LEMMA MoneyStepCall ==
    ASSUME IInv,
           \/ LockStake \/ Reward \/ ClawRead \/ ClawTake \/ ClawReport
           \/ PayStake \/ StopCall \/ Tick
           \/ \E x \in Actors : \E n \in SpendAmounts : Spend(x, n)
    PROVE  CallOK' /\ PlanOK'
  <1> USE DEF IInv
  <1>1. LockStake \/ Reward => CallOK' /\ PlanOK'
    <2> SUFFICES ASSUME LockStake \/ Reward PROVE CallOK' /\ PlanOK'
      OBVIOUS
    <2>1. call' = Idle \/ \E pc \in {"row", "deny", "claw", "resolve"} :
                               call' = [call EXCEPT !.pc = pc]
      BY DEF LockStake, Reward
    <2>2. UNCHANGED tables
      BY DEF LockStake, Reward
    <2>3. call'.plan = {} /\ call'.done = {}
      <3>1. call.plan = {} /\ call.done = {} /\ call \in Call
        BY DEF LockStake, Reward, CallOK, TypeOK
      <3> QED BY <2>1, <3>1 DEF Call, Idle
    <2>4. PlanOK'
      BY <2>3 DEF PlanOK
    <2>5. LockStake => CallOK'
      BY <2>2 DEF LockStake, CallOK, TypeOK, Call, tables
    <2>6. Reward => CallOK'
      BY <2>2 DEF Reward, CallOK, TypeOK, Call, Idle, tables, Final
    <2> QED BY <2>4, <2>5, <2>6
  <1>2. ClawRead \/ ClawTake \/ ClawReport => CallOK' /\ PlanOK'
    BY DEF ClawRead, ClawTake, ClawReport, CallOK, PlanOK, TypeOK, Call, tables, Final
  <1>3. PayStake => CallOK' /\ PlanOK'
    <2> SUFFICES ASSUME NEW p \in call.plan, call.pc = "pay", UNCHANGED tables,
                        call' = [call EXCEPT !.plan = @ \ {p}, !.done = @ \cup {p}]
                 PROVE  CallOK' /\ PlanOK'
      BY DEF PayStake
    <2>1. /\ call'.pc = "pay" /\ call'.who = call.who
          /\ call'.plan \cup call'.done = call.plan \cup call.done
      BY DEF TypeOK, Call
    <2> QED BY <2>1 DEF CallOK, PlanOK, tables
  <1>4. StopCall => CallOK' /\ PlanOK'
    BY DEF StopCall, CallOK, PlanOK, Idle
  <1>5. Tick => CallOK' /\ PlanOK'
    BY DEF Tick, CallOK, PlanOK, tables
  <1>6. ASSUME NEW x \in Actors, NEW n \in SpendAmounts, Spend(x, n)
        PROVE  CallOK' /\ PlanOK'
    BY <1>6 DEF Spend, CallOK, PlanOK, tables
  <1> QED BY <1>1, <1>2, <1>3, <1>4, <1>5, <1>6

\* The clawback takes money from a convicted worker: not from an innocent one.
LEMMA MoneyStepUnharmed ==
    ASSUME IInv,
           \/ LockStake \/ Reward \/ ClawRead \/ ClawTake \/ ClawReport
           \/ PayStake \/ StopCall \/ Tick
           \/ \E x \in Actors : \E n \in SpendAmounts : Spend(x, n)
    PROVE  \A a \in Audits : Sound(a)' /\ Unharmed(a)'
  <1>1. CASE UNCHANGED <<tables, clawed>>
    BY <1>1, TablesKept
  <1>2. CASE ClawTake /\ clawed' = [clawed EXCEPT ![call.audit] = call.amount]
    <2>1. call.audit \in Audits /\ audits[call.audit].status = "failed"
      BY <1>2 DEF ClawTake, IInv, CallOK
    <2>2. UNCHANGED tables
      BY <1>2 DEF ClawTake
    <2>3. ASSUME NEW a \in Audits, a # call.audit PROVE Sound(a)' /\ Unharmed(a)'
      <3>1. clawed'[a] = clawed[a]
        BY <1>2, <2>3 DEF IInv, TypeOK
      <3> QED BY <2>2, <3>1, AuditKept DEF IInv, tables
    <2>4. ASSUME NEW r, NEW V, NEW S, NEW c, NEW d,
                 r.status = "failed", AuditSound(r, V, S, c)
          PROVE  AuditSound(r, V, S, d)
      <3>1. r.status # "none"
        BY <2>4
      <3> QED BY <2>4, <3>1 DEF AuditSound
    <2>5. ASSUME NEW a \in Audits, a = call.audit PROVE Sound(a)' /\ Unharmed(a)'
      <3>1. Sound(a)'
        BY <2>1, <2>2, <2>4, <2>5 DEF IInv, Sound, tables
      <3>2. ~(FewLiars /\ audits[a].worker \in Honest)
        BY <2>1, <2>5 DEF IInv, Unharmed, AuditHarmless
      <3>3. Unharmed(a)'
        BY <2>2, <3>2 DEF Unharmed, AuditHarmless, FewLiars, tables
      <3> QED BY <3>1, <3>3
    <2> QED BY <2>3, <2>5
  <1>3. ClawTake => \/ UNCHANGED <<tables, clawed>>
                    \/ clawed' = [clawed EXCEPT ![call.audit] = call.amount]
    BY DEF ClawTake
  <1>4. \/ LockStake \/ Reward \/ ClawRead \/ ClawReport \/ PayStake \/ StopCall \/ Tick
        \/ \E x \in Actors : \E n \in SpendAmounts : Spend(x, n)
        => UNCHANGED <<tables, clawed>>
    BY DEF LockStake, Reward, ClawRead, ClawReport, PayStake, StopCall, Tick, Spend,
           convictions
  <1> QED BY <1>1, <1>2, <1>3, <1>4

-----------------------------------------------------------------------------
(* Steps that start a plan *)

LEMMA RefundStaleStep ==
    ASSUME IInv, NEW v \in Actors, RefundStale(v)
    PROVE  IInv'
  <1> USE DEF IInv
  <1> DEFINE stale == {p \in Payment : p.to = "refunded" /\ Stale(p.audit, p.by)}
  <1>1. call' = [Idle EXCEPT !.pc = IF stale = {} THEN "assign" ELSE "pay",
                             !.who = v, !.plan = stale]
    BY DEF RefundStale
  <1>2. /\ call'.pc \in {"assign", "pay"} /\ call'.who = v
        /\ call'.plan = stale /\ call'.done = {}
        /\ call'.pc = "assign" => stale = {}
    BY <1>1 DEF Idle
  <1>3. call' \in Call
    BY <1>1 DEF Idle, Call, Steps, AuditStatuses
  <1>4. TypeOK'
    BY <1>3 DEF RefundStale, TypeOK, tables, ledger, convictions
  <1>5. CallOK'
    BY <1>2 DEF CallOK
  <1>6. PlanOK'
    BY <1>2 DEF RefundStale, PlanOK, Stale, tables
  <1>7. \A a \in Audits : Sound(a)' /\ Unharmed(a)'
    BY TablesKept DEF RefundStale, convictions
  <1> QED BY <1>4, <1>5, <1>6, <1>7

\* Only dissent from a final verdict is slashed, and an honest validator of an
\* honest worker does not dissent.
LEMMA ResolveStakesStep ==
    ASSUME IInv, ResolveStakes
    PROVE  IInv'
  <1> USE DEF IInv
  <1> DEFINE a == call.audit
             locked == {v \in Actors : stakes[a][v] = "locked"}
             plan == {[audit |-> a, by |-> v, to |-> Deserts(a, v)] : v \in locked}
  <1>1. a \in Audits /\ audits[a].status \in Final
    BY DEF ResolveStakes, CallOK
  <1>2. call' = Idle \/ call' = [call EXCEPT !.pc = "pay", !.plan = plan]
    BY DEF ResolveStakes
  <1>3. \A v \in Actors : Deserts(a, v) \in {"released", "slashed", "refunded"}
    BY DEF Deserts
  <1>4. plan \subseteq Payment
    BY <1>1, <1>3 DEF Payment
  <1>5. call' \in Call
    <2> HIDE DEF plan
    <2>1. CASE call' = Idle
      BY <2>1 DEF Call, Idle, Steps, AuditStatuses
    <2>2. CASE call' = [call EXCEPT !.pc = "pay", !.plan = plan]
      BY <2>2, <1>4 DEF TypeOK, Call, Steps
    <2> QED BY <1>2, <2>1, <2>2
  <1>6. TypeOK'
    BY <1>5 DEF ResolveStakes, TypeOK, tables, ledger, convictions
  <1>7. \A b \in Audits : Sound(b)' /\ Unharmed(b)'
    BY TablesKept DEF ResolveStakes, convictions
  <1>8. CallOK'
    <2>1. CASE call' = Idle
      BY <2>1 DEF CallOK, Idle
    <2>2. CASE call' = [call EXCEPT !.pc = "pay", !.plan = plan]
      <3>1. call'.pc = "pay" /\ call'.who = call.who /\ call.pc # "idle"
        BY <2>2 DEF ResolveStakes, TypeOK, Call
      <3> QED BY <3>1 DEF CallOK
    <2> QED BY <1>2, <2>1, <2>2
  <1>9. ASSUME NEW v \in locked
        PROVE  /\ Deserts(a, v) \in {"released", "slashed"} => votes[a][v] # None
               /\ FewLiars /\ audits[a].worker \in Honest /\ v \in Honest
                     => Deserts(a, v) # "slashed"
    <2>1. Deserts(a, v) \in {"released", "slashed"} => votes[a][v] # None
      BY DEF Deserts
    <2>2. ASSUME FewLiars, audits[a].worker \in Honest, v \in Honest
          PROVE  Deserts(a, v) # "slashed"
      <3>1. audits[a].status = "passed"
        BY <1>1, <2>2 DEF Unharmed, AuditHarmless, Final
      <3>2. votes[a][audits[a].validator] = Right
        BY <1>1, <2>2, <3>1 DEF Sound, AuditSound
      <3>3. votes[a][v] \in {None, Right}
        BY <1>1, <2>2 DEF Sound, AuditSound
      <3> QED BY <3>2, <3>3 DEF Deserts
    <2> QED BY <2>1, <2>2
  <1>10. PlanOK'
    <2>1. CASE call' = Idle
      BY <2>1 DEF PlanOK, Idle
    <2>2. CASE call' = [call EXCEPT !.pc = "pay", !.plan = plan]
      <3>1. call'.plan = plan /\ call'.done = {}
        <4>1. call.done = {}
          BY DEF ResolveStakes, CallOK
        <4> HIDE DEF plan
        <4> QED BY <2>2, <4>1 DEF TypeOK, Call
      <3>2. UNCHANGED tables
        BY DEF ResolveStakes
      <3>3. \A p \in plan : /\ stakes[p.audit][p.by] = "locked"
                            /\ p.to \in {"released", "slashed"} => votes[p.audit][p.by] # None
                            /\ FewLiars /\ audits[p.audit].worker \in Honest /\ p.by \in Honest
                                  => p.to # "slashed"
        BY <1>9
      <3> QED BY <3>1, <3>2, <3>3 DEF PlanOK, tables
    <2> QED BY <1>2, <2>1, <2>2
  <1> QED BY <1>6, <1>7, <1>8, <1>10

-----------------------------------------------------------------------------
(* Steps that write the tables *)

LEMMA MaybeOpenStep ==
    ASSUME IInv, NEW a \in Audits, NEW w \in Actors, NEW x \in Results, MaybeOpen(a, w, x)
    PROVE  IInv'
  <1> USE DEF IInv
  <1> DEFINE new == [status |-> "pending", worker |-> w, result |-> x,
                     validator |-> None, created |-> now, assigned |-> 0]
  <1>1. new \in Audit
    BY DEF TypeOK, Audit, AuditStatuses
  <1>2. audits' = [audits EXCEPT ![a] = new]
    BY DEF MaybeOpen
  <1>3. /\ audits'[a] = new
        /\ \A b \in Audits \ {a} : audits'[b] = audits[b]
        /\ audits' \in [Audits -> Audit]
    BY <1>1, <1>2 DEF TypeOK
  <1>4. TypeOK'
    BY <1>3 DEF MaybeOpen, TypeOK, ledger, convictions
  <1>5. UNCHANGED <<votes, stakes, clawed, call>> /\ call.pc = "idle"
    BY DEF MaybeOpen, convictions
  <1>6. ASSUME NEW b \in Audits \ {a} PROVE Sound(b)' /\ Unharmed(b)'
    BY <1>3, <1>5, AuditKept
  <1>7. Sound(a)' /\ Unharmed(a)'
    <2>1. \A v \in Actors : votes[a][v] = None
      BY DEF MaybeOpen, Sound, AuditSound
    <2>2. w \in Honest => x = Right
      BY DEF MaybeOpen
    <2>3. Honest \subseteq Actors
      BY SamplingAssumption
    <2>4. \A v \in Actors : stakes[a][v] \notin {"released", "slashed"}
      BY <2>1 DEF Sound, AuditSound
    <2>5. clawed[a] = 0
      BY DEF MaybeOpen, Sound, AuditSound
    <2> QED BY <1>3, <1>5, <2>1, <2>2, <2>3, <2>4, <2>5 DEF Sound, AuditSound, Unharmed, AuditHarmless
  <1>8. CallOK' /\ PlanOK'
    BY <1>5 DEF CallOK, PlanOK
  <1> QED BY <1>4, <1>6, <1>7, <1>8

\* An overdue audit is reopened, and nothing else about it changes.
LEMMA ReclaimedSound ==
    ASSUME IInv
    PROVE  /\ Reclaimed \in [Audits -> Audit]
           /\ \A b \in Audits :
                 /\ AuditSound(Reclaimed[b], votes[b], stakes[b], clawed[b])
                 /\ AuditHarmless(Reclaimed[b], stakes[b], clawed[b])
                 /\ Reclaimed[b].worker = audits[b].worker
                 /\ audits[b].status \in Final => Reclaimed[b] = audits[b]
  <1> SUFFICES ASSUME NEW b \in Audits
               PROVE  /\ Reclaimed[b] \in Audit
                      /\ AuditSound(Reclaimed[b], votes[b], stakes[b], clawed[b])
                      /\ AuditHarmless(Reclaimed[b], stakes[b], clawed[b])
                      /\ Reclaimed[b].worker = audits[b].worker
                      /\ audits[b].status \in Final => Reclaimed[b] = audits[b]
    BY DEF Reclaimed
  <1>1. /\ audits[b] \in Audit
        /\ AuditSound(audits[b], votes[b], stakes[b], clawed[b])
        /\ AuditHarmless(audits[b], stakes[b], clawed[b])
    BY DEF IInv, TypeOK, Sound, Unharmed
  <1>2. CASE ~Overdue(b)
    BY <1>1, <1>2 DEF Reclaimed
  <1>3. CASE Overdue(b)
    <2> DEFINE r == [audits[b] EXCEPT !.status = "pending", !.validator = None, !.assigned = 0]
    <2>1. Reclaimed[b] = r /\ audits[b].status = "assigned"
      BY <1>3 DEF Reclaimed, Overdue
    <2>2. r \in Audit
      BY <1>1 DEF Audit, AuditStatuses
    <2>3. r.status = "pending" /\ r.worker = audits[b].worker /\ r.result = audits[b].result
      BY <1>1 DEF Audit
    <2> HIDE DEF r
    <2>4. AuditSound(r, votes[b], stakes[b], clawed[b])
      BY <1>1, <2>1, <2>3 DEF AuditSound
    <2>5. AuditHarmless(r, stakes[b], clawed[b])
      BY <1>1, <2>3 DEF AuditHarmless
    <2> QED BY <2>1, <2>2, <2>3, <2>4, <2>5 DEF Final
  <1> QED BY <1>2, <1>3

\* The audit assigned is one the validator may take.
LEMMA AssignStep ==
    ASSUME IInv, Assign
    PROVE  IInv'
  <1> USE DEF IInv
  <1> DEFINE v == call.who
             given(a) == [Reclaimed EXCEPT ![a].status = "assigned",
                                           ![a].validator = v, ![a].assigned = now]
             locking(a) == [call EXCEPT !.pc = "lock", !.audit = a,
                                        !.prev = Reclaimed[a].status]
  <1>1. UNCHANGED <<now, votes, stakes, ledger, convictions>>
    BY DEF Assign
  <1>2. v \in Actors /\ call.plan = {} /\ call.done = {}
    BY DEF Assign, CallOK
  <1>3. CASE audits' = Reclaimed /\ call' = Idle
    <2>1. TypeOK'
      BY <1>1, <1>3, ReclaimedSound
      DEF TypeOK, Call, Idle, Steps, AuditStatuses, ledger, convictions
    <2>2. \A b \in Audits : Sound(b)' /\ Unharmed(b)'
      BY <1>1, <1>3, ReclaimedSound DEF Sound, Unharmed, convictions
    <2>3. CallOK' /\ PlanOK'
      BY <1>3 DEF CallOK, PlanOK, Idle
    <2> QED BY <2>1, <2>2, <2>3
  <1>4. ASSUME NEW a \in Audits, Reclaimed[a].status \in {"pending", "contested"},
               MayAudit(v, a), audits' = given(a), call' = locking(a)
        PROVE  IInv'
    <2>1. Reclaimed[a] \in Audit
      BY ReclaimedSound
    <2> DEFINE r == [Reclaimed[a] EXCEPT !.status = "assigned", !.validator = v,
                                         !.assigned = now]
    <2>2. r \in Audit
      BY <1>2, <2>1 DEF Audit, AuditStatuses, TypeOK
    <2>3. /\ r.status = "assigned" /\ r.validator = v
          /\ r.worker = Reclaimed[a].worker /\ r.result = Reclaimed[a].result
      BY <2>1 DEF Audit
    <2>4. audits' = [Reclaimed EXCEPT ![a] = r]
      BY <1>4
    <2>5. audits'[a] = r /\ \A b \in Audits \ {a} : audits'[b] = Reclaimed[b]
      BY <2>4, ReclaimedSound
    <2>6. audits' \in [Audits -> Audit]
      BY <2>2, <2>4, ReclaimedSound
    <2> HIDE DEF r
    <2>7. AuditSound(r, votes[a], stakes[a], clawed[a])
      <3>1. AuditSound(Reclaimed[a], votes[a], stakes[a], clawed[a])
        BY ReclaimedSound
      <3>2. v # r.worker /\ <<v, r.worker>> \notin Related
        BY <1>4, <2>3 DEF MayAudit
      <3> QED BY <1>4, <2>3, <3>1, <3>2 DEF AuditSound
    <2>8. AuditHarmless(r, stakes[a], clawed[a])
      <3>1. AuditHarmless(Reclaimed[a], stakes[a], clawed[a])
        BY ReclaimedSound
      <3> QED BY <2>3, <3>1 DEF AuditHarmless
    <2>9. \A b \in Audits : Sound(b)' /\ Unharmed(b)'
      BY <1>1, <2>5, <2>7, <2>8, ReclaimedSound DEF Sound, Unharmed, convictions
    <2>10. /\ call'.pc = "lock" /\ call'.who = v /\ call'.audit = a
           /\ call'.prev = Reclaimed[a].status /\ call'.plan = {} /\ call'.done = {}
           /\ call' \in Call
      <3>1. call \in Call
        BY DEF TypeOK
      <3>2. Reclaimed[a].status \in AuditStatuses
        BY <2>1 DEF Audit
      <3> QED BY <1>2, <1>4, <3>1, <3>2 DEF Call, Steps
    <2>11. TypeOK'
      BY <1>1, <2>6, <2>10 DEF TypeOK, ledger, convictions
    <2>12. CallOK' /\ PlanOK'
      BY <1>1, <1>2, <1>4, <2>3, <2>5, <2>10 DEF CallOK, PlanOK, MayAudit
    <2> QED BY <2>9, <2>11, <2>12
  <1> QED BY <1>3, <1>4 DEF Assign

\* The stake gets its row: a validator that has not voted has nothing to lose yet.
LEMMA StakeRowStep ==
    ASSUME IInv, StakeRow
    PROVE  IInv'
  <1> USE DEF IInv
  <1>1. call.audit \in Audits /\ call.who \in Actors
    BY DEF StakeRow, CallOK
  <1>2. UNCHANGED <<now, audits, votes, ledger, convictions>> /\ call' = Idle
    BY DEF StakeRow
  <1>3. /\ stakes' \in [Audits -> [Actors -> StakeStatuses]]
        /\ \A a \in Audits : \A v \in Actors :
              stakes'[a][v] \in {stakes[a][v], "locked"}
    BY <1>1 DEF StakeRow, TypeOK, StakeStatuses
  <1>4. TypeOK'
    BY <1>2, <1>3 DEF TypeOK, Call, Idle, Steps, AuditStatuses, ledger, convictions
  <1>5. ASSUME NEW a \in Audits PROVE Sound(a)' /\ Unharmed(a)'
    <2>1. AuditSound(audits[a], votes[a], stakes'[a], clawed[a])
      BY <1>3 DEF Sound, AuditSound
    <2>2. AuditHarmless(audits[a], stakes'[a], clawed[a])
      BY <1>3, SamplingAssumption DEF Unharmed, AuditHarmless
    <2> QED BY <1>2, <2>1, <2>2 DEF Sound, Unharmed, convictions
  <1>6. CallOK' /\ PlanOK'
    BY <1>2 DEF CallOK, PlanOK, Idle
  <1> QED BY <1>4, <1>5, <1>6

\* Without a stake the audit is open again.
LEMMA DenyClaimStep ==
    ASSUME IInv, DenyClaim
    PROVE  IInv'
  <1> USE DEF IInv
  <1> DEFINE a == call.audit
             r == [audits[a] EXCEPT !.status = call.prev, !.validator = None, !.assigned = 0]
  <1>1. a \in Audits /\ audits[a].status = "assigned" /\ call.prev \in {"pending", "contested"}
    BY DEF DenyClaim, CallOK
  <1>2. UNCHANGED <<now, votes, stakes, ledger, convictions>> /\ call' = Idle
    BY DEF DenyClaim
  <1>3. audits' = [audits EXCEPT ![a] = r]
    BY DEF DenyClaim
  <1>4. audits[a] \in Audit
    BY <1>1 DEF TypeOK
  <1>5. r \in Audit
    BY <1>1, <1>4 DEF Audit, AuditStatuses
  <1>6. r.status = call.prev /\ r.worker = audits[a].worker /\ r.result = audits[a].result
    BY <1>4 DEF Audit
  <1> HIDE DEF r
  <1>7. /\ audits'[a] = r
        /\ \A b \in Audits \ {a} : audits'[b] = audits[b]
        /\ audits' \in [Audits -> Audit]
    BY <1>1, <1>3, <1>5 DEF TypeOK
  <1>8. AuditSound(r, votes[a], stakes[a], clawed[a])
    <2>1. AuditSound(audits[a], votes[a], stakes[a], clawed[a])
      BY <1>1 DEF Sound
    <2> QED BY <1>1, <1>6, <2>1 DEF AuditSound
  <1>9. AuditHarmless(r, stakes[a], clawed[a])
    <2>1. AuditHarmless(audits[a], stakes[a], clawed[a])
      BY <1>1 DEF Unharmed
    <2> QED BY <1>1, <1>6, <2>1 DEF AuditHarmless
  <1>10. ASSUME NEW b \in Audits PROVE Sound(b)' /\ Unharmed(b)'
    <2>1. CASE b = a
      BY <1>2, <1>7, <1>8, <1>9, <2>1 DEF Sound, Unharmed, convictions
    <2>2. CASE b # a
      BY <1>2, <1>7, <2>2, AuditKept DEF convictions
    <2> QED BY <2>1, <2>2
  <1>11. TypeOK'
    BY <1>2, <1>7 DEF TypeOK, Call, Idle, Steps, AuditStatuses, ledger, convictions
  <1>12. CallOK' /\ PlanOK'
    BY <1>2 DEF CallOK, PlanOK, Idle
  <1> QED BY <1>10, <1>11, <1>12

\* A vote that convicts an innocent worker takes a quorum of liars.
LEMMA SubmitVerdictStep ==
    ASSUME IInv, NEW v \in Actors, NEW a \in Audits, NEW x \in Results,
           SubmitVerdict(v, a, x)
    PROVE  IInv'
  <1> USE DEF IInv
  <1> DEFINE agree == {u \in Actors : votes'[a][u] = x}
             verdict == Verdict(a, x, agree)
             r == [audits[a] EXCEPT !.status = verdict]
  <1>1. /\ audits[a].status = "assigned" /\ audits[a].validator = v
        /\ votes[a][v] = None /\ (v \in Honest => x = Right) /\ call.pc = "idle"
    BY DEF SubmitVerdict
  <1>2. UNCHANGED <<now, stakes, ledger, convictions>>
    BY DEF SubmitVerdict
  <1>3. /\ votes' \in [Audits -> [Actors -> Results \cup {None}]]
        /\ \A b \in Audits \ {a} : votes'[b] = votes[b]
        /\ votes'[a][v] = x
        /\ \A u \in Actors \ {v} : votes'[a][u] = votes[a][u]
    BY DEF SubmitVerdict, TypeOK
  <1>4. /\ verdict \in {"passed", "failed", "contested"}
        /\ verdict = "passed" <=> x = audits[a].result
        /\ verdict = "failed" => Cardinality(agree) >= Quorum
    BY DEF Verdict
  <1>5. audits' = [audits EXCEPT ![a] = r] /\ audits[a] \in Audit
    BY DEF SubmitVerdict, TypeOK
  <1>6. /\ r \in Audit /\ r.status = verdict /\ r.worker = audits[a].worker
        /\ r.result = audits[a].result /\ r.validator = v
    <2> HIDE DEF verdict
    <2> QED BY <1>1, <1>4, <1>5 DEF Audit, AuditStatuses, Final
  <1>7. x # None
    BY SamplingAssumption
  <1>8. /\ AuditSound(audits[a], votes[a], stakes[a], clawed[a])
        /\ AuditHarmless(audits[a], stakes[a], clawed[a])
    BY DEF Sound, Unharmed
  <1> HIDE DEF r, verdict
  <1>9. /\ audits'[a] = r
        /\ \A b \in Audits \ {a} : audits'[b] = audits[b]
        /\ audits' \in [Audits -> Audit]
    BY <1>5, <1>6 DEF TypeOK
  <1>10. AuditSound(r, votes'[a], stakes[a], clawed[a])
    <2>1. r.worker \in Actors /\ (r.worker \in Honest => r.result = Right)
      BY <1>1, <1>6, <1>8 DEF AuditSound
    <2>2. \A u \in Actors : votes'[a][u] # None =>
              u # r.worker /\ <<u, r.worker>> \notin Related
      BY <1>1, <1>3, <1>6, <1>8 DEF AuditSound
    <2>3. \A u \in Honest : votes'[a][u] \in {None, Right}
      BY <1>1, <1>3, <1>8, SamplingAssumption DEF AuditSound
    <2>4. r.status = "failed" =>
            \E y \in Results \ {r.result} : Cardinality({u \in Actors : votes'[a][u] = y}) >= Quorum
      <3> SUFFICES ASSUME r.status = "failed"
                   PROVE  x # r.result /\ Cardinality(agree) >= Quorum
        OBVIOUS
      <3> QED BY <1>4, <1>6
    <2>5. r.status = "passed" => r.validator \in Actors /\ votes'[a][r.validator] = r.result
      BY <1>3, <1>4, <1>6
    <2>6. \A u \in Actors : stakes[a][u] \in {"released", "slashed"} => votes'[a][u] # None
      BY <1>3, <1>7, <1>8 DEF AuditSound
    <2>7. r.status # "none" /\ r.status # "assigned"
      BY <1>4, <1>6
    <2> QED BY <2>1, <2>2, <2>3, <2>4, <2>5, <2>6, <2>7 DEF AuditSound
  <1>11. AuditHarmless(r, stakes[a], clawed[a])
    <2> SUFFICES ASSUME FewLiars, r.worker \in Honest PROVE r.status # "failed"
      BY <1>6, <1>8 DEF AuditHarmless
    <2>1. CASE x = Right
      BY <1>4, <1>6, <1>8, <2>1 DEF AuditSound
    <2>2. CASE x # Right
      <3>1. agree \subseteq Actors \ Honest
        BY <1>1, <1>3, <1>7, <1>8, <2>2, SamplingAssumption DEF AuditSound
      <3>2. IsFiniteSet(Actors \ Honest)
        BY FS_Difference, SamplingAssumption
      <3>3. Cardinality(agree) <= Cardinality(Actors \ Honest)
        BY <3>1, <3>2, FS_Subset
      <3>4. Cardinality(agree) \in Nat /\ Cardinality(Actors \ Honest) \in Nat /\ Quorum \in Nat
        BY <3>1, <3>2, FS_Subset, FS_CardinalityType, SamplingAssumption
      <3>5. ~(Cardinality(agree) >= Quorum)
        BY <3>3, <3>4 DEF FewLiars
      <3> QED BY <1>4, <1>6, <3>5
    <2> QED BY <2>1, <2>2
  <1>12. ASSUME NEW b \in Audits PROVE Sound(b)' /\ Unharmed(b)'
    <2>1. CASE b = a
      BY <1>2, <1>9, <1>10, <1>11, <2>1 DEF Sound, Unharmed, convictions
    <2>2. CASE b # a
      BY <1>2, <1>3, <1>9, <2>2, AuditKept DEF convictions
    <2> QED BY <2>1, <2>2
  <1>13. call' = [Idle EXCEPT !.pc = "reward", !.who = v, !.audit = a]
    BY DEF SubmitVerdict
  <1>14. TypeOK'
    <2>1. call' \in Call
      BY <1>13 DEF Call, Idle, Steps, AuditStatuses
    <2> QED BY <1>2, <1>3, <1>9, <2>1 DEF TypeOK, ledger, convictions
  <1>15. CallOK' /\ PlanOK'
    BY <1>4, <1>6, <1>9, <1>13 DEF CallOK, PlanOK, Idle
  <1> QED BY <1>12, <1>14, <1>15

\* A stake is left as it was, or as one of the payments says.
LEMMA MarkedBy ==
    ASSUME NEW a, NEW v
    PROVE  \/ Marked(a, v) = stakes[a][v]
           \/ \E p \in call.done : p.audit = a /\ p.by = v /\ Marked(a, v) = p.to
  <1>1. CASE \E p \in call.done : p.audit = a /\ p.by = v
    <2> DEFINE q == CHOOSE p \in call.done : p.audit = a /\ p.by = v
    <2>1. q \in call.done /\ q.audit = a /\ q.by = v
      BY <1>1
    <2>2. Marked(a, v) = q.to
      BY <1>1 DEF Marked
    <2> QED BY <2>1, <2>2
  <1>2. CASE ~\E p \in call.done : p.audit = a /\ p.by = v
    BY <1>2 DEF Marked
  <1> QED BY <1>1, <1>2

\* What may become of a stake when a plan has been carried out.
LEMMA MarkedSound ==
    ASSUME IInv, NEW a \in Audits, NEW v \in Actors
    PROVE  /\ Marked(a, v) \in StakeStatuses
           /\ Marked(a, v) # stakes[a][v] => stakes[a][v] = "locked"
           /\ Marked(a, v) \in {"released", "slashed"} => votes[a][v] # None
           /\ FewLiars /\ audits[a].worker \in Honest /\ v \in Honest
                 => Marked(a, v) # "slashed"
  <1>1. CASE Marked(a, v) = stakes[a][v]
    <2>1. stakes[a][v] \in StakeStatuses
      BY DEF IInv, TypeOK
    <2>2. stakes[a][v] \in {"released", "slashed"} => votes[a][v] # None
      BY DEF IInv, Sound, AuditSound
    <2>3. FewLiars /\ audits[a].worker \in Honest /\ v \in Honest => stakes[a][v] # "slashed"
      BY DEF IInv, Unharmed, AuditHarmless
    <2> QED BY <1>1, <2>1, <2>2, <2>3
  <1>2. ASSUME NEW p \in call.done, p.audit = a, p.by = v, Marked(a, v) = p.to
        PROVE  /\ Marked(a, v) \in StakeStatuses
               /\ stakes[a][v] = "locked"
               /\ Marked(a, v) \in {"released", "slashed"} => votes[a][v] # None
               /\ FewLiars /\ audits[a].worker \in Honest /\ v \in Honest
                     => Marked(a, v) # "slashed"
    <2>1. p \in Payment
      BY DEF IInv, TypeOK, Call
    <2>2. p.to \in StakeStatuses
      BY <2>1 DEF Payment, StakeStatuses
    <2> QED BY <1>2, <2>2 DEF IInv, PlanOK
  <1> QED BY <1>1, <1>2, MarkedBy

LEMMA MarkStakesStep ==
    ASSUME IInv, MarkStakes
    PROVE  IInv'
  <1> USE DEF IInv
  <1>1. UNCHANGED <<now, audits, votes, ledger, convictions>>
    BY DEF MarkStakes
  <1>2. /\ stakes' \in [Audits -> [Actors -> StakeStatuses]]
        /\ \A a \in Audits : \A v \in Actors : stakes'[a][v] = Marked(a, v)
    BY MarkedSound DEF MarkStakes
  <1>3. ASSUME NEW a \in Audits PROVE Sound(a)' /\ Unharmed(a)'
    <2>1. AuditSound(audits[a], votes[a], stakes'[a], clawed[a])
      BY <1>2, MarkedSound DEF Sound, AuditSound
    <2>2. AuditHarmless(audits[a], stakes'[a], clawed[a])
      BY <1>2, MarkedSound, SamplingAssumption DEF Unharmed, AuditHarmless
    <2> QED BY <1>1, <2>1, <2>2 DEF Sound, Unharmed, convictions
  <1>4. call' = Idle \/ call' = [call EXCEPT !.pc = "assign", !.done = {}]
    BY DEF MarkStakes
  <1>5. call' \in Call
    <2>1. CASE call' = Idle
      BY <2>1 DEF Call, Idle, Steps, AuditStatuses
    <2>2. CASE call' = [call EXCEPT !.pc = "assign", !.done = {}]
      BY <2>2 DEF TypeOK, Call, Steps
    <2> QED BY <1>4, <2>1, <2>2
  <1>6. TypeOK'
    BY <1>1, <1>2, <1>5 DEF TypeOK, ledger, convictions
  <1>7. CallOK' /\ PlanOK'
    <2>1. call.plan = {} /\ call.who \in Actors /\ call \in Call
      BY DEF MarkStakes, CallOK, TypeOK
    <2>2. CASE call' = Idle
      BY <2>2 DEF CallOK, PlanOK, Idle
    <2>3. CASE call' = [call EXCEPT !.pc = "assign", !.done = {}]
      <3>1. /\ call'.pc = "assign" /\ call'.who = call.who
            /\ call'.plan = {} /\ call'.done = {}
        BY <2>1, <2>3 DEF Call
      <3> QED BY <2>1, <3>1 DEF CallOK, PlanOK
    <2> QED BY <1>4, <2>2, <2>3
  <1> QED BY <1>3, <1>6, <1>7

-----------------------------------------------------------------------------
(* The invariant *)

LEMMA IInvInit ==
    Init => IInv
  <1> SUFFICES ASSUME Init PROVE IInv
    OBVIOUS
  <1>1. TypeOK
    BY SamplingAssumption
    DEF Init, TypeOK, NoAudit, Audit, AuditStatuses, StakeStatuses, Call, Idle, Steps
  <1>2. \A a \in Audits : Sound(a) /\ Unharmed(a)
    <2>1. None \notin Honest
      BY SamplingAssumption
    <2> QED BY <2>1, SamplingAssumption
            DEF Init, NoAudit, Sound, AuditSound, Unharmed, AuditHarmless
  <1>3. CallOK /\ PlanOK
    BY DEF Init, CallOK, PlanOK, Idle
  <1> QED BY <1>1, <1>2, <1>3 DEF IInv

LEMMA IInvStep ==
    IInv /\ [Next]_vars => IInv'
  <1> SUFFICES ASSUME IInv, [Next]_vars PROVE IInv'
    OBVIOUS
  <1>1. CASE UNCHANGED vars
    <2>1. UNCHANGED <<tables, clawed>>
      BY <1>1 DEF vars, convictions
    <2>2. \A a \in Audits : Sound(a)' /\ Unharmed(a)'
      BY <2>1, TablesKept
    <2>3. TypeOK' /\ CallOK' /\ PlanOK'
      BY <1>1 DEF vars, tables, ledger, convictions, IInv, TypeOK, CallOK, PlanOK
    <2> QED BY <2>2, <2>3 DEF IInv
  <1>2. ASSUME NEW a \in Audits, NEW w \in Actors, NEW x \in Results, MaybeOpen(a, w, x)
        PROVE  IInv'
    BY <1>2, MaybeOpenStep
  <1>3. ASSUME NEW v \in Actors, RefundStale(v) PROVE IInv'
    BY <1>3, RefundStaleStep
  <1>4. ASSUME NEW v \in Actors, NEW a \in Audits, NEW x \in Results, SubmitVerdict(v, a, x)
        PROVE  IInv'
    BY <1>4, SubmitVerdictStep
  <1>5. CASE \/ LockStake \/ Reward \/ ClawRead \/ ClawTake \/ ClawReport
             \/ PayStake \/ StopCall \/ Tick
             \/ \E x \in Actors : \E n \in SpendAmounts : Spend(x, n)
    BY <1>5, MoneyStep, MoneyStepCall, MoneyStepUnharmed DEF IInv
  <1>6. CASE Assign
    BY <1>6, AssignStep
  <1>7. CASE StakeRow
    BY <1>7, StakeRowStep
  <1>8. CASE DenyClaim
    BY <1>8, DenyClaimStep
  <1>9. CASE ResolveStakes
    BY <1>9, ResolveStakesStep
  <1>10. CASE MarkStakes
    BY <1>10, MarkStakesStep
  <1> QED BY <1>1, <1>2, <1>3, <1>4, <1>5, <1>6, <1>7, <1>8, <1>9, <1>10
          DEF Next, Proceed

LEMMA Inductive ==
    Spec => []IInv
  BY IInvInit, IInvStep, PTL DEF Spec

-----------------------------------------------------------------------------
(* The theorems *)

\* The tables, the balances and the call under way stay in their types: no
\* transfer overdraws an account.
THEOREM TypeCorrect ==
    Spec => []TypeOK
  <1>1. IInv => TypeOK
    BY DEF IInv
  <1> QED BY <1>1, Inductive, PTL

\* Fewer liars than the quorum (fail_quorum_n) never convict a worker that did its
\* job, never take its money, and cost no honest validator of it a stake.
THEOREM NoInnocentHarmed ==
    Spec => []InnocentUnharmed
  <1>1. IInv => InnocentUnharmed
    BY DEF IInv, Unharmed, AuditHarmless, FewLiars, InnocentUnharmed
  <1> QED BY <1>1, Inductive, PTL

\* Only independent others vote, and every verdict has the votes it needs.
THEOREM BackedVerdicts ==
    Spec => []VerdictsAreBacked
  <1>1. IInv => VerdictsAreBacked
    <2> SUFFICES ASSUME IInv, NEW a \in Audits
                 PROVE  /\ \A v \in Actors : votes[a][v] # None =>
                             v # audits[a].worker /\ <<v, audits[a].worker>> \notin Related
                        /\ audits[a].status = "passed" => Voters(a, audits[a].result) # {}
                        /\ audits[a].status = "failed" =>
                             \E x \in Results \ {audits[a].result} :
                                 Cardinality(Voters(a, x)) >= Quorum
      BY DEF VerdictsAreBacked
    <2> QED BY DEF IInv, Sound, AuditSound, Voters
  <1> QED BY <1>1, Inductive, PTL

\* A verdict, a vote and a stake that was settled are never rewritten.
THEOREM FinalVerdicts ==
    Spec => VerdictsAreFinal
  <1> DEFINE Kept(a) ==
        /\ audits[a].status \in Final => audits'[a].status = audits[a].status
        /\ \A v \in Actors :
             /\ votes[a][v] # None => votes'[a][v] = votes[a][v]
             /\ stakes[a][v] \in {"released", "slashed"} => stakes'[a][v] = stakes[a][v]
  <1>1. ASSUME IInv, [Next]_vars, NEW a \in Audits PROVE Kept(a)
    <2> USE <1>1 DEF IInv
    <2>1. CASE UNCHANGED tables
      BY <2>1 DEF tables
    <2>2. ASSUME NEW b \in Audits, NEW w \in Actors, NEW x \in Results, MaybeOpen(b, w, x)
          PROVE  Kept(a)
      BY <2>2 DEF MaybeOpen, TypeOK, Final
    <2>3. ASSUME NEW v \in Actors, NEW b \in Audits, NEW x \in Results, SubmitVerdict(v, b, x)
          PROVE  Kept(a)
      BY <2>3 DEF SubmitVerdict, TypeOK, Final
    <2>4. CASE Assign
      <3>1. audits[a].status \in Final => audits'[a] = audits[a]
        BY <2>4, ReclaimedSound DEF Assign, Final
      <3> QED BY <2>4, <3>1 DEF Assign
    <2>5. CASE StakeRow
      <3>1. votes[call.audit][call.who] = None /\ call.audit \in Audits /\ call.who \in Actors
        BY <2>5 DEF StakeRow, CallOK
      <3>2. stakes[call.audit][call.who] \notin {"released", "slashed"}
        BY <3>1 DEF Sound, AuditSound
      <3> QED BY <2>5, <3>2 DEF StakeRow, TypeOK
    <2>6. CASE DenyClaim
      BY <2>6 DEF DenyClaim, CallOK, TypeOK, Final
    <2>7. CASE MarkStakes
      BY <2>7, MarkedSound DEF MarkStakes
    <2>8. CASE \/ LockStake \/ Reward \/ ClawRead \/ ClawTake \/ ClawReport
               \/ ResolveStakes \/ PayStake \/ StopCall \/ Tick
               \/ \E v \in Actors : RefundStale(v)
               \/ \E x \in Actors : \E n \in SpendAmounts : Spend(x, n)
      <3>1. UNCHANGED tables
        BY <2>8 DEF LockStake, Reward, ClawRead, ClawTake, ClawReport, ResolveStakes,
                    PayStake, StopCall, Tick, RefundStale, Spend, tables
      <3> QED BY <3>1, <2>1
    <2>9. CASE UNCHANGED vars
      BY <2>1, <2>9 DEF vars
    <2> QED BY <2>2, <2>3, <2>4, <2>5, <2>6, <2>7, <2>8, <2>9 DEF Next, Proceed
  <1>2. IInv /\ [Next]_vars => [\A a \in Audits : Kept(a)]_vars
    BY <1>1
  <1> QED BY <1>2, Inductive, PTL DEF Spec, VerdictsAreFinal

-----------------------------------------------------------------------------
(* The stake pool *)

\* A stake that waits for its validator to vote.
Awaits(a, v) == stakes[a][v] = "locked" /\ votes[a][v] = None

Locked == {p \in Audits \X Actors : stakes[p[1]][p[2]] = "locked"}
Pairs(S) == {<<p.audit, p.by>> : p \in S}

\* An audit is no older than its assignment.
Dated ==
    \A a \in Audits :
        /\ audits[a].status # "none" => audits[a].created <= now
        /\ audits[a].status = "assigned" => audits[a].created <= audits[a].assigned

\* A plan pays a stake once.
PlanCounted ==
    /\ IsFiniteSet(call.done)
    /\ Cardinality(Pairs(call.done)) = Cardinality(call.done)
    /\ call.plan \cap call.done = {}
    /\ \A p, q \in call.plan \cup call.done :
          p.audit = q.audit /\ p.by = q.by => p = q

\* The audit a stake is locked for is assigned to the one who claims it.
Claiming ==
    call.pc \in {"lock", "row", "deny"} => audits[call.audit].validator = call.who

\* Only the validator an audit is assigned to has a stake that waits for a vote.
HeldByValidator ==
    \A a \in Audits : \A v \in Actors :
        Awaits(a, v) => audits[a].status = "assigned" /\ audits[a].validator = v

\* A call that has looked for stale stakes takes no audit from under one.
NoneOverdue ==
    /\ call.pc = "assign" =>
          \A a \in Audits : \A v \in Actors : ~(Overdue(a) /\ Awaits(a, v))
    /\ call.pc = "pay" /\ call.audit = None =>
          \A a \in Audits : \A v \in Actors : Overdue(a) /\ Awaits(a, v) =>
              \E p \in call.plan \cup call.done : p.audit = a /\ p.by = v

\* The stake about to be locked is not locked.
NotYetLocked ==
    call.pc \in {"lock", "row", "deny"} => stakes[call.audit][call.who] # "locked"

\* A stake that has been taken and has no row yet.
InHand == IF call.pc = "row" THEN 1 ELSE 0

Balanced ==
    escrow[Pool] + Stake * Cardinality(call.done) = Stake * (Cardinality(Locked) + InHand)

PoolInv ==
    /\ Dated
    /\ IsFiniteSet(Locked)
    /\ PlanCounted
    /\ Claiming
    /\ faults = 0 => HeldByValidator /\ NoneOverdue /\ NotYetLocked /\ Balanced

\* Sizes, the pool's balance and the stake are numbers.
LEMMA PoolNumbers ==
    ASSUME TypeOK, IsFiniteSet(Locked), IsFiniteSet(call.done)
    PROVE  /\ Cardinality(Locked) \in Nat /\ Cardinality(call.done) \in Nat
           /\ escrow[Pool] \in Nat /\ Stake \in Nat /\ Stake > 0 /\ faults \in Nat
  <1>1. Cardinality(Locked) \in Nat /\ Cardinality(call.done) \in Nat
    BY FS_CardinalityType
  <1>2. escrow[Pool] \in Nat /\ faults \in Nat
    BY DEF TypeOK
  <1> QED BY <1>1, <1>2, SamplingAssumption

\* An empty plan pays nothing twice.
LEMMA EmptyPlanCounted ==
    ASSUME call'.done = {}, \A p, q \in call'.plan : p.audit = q.audit /\ p.by = q.by => p = q
    PROVE  PlanCounted' /\ Cardinality(call'.done) = 0
  <1>1. Pairs({}) = {}
    BY DEF Pairs
  <1>2. IsFiniteSet({}) /\ Cardinality({}) = 0
    BY FS_EmptySet
  <1> QED BY <1>1, <1>2 DEF PlanCounted

\* A step that leaves the tables and the pool alone and neither starts a claim nor
\* drops a stake in hand.
LEMMA QuietPool ==
    ASSUME IInv, PoolInv, UNCHANGED <<tables, now>>, escrow'[Pool] = escrow[Pool],
           faults' = 0 => faults = 0 /\ call.pc # "row",
           call.plan = {}, call.done = {}, call'.plan = {}, call'.done = {},
           call'.pc \notin {"lock", "row", "deny", "assign", "pay"}
    PROVE  PoolInv'
  <1>1. PlanCounted' /\ Cardinality(call'.done) = 0 /\ Cardinality(call.done) = 0
    BY EmptyPlanCounted
  <1>2. Dated' /\ IsFiniteSet(Locked)' /\ Claiming'
    BY DEF PoolInv, Dated, Locked, Claiming, tables
  <1>3. ASSUME faults' = 0
        PROVE  HeldByValidator' /\ NoneOverdue' /\ NotYetLocked' /\ Balanced'
    <2>1. HeldByValidator' /\ NoneOverdue' /\ NotYetLocked'
      BY <1>3 DEF PoolInv, HeldByValidator, NoneOverdue, NotYetLocked, Awaits, tables
    <2>2. Balanced'
      BY <1>1, <1>3 DEF PoolInv, Balanced, InHand, Locked, tables
    <2> QED BY <2>1, <2>2
  <1> QED BY <1>1, <1>2, <1>3 DEF PoolInv

\* The fee and the clawback move no money of the pool.
LEMMA RewardPool ==
    ASSUME IInv, PoolInv, Reward \/ ClawRead \/ ClawTake \/ ClawReport \/ StopCall
    PROVE  PoolInv'
  <1>1. CASE Reward
    <2>1. call.who \in Actors /\ call.plan = {} /\ call.done = {} /\ call.pc = "reward"
      BY <1>1 DEF Reward, IInv, CallOK
    <2>2. escrow'[Pool] = escrow[Pool]
      BY <1>1, <2>1, SamplingAssumption DEF Reward, IInv, TypeOK
    <2>3. call' = Idle \/ \E pc \in {"claw", "resolve"} : call' = [call EXCEPT !.pc = pc]
      BY <1>1 DEF Reward
    <2>4. /\ call'.plan = {} /\ call'.done = {}
          /\ call'.pc \notin {"lock", "row", "deny", "assign", "pay"}
      <3>1. call \in Call
        BY DEF IInv, TypeOK
      <3>2. CASE call' = Idle
        BY <3>2 DEF Idle
      <3>3. ASSUME NEW pc \in {"claw", "resolve"}, call' = [call EXCEPT !.pc = pc]
            PROVE  /\ call'.plan = call.plan /\ call'.done = call.done /\ call'.pc = pc
        BY <3>1, <3>3 DEF Call
      <3> QED BY <2>1, <2>3, <3>2, <3>3
    <2>5. faults' = 0 => faults = 0
      BY <1>1 DEF Reward, IInv, TypeOK
    <2> QED BY <1>1, <2>1, <2>2, <2>4, <2>5, QuietPool DEF Reward
  <1>2. CASE ClawRead
    <2>1. call.plan = {} /\ call.done = {} /\ call.pc = "claw"
      BY <1>2 DEF ClawRead, IInv, CallOK
    <2>2. /\ call'.plan = {} /\ call'.done = {}
          /\ call'.pc \notin {"lock", "row", "deny", "assign", "pay"}
      BY <1>2, <2>1 DEF ClawRead, IInv, TypeOK, Call
    <2> QED BY <1>2, <2>1, <2>2, QuietPool DEF ClawRead, ledger
  <1>3. CASE ClawTake
    <2>1. /\ call.plan = {} /\ call.done = {} /\ call.pc = "take"
          /\ Convicted \in Actors
      BY <1>3 DEF ClawTake, IInv, CallOK, Sound, AuditSound, Convicted
    <2>2. /\ call'.plan = {} /\ call'.done = {}
          /\ call'.pc \notin {"lock", "row", "deny", "assign", "pay"}
      BY <1>3, <2>1 DEF ClawTake, IInv, TypeOK, Call
    <2>3. /\ escrow'[Pool] = escrow[Pool]
          /\ faults' = 0 => faults = 0
      BY <1>3, <2>1, SamplingAssumption DEF ClawTake, Moves, Fails, IInv, TypeOK
    <2> QED BY <1>3, <2>1, <2>2, <2>3, QuietPool DEF ClawTake
  <1>4. CASE ClawReport
    <2>1. call.plan = {} /\ call.done = {} /\ call.pc = "report"
      BY <1>4 DEF ClawReport, IInv, CallOK
    <2>2. /\ call'.plan = {} /\ call'.done = {}
          /\ call'.pc \notin {"lock", "row", "deny", "assign", "pay"}
      BY <1>4, <2>1 DEF ClawReport, IInv, TypeOK, Call
    <2>3. faults' = 0 => faults = 0
      BY <1>4 DEF ClawReport, IInv, TypeOK
    <2> QED BY <1>4, <2>1, <2>2, <2>3, QuietPool DEF ClawReport
  <1>5. CASE StopCall
    <2>1. faults' # 0
      BY <1>5 DEF StopCall, IInv, TypeOK
    <2>2. call'.plan = {} /\ call'.done = {} /\ call'.pc = "idle"
      BY <1>5 DEF StopCall, Idle
    <2>3. PlanCounted'
      BY <2>2, EmptyPlanCounted
    <2>4. Dated' /\ IsFiniteSet(Locked)' /\ Claiming'
      BY <1>5, <2>2 DEF StopCall, PoolInv, Dated, Locked, Claiming, tables
    <2> QED BY <2>1, <2>3, <2>4 DEF PoolInv
  <1> QED BY <1>1, <1>2, <1>3, <1>4, <1>5

\* Spending elsewhere, and time.
LEMMA SpendPool ==
    ASSUME IInv, PoolInv, Tick \/ \E x \in Actors : \E n \in SpendAmounts : Spend(x, n)
    PROVE  PoolInv'
  <1>1. UNCHANGED <<tables, faults, call>>
    BY DEF Tick, Spend, ledger
  <1>2. escrow'[Pool] = escrow[Pool]
    BY SamplingAssumption DEF Tick, Spend, ledger, IInv, TypeOK
  <1>3. now' \in Nat /\ now' >= now /\ (now' = now \/ call.pc = "idle")
    BY DEF Tick, Spend, IInv, TypeOK
  <1>4. Dated'
    <2>1. \A a \in Audits : audits[a].created \in Nat /\ now \in Nat
      BY DEF IInv, TypeOK, Audit
    <2> QED BY <1>1, <1>3, <2>1 DEF PoolInv, Dated, tables
  <1>5. IsFiniteSet(Locked)' /\ PlanCounted' /\ Claiming'
    BY <1>1 DEF PoolInv, Locked, PlanCounted, Pairs, Claiming, tables
  <1>6. faults = 0 => HeldByValidator' /\ NotYetLocked' /\ Balanced'
    BY <1>1, <1>2 DEF PoolInv, HeldByValidator, Awaits, NotYetLocked, Balanced, Locked,
                      InHand, tables
  <1>7. faults = 0 => NoneOverdue'
    BY <1>1, <1>3 DEF PoolInv, NoneOverdue, Awaits, Overdue, tables
  <1> QED BY <1>1, <1>4, <1>5, <1>6, <1>7 DEF PoolInv

\* A stake in hand is in the pool.
LEMMA LockPool ==
    ASSUME IInv, PoolInv, LockStake
    PROVE  PoolInv'
  <1>1. /\ call.plan = {} /\ call.done = {} /\ call.pc = "lock" /\ call.who \in Actors
        /\ UNCHANGED <<tables, now>>
    BY DEF LockStake, IInv, CallOK
  <1>2. /\ call'.plan = {} /\ call'.done = {} /\ call'.pc \in {"row", "deny"}
        /\ call'.audit = call.audit /\ call'.who = call.who
    BY <1>1 DEF LockStake, IInv, TypeOK, Call
  <1>3. PlanCounted' /\ Cardinality(call'.done) = 0 /\ Cardinality(call.done) = 0
    BY <1>1, <1>2, EmptyPlanCounted
  <1>4. Dated' /\ IsFiniteSet(Locked)' /\ Claiming'
    BY <1>1, <1>2 DEF PoolInv, Dated, Locked, Claiming, tables
  <1>5. faults' = 0 => faults = 0
    BY DEF LockStake, Moves, Fails, IInv, TypeOK
  <1>6. faults = 0 => HeldByValidator' /\ NoneOverdue' /\ NotYetLocked'
    BY <1>1, <1>2 DEF PoolInv, HeldByValidator, NoneOverdue, NotYetLocked, Awaits, tables
  <1>7. ASSUME faults' = 0 PROVE Balanced'
    <2>1. /\ Cardinality(Locked) \in Nat /\ escrow[Pool] \in Nat
          /\ Stake \in Nat
      BY PoolNumbers DEF PoolInv, PlanCounted, IInv
    <2>2. escrow[Pool] + Stake * 0 = Stake * (Cardinality(Locked) + 0)
      BY <1>1, <1>3, <1>5, <1>7 DEF PoolInv, Balanced, InHand
    <2>3. escrow[Pool] = Stake * Cardinality(Locked)
      BY <2>1, <2>2
    <2>4. Cardinality(Locked') = Cardinality(Locked)
      BY <1>1 DEF Locked, tables
    <2>5. CASE Moves(call.who, Pool, Stake) /\ call' = [call EXCEPT !.pc = "row"]
      <3>1. escrow'[Pool] = escrow[Pool] + Stake
        BY <1>1, <2>5, SamplingAssumption DEF Moves, IInv, TypeOK
      <3>2. call'.pc = "row"
        BY <2>5 DEF IInv, TypeOK, Call
      <3>3. Stake * (Cardinality(Locked) + 1) = Stake * Cardinality(Locked) + Stake
        BY <2>1
      <3> QED BY <1>3, <2>1, <2>3, <2>4, <3>1, <3>2, <3>3 DEF Balanced, InHand
    <2>6. CASE Fails(call.who, Stake) /\ call' = [call EXCEPT !.pc = "deny"]
      <3>1. escrow'[Pool] = escrow[Pool]
        BY <2>6 DEF Fails
      <3>2. call'.pc = "deny"
        BY <2>6 DEF IInv, TypeOK, Call
      <3> QED BY <1>3, <2>1, <2>3, <2>4, <3>1, <3>2 DEF Balanced, InHand
    <2> QED BY <2>5, <2>6 DEF LockStake
  <1> QED BY <1>3, <1>4, <1>5, <1>6, <1>7 DEF PoolInv

\* The stake in hand gets its row.
LEMMA StakeRowPool ==
    ASSUME IInv, PoolInv, StakeRow
    PROVE  PoolInv'
  <1> DEFINE a == call.audit
             v == call.who
  <1>1. /\ a \in Audits /\ v \in Actors /\ call.pc = "row"
        /\ audits[a].status = "assigned" /\ audits[a].validator = v
        /\ call.plan = {} /\ call.done = {}
    BY DEF StakeRow, IInv, CallOK, PoolInv, Claiming
  <1>2. /\ call'.plan = {} /\ call'.done = {} /\ call'.pc = "idle"
        /\ UNCHANGED <<now, audits, votes, escrow, faults>>
    BY DEF StakeRow, Idle, ledger
  <1>3. /\ stakes'[a][v] = "locked"
        /\ \A b \in Audits : \A u \in Actors : <<b, u>> # <<a, v>> => stakes'[b][u] = stakes[b][u]
    BY <1>1 DEF StakeRow, IInv, TypeOK
  <1>4. Locked' = Locked \cup {<<a, v>>}
    BY <1>1, <1>3 DEF Locked
  <1>5. IsFiniteSet(Locked)'
    BY <1>4, FS_AddElement DEF PoolInv
  <1>6. PlanCounted' /\ Cardinality(call'.done) = 0
    BY <1>2, EmptyPlanCounted
  <1>7. Dated' /\ Claiming'
    BY <1>2 DEF PoolInv, Dated, Claiming
  <1>8. ASSUME faults = 0 PROVE HeldByValidator' /\ NoneOverdue' /\ NotYetLocked'
    <2>1. HeldByValidator'
      BY <1>1, <1>2, <1>3, <1>8 DEF PoolInv, HeldByValidator, Awaits
    <2> QED BY <1>2, <2>1 DEF NoneOverdue, NotYetLocked
  <1>9. ASSUME faults = 0 PROVE Balanced'
    <2>1. <<a, v>> \notin Locked
      BY <1>1, <1>9 DEF PoolInv, NotYetLocked, Locked
    <2>2. Cardinality(Locked') = Cardinality(Locked) + 1
      BY <1>4, <2>1, FS_AddElement DEF PoolInv
    <2>3. /\ Cardinality(Locked) \in Nat /\ escrow[Pool] \in Nat
          /\ Stake \in Nat
      BY PoolNumbers DEF PoolInv, PlanCounted, IInv
    <2>4. escrow[Pool] + Stake * 0 = Stake * (Cardinality(Locked) + 1)
      <3>1. Cardinality({}) = 0
        BY FS_EmptySet
      <3> QED BY <1>1, <1>9, <3>1 DEF PoolInv, Balanced, InHand
    <2>5. Stake * ((Cardinality(Locked) + 1) + 0) = Stake * (Cardinality(Locked) + 1)
      BY <2>3
    <2> QED BY <1>2, <1>6, <2>2, <2>3, <2>4, <2>5 DEF Balanced, InHand
  <1> QED BY <1>2, <1>5, <1>6, <1>7, <1>8, <1>9 DEF PoolInv

\* Without a stake, an audit is given back by the one it was assigned to.
LEMMA DenyPool ==
    ASSUME IInv, PoolInv, DenyClaim
    PROVE  PoolInv'
  <1> DEFINE a == call.audit
             v == call.who
  <1>1. /\ a \in Audits /\ v \in Actors /\ call.pc = "deny"
        /\ audits[a].status = "assigned" /\ audits[a].validator = v
        /\ call.prev \in {"pending", "contested"}
        /\ call.plan = {} /\ call.done = {}
    BY DEF DenyClaim, IInv, CallOK, PoolInv, Claiming
  <1>2. /\ call'.plan = {} /\ call'.done = {} /\ call'.pc = "idle"
        /\ UNCHANGED <<now, stakes, votes, escrow, faults>>
    BY DEF DenyClaim, Idle, ledger
  <1>3. /\ audits'[a].status = call.prev /\ audits'[a].created = audits[a].created
        /\ \A b \in Audits \ {a} : audits'[b] = audits[b]
    BY <1>1 DEF DenyClaim, IInv, TypeOK, Audit
  <1>4. PlanCounted' /\ Cardinality(call'.done) = 0
    BY <1>2, EmptyPlanCounted
  <1>5. Dated' /\ Claiming'
    BY <1>1, <1>2, <1>3 DEF PoolInv, Dated, Claiming
  <1>6. IsFiniteSet(Locked)'
    BY <1>2 DEF PoolInv, Locked
  <1>7. ASSUME faults = 0
        PROVE  HeldByValidator' /\ NoneOverdue' /\ NotYetLocked' /\ Balanced'
    <2>1. HeldByValidator'
      BY <1>1, <1>2, <1>3, <1>7 DEF PoolInv, HeldByValidator, Awaits, NotYetLocked
    <2>2. Balanced'
      BY <1>1, <1>2, <1>4, <1>7 DEF PoolInv, Balanced, InHand, Locked
    <2> QED BY <1>2, <2>1, <2>2 DEF NoneOverdue, NotYetLocked
  <1> QED BY <1>2, <1>4, <1>5, <1>6, <1>7 DEF PoolInv

\* A job completes: its audit is new, and nobody has a stake in it.
LEMMA MaybeOpenPool ==
    ASSUME IInv, PoolInv, NEW a \in Audits, NEW w \in Actors, NEW x \in Results,
           MaybeOpen(a, w, x)
    PROVE  PoolInv'
  <1>1. /\ call.plan = {} /\ call.done = {} /\ call.pc = "idle" /\ call' = call
        /\ UNCHANGED <<now, stakes, votes, escrow, faults>>
        /\ audits[a].status = "none"
    BY DEF MaybeOpen, IInv, CallOK, ledger
  <1>2. /\ audits'[a].status = "pending" /\ audits'[a].created = now
        /\ \A b \in Audits \ {a} : audits'[b] = audits[b]
    BY DEF MaybeOpen, IInv, TypeOK, Audit
  <1>3. now \in Nat
    BY DEF IInv, TypeOK
  <1>4. PlanCounted' /\ IsFiniteSet(Locked)'
    BY <1>1 DEF PoolInv, PlanCounted, Pairs, Locked
  <1>5. Dated' /\ Claiming'
    BY <1>1, <1>2, <1>3 DEF PoolInv, Dated, Claiming
  <1>6. ASSUME faults = 0
        PROVE  HeldByValidator' /\ NoneOverdue' /\ NotYetLocked' /\ Balanced'
    <2>1. HeldByValidator'
      BY <1>1, <1>2, <1>6 DEF PoolInv, HeldByValidator, Awaits
    <2>2. Balanced'
      BY <1>1, <1>6 DEF PoolInv, Balanced, InHand, Locked
    <2> QED BY <1>1, <2>1, <2>2 DEF NoneOverdue, NotYetLocked
  <1> QED BY <1>1, <1>4, <1>5, <1>6 DEF PoolInv

\* Nobody but the one who votes had a stake in its audit that waits.
LEMMA SubmitPool ==
    ASSUME IInv, PoolInv, NEW v \in Actors, NEW a \in Audits, NEW x \in Results,
           SubmitVerdict(v, a, x)
    PROVE  PoolInv'
  <1>1. /\ call.plan = {} /\ call.done = {} /\ call.pc = "idle"
        /\ call'.plan = {} /\ call'.done = {} /\ call'.pc = "reward"
        /\ UNCHANGED <<now, stakes, escrow, faults>>
        /\ audits[a].status = "assigned" /\ audits[a].validator = v
    BY DEF SubmitVerdict, IInv, CallOK, ledger, Idle
  <1>2. /\ audits'[a].created = audits[a].created
        /\ audits'[a].status # "assigned"
        /\ \A b \in Audits \ {a} : audits'[b] = audits[b]
    BY DEF SubmitVerdict, IInv, TypeOK, Audit, Verdict
  <1>3. /\ votes'[a][v] = x /\ x # None
        /\ \A b \in Audits : \A u \in Actors : <<b, u>> # <<a, v>> => votes'[b][u] = votes[b][u]
    BY SamplingAssumption DEF SubmitVerdict, IInv, TypeOK
  <1>4. PlanCounted' /\ IsFiniteSet(Locked)'
    BY <1>1, EmptyPlanCounted DEF PoolInv, Locked
  <1>5. Dated' /\ Claiming'
    BY <1>1, <1>2 DEF PoolInv, Dated, Claiming
  <1>6. ASSUME faults = 0
        PROVE  HeldByValidator' /\ NoneOverdue' /\ NotYetLocked' /\ Balanced'
    <2>1. HeldByValidator'
      BY <1>1, <1>2, <1>3, <1>6 DEF PoolInv, HeldByValidator, Awaits
    <2>2. Balanced'
      BY <1>1, <1>6 DEF PoolInv, Balanced, InHand, Locked
    <2> QED BY <1>1, <2>1, <2>2 DEF NoneOverdue, NotYetLocked
  <1> QED BY <1>1, <1>4, <1>5, <1>6 DEF PoolInv

\* Reopening keeps an audit's age, and touches only one that is overdue.
LEMMA ReclaimedDated ==
    ASSUME IInv, NEW b \in Audits
    PROVE  /\ Reclaimed[b].created = audits[b].created
           /\ ~Overdue(b) => Reclaimed[b] = audits[b]
           /\ Overdue(b) => audits[b].status = "assigned" /\ Reclaimed[b].status = "pending"
  <1>1. audits[b] \in Audit
    BY DEF IInv, TypeOK
  <1>2. Overdue(b) => Reclaimed[b] = [audits[b] EXCEPT !.status = "pending", !.validator = None,
                                                       !.assigned = 0]
    BY DEF Reclaimed
  <1>3. ~Overdue(b) => Reclaimed[b] = audits[b]
    BY DEF Reclaimed
  <1> QED BY <1>1, <1>2, <1>3 DEF Audit, Overdue

\* An audit is never taken from under a stake that waits, its taker's included.
LEMMA AssignPool ==
    ASSUME IInv, PoolInv, Assign
    PROVE  PoolInv'
  <1> DEFINE v == call.who
  <1>1. /\ call.plan = {} /\ call.done = {} /\ call.pc = "assign" /\ v \in Actors
        /\ UNCHANGED <<now, stakes, votes, escrow, faults>>
    BY DEF Assign, IInv, CallOK, ledger
  <1>2. \/ audits' = Reclaimed /\ call' = Idle
        \/ \E a \in Audits :
             /\ Reclaimed[a].status \in {"pending", "contested"} /\ votes[a][v] = None
             /\ audits' = [Reclaimed EXCEPT ![a].status = "assigned", ![a].validator = v,
                                            ![a].assigned = now]
             /\ call' = [call EXCEPT !.pc = "lock", !.audit = a, !.prev = Reclaimed[a].status]
    BY DEF Assign, MayAudit
  <1>3. Reclaimed \in [Audits -> Audit] /\ now \in Nat
    BY ReclaimedSound DEF IInv, TypeOK
  <1>4. \A b \in Audits : /\ Reclaimed[b].status # "none" => Reclaimed[b].created <= now
                          /\ Reclaimed[b].status = "assigned" =>
                                Reclaimed[b].created <= Reclaimed[b].assigned
    BY ReclaimedDated DEF PoolInv, Dated
  <1>5. ASSUME faults = 0
        PROVE  \A b \in Audits : \A u \in Actors : Awaits(b, u) =>
                  /\ Reclaimed[b] = audits[b]
                  /\ audits[b].status = "assigned" /\ audits[b].validator = u
    BY <1>1, <1>5, ReclaimedDated DEF PoolInv, NoneOverdue, HeldByValidator
  <1>6. IsFiniteSet(Locked)' /\ Locked' = Locked
    BY <1>1 DEF PoolInv, Locked
  <1>7. CASE audits' = Reclaimed /\ call' = Idle
    <2>1. call'.plan = {} /\ call'.done = {} /\ call'.pc = "idle"
      BY <1>7 DEF Idle
    <2>2. PlanCounted' /\ Cardinality(call'.done) = 0
      BY <2>1, EmptyPlanCounted
    <2>3. Dated' /\ Claiming'
      BY <1>1, <1>4, <1>7, <2>1 DEF Dated, Claiming
    <2>4. ASSUME faults = 0
          PROVE  HeldByValidator' /\ NoneOverdue' /\ NotYetLocked' /\ Balanced'
      <3>1. HeldByValidator'
        BY <1>1, <1>5, <1>7, <2>4 DEF HeldByValidator, Awaits
      <3>2. Balanced'
        BY <1>1, <1>6, <2>1, <2>2, <2>4 DEF PoolInv, Balanced, InHand
      <3> QED BY <2>1, <3>1, <3>2 DEF NoneOverdue, NotYetLocked
    <2> QED BY <1>1, <1>6, <2>2, <2>3, <2>4 DEF PoolInv
  <1>8. ASSUME NEW a \in Audits,
               Reclaimed[a].status \in {"pending", "contested"}, votes[a][v] = None,
               audits' = [Reclaimed EXCEPT ![a].status = "assigned", ![a].validator = v,
                                           ![a].assigned = now],
               call' = [call EXCEPT !.pc = "lock", !.audit = a, !.prev = Reclaimed[a].status]
        PROVE  PoolInv'
    <2>1. /\ call'.plan = {} /\ call'.done = {} /\ call'.pc = "lock"
          /\ call'.audit = a /\ call'.who = v
      BY <1>1, <1>8 DEF IInv, TypeOK, Call
    <2>2. /\ audits'[a].status = "assigned" /\ audits'[a].validator = v
          /\ audits'[a].assigned = now /\ audits'[a].created = Reclaimed[a].created
          /\ \A b \in Audits \ {a} : audits'[b] = Reclaimed[b]
      BY <1>3, <1>8 DEF Audit
    <2>3. PlanCounted' /\ Cardinality(call'.done) = 0
      BY <2>1, EmptyPlanCounted
    <2>4. Dated' /\ Claiming'
      BY <1>1, <1>4, <1>8, <2>1, <2>2 DEF Dated, Claiming
    <2>5. ASSUME faults = 0
          PROVE  HeldByValidator' /\ NoneOverdue' /\ NotYetLocked' /\ Balanced'
      <3>1. \A u \in Actors : ~Awaits(a, u)
        BY <1>5, <1>8, <2>5
      <3>2. HeldByValidator'
        BY <1>1, <1>5, <2>2, <2>5, <3>1 DEF HeldByValidator, Awaits
      <3>3. NotYetLocked'
        BY <1>1, <1>8, <2>1, <3>1 DEF NotYetLocked, Awaits
      <3>4. Balanced'
        BY <1>1, <1>6, <2>1, <2>3, <2>5 DEF PoolInv, Balanced, InHand
      <3> QED BY <2>1, <3>2, <3>3, <3>4 DEF NoneOverdue
    <2> QED BY <1>1, <1>6, <2>3, <2>4, <2>5 DEF PoolInv
  <1> QED BY <1>2, <1>7, <1>8

\* A stake that waits in an overdue audit is stale: the audit is older still.
LEMMA RefundPool ==
    ASSUME IInv, PoolInv, NEW v \in Actors, RefundStale(v)
    PROVE  PoolInv'
  <1> DEFINE stale == {p \in Payment : p.to = "refunded" /\ Stale(p.audit, p.by)}
  <1>1. /\ call.plan = {} /\ call.done = {} /\ call.pc = "idle"
        /\ UNCHANGED <<now, stakes, votes, audits, escrow, faults>>
    BY DEF RefundStale, IInv, CallOK, ledger, tables
  <1>2. call' = [Idle EXCEPT !.pc = IF stale = {} THEN "assign" ELSE "pay",
                             !.who = v, !.plan = stale]
    BY DEF RefundStale
  <1>3. /\ call'.plan = stale /\ call'.done = {} /\ call'.audit = None
        /\ call'.pc = (IF stale = {} THEN "assign" ELSE "pay")
    BY <1>2 DEF Idle
  <1>4. \A p, q \in stale : p.audit = q.audit /\ p.by = q.by => p = q
    BY DEF Payment
  <1>5. PlanCounted' /\ Cardinality(call'.done) = 0
    <2> HIDE DEF stale
    <2> QED BY <1>3, <1>4, EmptyPlanCounted
  <1>6. Dated' /\ IsFiniteSet(Locked)' /\ Claiming'
    BY <1>1, <1>3 DEF PoolInv, Dated, Locked, Claiming
  <1>7. ASSUME faults = 0 PROVE HeldByValidator' /\ NotYetLocked' /\ Balanced'
    BY <1>1, <1>3, <1>5, <1>7
    DEF PoolInv, HeldByValidator, Awaits, NotYetLocked, Balanced, InHand, Locked
  <1>8. NoneOverdue'
    <2>1. ASSUME NEW a \in Audits, NEW u \in Actors, Overdue(a), Awaits(a, u)
          PROVE  \E p \in stale : p.audit = a /\ p.by = u
      <3>1. /\ audits[a].created \in Nat /\ audits[a].assigned \in Nat
            /\ now \in Nat /\ AuditExpiry \in Nat
            /\ audits[a].created <= audits[a].assigned
        BY <2>1, SamplingAssumption DEF IInv, TypeOK, Audit, PoolInv, Dated, Overdue
      <3>2. Stale(a, u)
        BY <2>1, <3>1 DEF Stale, Overdue, Awaits
      <3>3. [audit |-> a, by |-> u, to |-> "refunded"] \in stale
        BY <3>2 DEF Payment
      <3> QED BY <3>3
    <2>2. \A a \in Audits : \A u \in Actors :
             /\ Overdue(a)' <=> Overdue(a)
             /\ Awaits(a, u)' <=> Awaits(a, u)
      BY <1>1 DEF Overdue, Awaits
    <2> HIDE DEF stale
    <2> QED BY <1>3, <2>1, <2>2 DEF NoneOverdue
  <1> QED BY <1>1, <1>5, <1>6, <1>7, <1>8 DEF PoolInv

\* The plan of a verdict pays every stake of its audit once.
LEMMA ResolvePool ==
    ASSUME IInv, PoolInv, ResolveStakes
    PROVE  PoolInv'
  <1> DEFINE a == call.audit
             locked == {v \in Actors : stakes[a][v] = "locked"}
             plan == {[audit |-> a, by |-> v, to |-> Deserts(a, v)] : v \in locked}
  <1>1. /\ call.plan = {} /\ call.done = {} /\ call.pc = "resolve" /\ a \in Audits
        /\ UNCHANGED <<now, stakes, votes, audits, escrow, faults>>
    BY DEF ResolveStakes, IInv, CallOK, ledger, tables
  <1>2. call' = Idle \/ call' = [call EXCEPT !.pc = "pay", !.plan = plan]
    BY DEF ResolveStakes
  <1>3. \A p, q \in plan : p.audit = q.audit /\ p.by = q.by => p = q
    OBVIOUS
  <1> HIDE DEF plan
  <1>4. /\ call'.done = {} /\ call'.plan \in {{}, plan} /\ call'.pc \in {"idle", "pay"}
        /\ call'.pc = "pay" => call'.audit = a
    <2>1. CASE call' = Idle
      BY <2>1 DEF Idle
    <2>2. CASE call' = [call EXCEPT !.pc = "pay", !.plan = plan]
      BY <1>1, <2>2 DEF IInv, TypeOK, Call
    <2> QED BY <1>2, <2>1, <2>2
  <1>5. PlanCounted' /\ Cardinality(call'.done) = 0
    BY <1>3, <1>4, EmptyPlanCounted
  <1>6. Dated' /\ IsFiniteSet(Locked)' /\ Claiming'
    BY <1>1, <1>4 DEF PoolInv, Dated, Locked, Claiming
  <1>7. ASSUME faults = 0 PROVE HeldByValidator' /\ NotYetLocked' /\ Balanced'
    BY <1>1, <1>4, <1>5, <1>7
    DEF PoolInv, HeldByValidator, Awaits, NotYetLocked, Balanced, InHand, Locked
  <1>8. NoneOverdue'
    BY <1>1, <1>4, SamplingAssumption DEF NoneOverdue
  <1> QED BY <1>1, <1>5, <1>6, <1>7, <1>8 DEF PoolInv

\* The pool has a stake for whoever is left in a plan.
LEMMA PoolCovers ==
    ASSUME NEW s \in Nat, NEW n \in Nat, NEW d \in Nat, d + 1 <= n
    PROVE  s * n >= s * d + s
  <1>1. PICK k \in Nat : n = d + 1 + k
    <2>1. n - d - 1 \in Nat /\ n = d + 1 + (n - d - 1)
      OBVIOUS
    <2> QED BY <2>1
  <1>2. s * (d + 1 + k) = s * d + s + s * k
    OBVIOUS
  <1>3. s * k \in Nat /\ s * d \in Nat
    OBVIOUS
  <1> QED BY <1>1, <1>2, <1>3

\* A plan pays as many stakes as it has payments.
LEMMA PaymentCounted ==
    ASSUME IInv, PoolInv, NEW p \in call.plan
    PROVE  /\ Pairs(call.done \cup {p}) = Pairs(call.done) \cup {<<p.audit, p.by>>}
           /\ <<p.audit, p.by>> \notin Pairs(call.done)
           /\ IsFiniteSet(call.done \cup {p})
           /\ Cardinality(call.done \cup {p}) = Cardinality(call.done) + 1
           /\ Cardinality(Pairs(call.done \cup {p})) = Cardinality(call.done) + 1
           /\ Cardinality(call.done) + 1 <= Cardinality(Locked)
  <1>1. p \notin call.done /\ IsFiniteSet(call.done)
    BY DEF PoolInv, PlanCounted
  <1>2. Pairs(call.done \cup {p}) = Pairs(call.done) \cup {<<p.audit, p.by>>}
    BY DEF Pairs
  <1>3. <<p.audit, p.by>> \notin Pairs(call.done)
    <2>1. \A q \in call.done : ~(p.audit = q.audit /\ p.by = q.by)
      BY <1>1 DEF PoolInv, PlanCounted
    <2> QED BY <2>1 DEF Pairs
  <1>4. \A q \in call.plan \cup call.done : <<q.audit, q.by>> \in Locked
    <2>1. \A q \in call.plan \cup call.done : q.audit \in Audits /\ q.by \in Actors
      BY DEF IInv, TypeOK, Call, Payment
    <2> QED BY <2>1 DEF IInv, PlanOK, Locked
  <1>5. Pairs(call.done) \cup {<<p.audit, p.by>>} \in SUBSET Locked
    BY <1>4 DEF Pairs
  <1>6. /\ IsFiniteSet(Pairs(call.done))
        /\ Cardinality(Pairs(call.done) \cup {<<p.audit, p.by>>}) <= Cardinality(Locked)
    <2>1. Pairs(call.done) \in SUBSET Locked
      BY <1>5
    <2> QED BY <1>5, <2>1, FS_Subset DEF PoolInv
  <1>7. /\ IsFiniteSet(call.done \cup {p})
        /\ Cardinality(call.done \cup {p}) = Cardinality(call.done) + 1
    BY <1>1, FS_AddElement
  <1>8. Cardinality(Pairs(call.done) \cup {<<p.audit, p.by>>}) = Cardinality(call.done) + 1
    BY <1>3, <1>6, FS_AddElement DEF PoolInv, PlanCounted
  <1> QED BY <1>2, <1>3, <1>6, <1>7, <1>8

LEMMA PayPool ==
    ASSUME IInv, PoolInv, PayStake
    PROVE  PoolInv'
  <1> SUFFICES ASSUME NEW p \in call.plan,
                      \/ Moves(Pool, IF p.to = "slashed" THEN Reserve ELSE p.by, Stake)
                      \/ Fails(Pool, Stake),
                      call' = [call EXCEPT !.plan = @ \ {p}, !.done = @ \cup {p}],
                      UNCHANGED <<now, tables>>, call.pc = "pay"
               PROVE  PoolInv'
    BY DEF PayStake
  <1>1. /\ call'.plan = call.plan \ {p} /\ call'.done = call.done \cup {p}
        /\ call'.pc = "pay" /\ call'.audit = call.audit
    BY DEF IInv, TypeOK, Call
  <1>2. call'.plan \cup call'.done = call.plan \cup call.done
    BY <1>1
  <1>3. PlanCounted'
    <2>1. call'.plan \cap call'.done = {}
      BY <1>1 DEF PoolInv, PlanCounted
    <2>2. Cardinality(Pairs(call'.done)) = Cardinality(call'.done) /\ IsFiniteSet(call'.done)
      <3>1. /\ Cardinality(Pairs(call.done \cup {p})) = Cardinality(call.done \cup {p})
            /\ IsFiniteSet(call.done \cup {p})
        BY PaymentCounted
      <3>2. call'.done = call.done \cup {p}
        BY <1>1
      <3> QED BY <3>1, <3>2
    <2>3. \A q, r \in call'.plan \cup call'.done : q.audit = r.audit /\ q.by = r.by => q = r
      BY <1>2 DEF PoolInv, PlanCounted
    <2> QED BY <2>1, <2>2, <2>3 DEF PlanCounted, Pairs
  <1>4. Dated' /\ IsFiniteSet(Locked)' /\ Claiming'
    BY <1>1 DEF PoolInv, Dated, Locked, Claiming, tables
  <1>5. faults' = 0 => faults = 0
    BY DEF Moves, Fails, IInv, TypeOK
  <1>6. ASSUME faults = 0 PROVE HeldByValidator' /\ NoneOverdue' /\ NotYetLocked'
    <2>1. HeldByValidator' /\ NotYetLocked'
      BY <1>1, <1>6 DEF PoolInv, HeldByValidator, Awaits, NotYetLocked, tables
    <2>2. NoneOverdue'
      BY <1>1, <1>2, <1>6 DEF PoolInv, NoneOverdue, Awaits, Overdue, tables
    <2> QED BY <2>1, <2>2
  <1>7. ASSUME faults' = 0 PROVE Balanced'
    <2> DEFINE n == Cardinality(Locked)
               d == Cardinality(call.done)
    <2>1. n \in Nat /\ d \in Nat /\ escrow[Pool] \in Nat /\ Stake \in Nat /\ faults \in Nat
      BY PoolNumbers DEF PoolInv, PlanCounted, IInv
    <2>2. Cardinality(call'.done) = d + 1 /\ d + 1 <= n
      BY <1>1, PaymentCounted
    <2>3. Cardinality(Locked') = n
      BY DEF Locked, tables
    <2>4. escrow[Pool] + Stake * d = Stake * (n + 0)
      BY <1>5, <1>7 DEF PoolInv, Balanced, InHand
    <2>5. escrow'[Pool] = escrow[Pool] - Stake
      <3>1. escrow[Pool] >= Stake
        <4> HIDE DEF n, d
        <4>1. Stake * n >= Stake * d + Stake
          BY <2>1, <2>2, PoolCovers
        <4>2. Stake * n \in Nat /\ Stake * d \in Nat /\ n + 0 = n
          BY <2>1
        <4> QED BY <2>1, <2>4, <4>1, <4>2
      <3>2. Moves(Pool, IF p.to = "slashed" THEN Reserve ELSE p.by, Stake)
        BY <1>7, <2>1, <3>1 DEF Fails, Covered
      <3>3. (IF p.to = "slashed" THEN Reserve ELSE p.by) # Pool
        BY SamplingAssumption DEF IInv, TypeOK, Call, Payment
      <3> QED BY <3>2, <3>3 DEF Moves, IInv, TypeOK
    <2>6. escrow'[Pool] + Stake * (d + 1) = Stake * (n + 0)
      <3> HIDE DEF n, d
      <3>1. Stake * (d + 1) = Stake * d + Stake /\ Stake * d \in Nat /\ Stake * (n + 0) \in Nat
        BY <2>1
      <3> QED BY <2>1, <2>4, <2>5, <3>1
    <2> QED BY <1>1, <2>2, <2>3, <2>6 DEF Balanced, InHand
  <1> QED BY <1>3, <1>4, <1>5, <1>6, <1>7 DEF PoolInv

\* The stakes that have been paid are the ones that are marked.
LEMMA MarkPool ==
    ASSUME IInv, PoolInv, MarkStakes
    PROVE  PoolInv'
  <1>1. /\ call.plan = {} /\ call.pc = "pay"
        /\ UNCHANGED <<now, votes, audits, escrow, faults>>
    BY DEF MarkStakes, ledger
  <1>2. /\ \A a \in Audits : \A v \in Actors : stakes'[a][v] = Marked(a, v)
        /\ \A q \in call.done : q.audit \in Audits /\ q.by \in Actors /\ q.to # "locked"
        /\ \A q \in call.done : stakes[q.audit][q.by] = "locked"
    BY DEF MarkStakes, IInv, TypeOK, Call, Payment, PlanOK
  <1>3. \A a \in Audits : \A v \in Actors :
           stakes'[a][v] = "locked" <=>
              stakes[a][v] = "locked" /\ ~\E q \in call.done : q.audit = a /\ q.by = v
    <2> SUFFICES ASSUME NEW a \in Audits, NEW v \in Actors
                 PROVE  Marked(a, v) = "locked" <=>
                          stakes[a][v] = "locked" /\ ~\E q \in call.done : q.audit = a /\ q.by = v
      BY <1>2
    <2>1. CASE \E q \in call.done : q.audit = a /\ q.by = v
      <3> DEFINE r == CHOOSE q \in call.done : q.audit = a /\ q.by = v
      <3>1. r \in call.done
        BY <2>1
      <3>2. Marked(a, v) = r.to
        BY <2>1 DEF Marked
      <3>3. r.to # "locked"
        BY <1>2, <3>1
      <3> QED BY <2>1, <3>2, <3>3
    <2>2. CASE ~\E q \in call.done : q.audit = a /\ q.by = v
      BY <2>2 DEF Marked
    <2> QED BY <2>1, <2>2
  <1>4. Locked' = Locked \ Pairs(call.done)
    BY <1>3 DEF Locked, Pairs
  <1>5. Pairs(call.done) \in SUBSET Locked
    BY <1>2 DEF Pairs, Locked
  <1>6. /\ IsFiniteSet(Locked)'
        /\ Cardinality(Locked') = Cardinality(Locked) - Cardinality(call.done)
    <2>1. Locked \cap Pairs(call.done) = Pairs(call.done)
      BY <1>5
    <2> QED BY <1>4, <2>1, FS_Difference DEF PoolInv, PlanCounted
  <1>7. /\ call'.plan = {} /\ call'.done = {} /\ call'.pc \in {"idle", "assign"}
        /\ call'.pc = "assign" => call.audit = None
    <2>1. CASE call' = Idle
      BY <2>1 DEF Idle
    <2>2. CASE call' = [call EXCEPT !.pc = "assign", !.done = {}] /\ call.audit = None
      BY <1>1, <2>2 DEF IInv, TypeOK, Call
    <2> QED BY <2>1, <2>2 DEF MarkStakes
  <1>8. PlanCounted' /\ Cardinality(call'.done) = 0
    BY <1>7, EmptyPlanCounted
  <1>9. Dated' /\ Claiming'
    BY <1>1, <1>7 DEF PoolInv, Dated, Claiming
  <1>10. ASSUME faults = 0 PROVE HeldByValidator' /\ NoneOverdue' /\ NotYetLocked'
    <2>1. HeldByValidator'
      BY <1>1, <1>3, <1>10 DEF PoolInv, HeldByValidator, Awaits
    <2>2. NoneOverdue'
      BY <1>1, <1>3, <1>7, <1>10 DEF PoolInv, NoneOverdue, Awaits, Overdue
    <2> QED BY <1>7, <2>1, <2>2 DEF NotYetLocked
  <1>11. ASSUME faults = 0 PROVE Balanced'
    <2> DEFINE n == Cardinality(Locked)
               d == Cardinality(call.done)
    <2>1. n \in Nat /\ d \in Nat /\ escrow[Pool] \in Nat /\ Stake \in Nat /\ faults \in Nat
      BY PoolNumbers DEF PoolInv, PlanCounted, IInv
    <2>2. escrow[Pool] + Stake * d = Stake * (n + 0)
      BY <1>1, <1>11 DEF PoolInv, Balanced, InHand
    <2>3. escrow[Pool] + Stake * 0 = Stake * ((n - d) + 0)
      <3> HIDE DEF n, d
      <3>1. Stake * (n - d) = Stake * n - Stake * d
        BY <2>1
      <3>2. Stake * n \in Nat /\ Stake * d \in Nat
        BY <2>1
      <3> QED BY <2>1, <2>2, <3>1, <3>2
    <2> QED BY <1>1, <1>6, <1>7, <1>8, <2>3 DEF Balanced, InHand
  <1> QED BY <1>1, <1>6, <1>8, <1>9, <1>10, <1>11 DEF PoolInv

LEMMA PoolInvInit ==
    Init => PoolInv
  <1> SUFFICES ASSUME Init PROVE PoolInv
    OBVIOUS
  <1>1. Locked = {} /\ call.plan = {} /\ call.done = {} /\ call.pc = "idle"
    BY DEF Init, Locked, Idle
  <1>2. IsFiniteSet({}) /\ Cardinality({}) = 0 /\ Pairs({}) = {}
    BY FS_EmptySet DEF Pairs
  <1>3. Dated
    BY DEF Init, Dated, NoAudit
  <1>4. PlanCounted /\ Claiming /\ NoneOverdue /\ NotYetLocked
    BY <1>1, <1>2 DEF PlanCounted, Claiming, NoneOverdue, NotYetLocked
  <1>5. HeldByValidator
    BY DEF Init, HeldByValidator, Awaits
  <1>6. Balanced
    <2>1. escrow[Pool] = 0 /\ Stake \in Nat
      BY SamplingAssumption DEF Init
    <2> QED BY <1>1, <1>2, <2>1 DEF Balanced, InHand
  <1> QED BY <1>1, <1>2, <1>3, <1>4, <1>5, <1>6 DEF PoolInv

LEMMA PoolInvStep ==
    IInv /\ PoolInv /\ [Next]_vars => PoolInv'
  <1> SUFFICES ASSUME IInv, PoolInv, [Next]_vars PROVE PoolInv'
    OBVIOUS
  <1>1. CASE UNCHANGED vars
    BY <1>1 DEF vars, tables, ledger, PoolInv, Dated, Locked, PlanCounted, Pairs, Claiming,
                HeldByValidator, NoneOverdue, NotYetLocked, Balanced, InHand, Awaits, Overdue
  <1>2. CASE Next
    BY <1>2, MaybeOpenPool, RefundPool, SubmitPool, AssignPool, LockPool, StakeRowPool,
       DenyPool, RewardPool, ResolvePool, PayPool, MarkPool, SpendPool
    DEF Next, Proceed
  <1> QED BY <1>1, <1>2

\* While no transfer fails and every call ends, the stake pool holds exactly what
\* the stake rows say is locked, but for the stakes of the call under way.
THEOREM ExactPool ==
    Spec => []PoolIsExact
  <1>1. PoolInv => PoolIsExact
    BY DEF PoolInv, PoolIsExact, Balanced, InHand, Locked
  <1>2. Spec => []PoolInv
    BY PoolInvInit, PoolInvStep, Inductive, PTL DEF Spec
  <1> QED BY <1>1, <1>2, PTL
=============================================================================
