------------------------ MODULE SeverityDebt_proofs ------------------------
(***************************************************************************)
(* What holds of debts and repayments for any number of actors, reports    *)
(* and repayments and any configuration.                                   *)
(*                                                                         *)
(* Sanctions only grow (SanctionsGrow): what an incident adds is computed  *)
(* from what was counted before its INSERT; the proof needs only that a    *)
(* report under way names an actor, a tier and a time.                     *)
(*                                                                         *)
(* Victims receive what the incidents record (VictimsAreSafe), however the *)
(* calls interleave: ReceiveInv says what the reserve holds for each call, *)
(* its amount until it is shared out and its plan after that, and that the *)
(* sum of it is covered.  A plan comes to the amount or to all that is     *)
(* owed, whichever is less (SharesAddUp, by taking off the incident that   *)
(* comes last).                                                            *)
(*                                                                         *)
(* An actor let back in has paid everybody (PaidIsWhole), when its checks  *)
(* come one at a time: WholeInv adds that a debt covers what is owed to    *)
(* somebody, and the amount of the one call that is checked.               *)
(***************************************************************************)
EXTENDS SeverityDebt, Sums_proofs

\* Every actor has flags, with a time the quarantine ends.
FlagsKnown ==
    /\ flags = [a \in Actors |-> flags[a]]
    /\ \A a \in Actors :
          /\ flags[a] = [blacklisted |-> flags[a].blacklisted, until |-> flags[a].until,
                         debt |-> flags[a].debt]
          /\ flags[a].blacklisted \in BOOLEAN /\ flags[a].until \in Nat

ReportsKnown == \A r \in reports : r.actor \in Actors /\ r.tier \in Tiers /\ r.ts \in Nat

SanctionInv == now \in Nat /\ FlagsKnown /\ ReportsKnown

Grown ==
    \A a \in Actors : /\ flags[a].blacklisted => flags'[a].blacklisted
                      /\ flags'[a].until >= flags[a].until

LEMMA InitHolds == Init => SanctionInv
  <1> SUFFICES ASSUME Init PROVE SanctionInv
    OBVIOUS
  <1>1. /\ Clean = [blacklisted |-> Clean.blacklisted, until |-> Clean.until, debt |-> Clean.debt]
        /\ Clean.blacklisted \in BOOLEAN /\ Clean.until \in Nat
    BY DEF Clean
  <1>2. flags = [a \in Actors |-> Clean] /\ reports = {} /\ now = 0
    BY DEF Init
  <1>3. FlagsKnown
    BY <1>1, <1>2 DEF FlagsKnown
  <1>4. ReportsKnown
    BY <1>2 DEF ReportsKnown
  <1> QED BY <1>2, <1>3, <1>4 DEF SanctionInv

LEMMA FlagsStay ==
    ASSUME SanctionInv, flags' = flags
    PROVE  FlagsKnown' /\ Grown
  BY DEF SanctionInv, FlagsKnown, Grown

LEMMA ReportsStay ==
    ASSUME SanctionInv, reports' \subseteq reports
    PROVE  ReportsKnown'
  BY DEF SanctionInv, ReportsKnown

\* One more incident: the later end of the two quarantines.
LEMMA IncidentGrows ==
    ASSUME SanctionInv, NEW r \in reports, RecordIncident(r)
    PROVE  SanctionInv' /\ Grown
  <1>1. r.actor \in Actors /\ r.tier \in Tiers /\ r.ts \in Nat
    BY DEF SanctionInv, ReportsKnown
  <1>2. SeverityOf(r) \in Tiers
    BY <1>1 DEF SeverityOf, MinOf, Tiers
  <1>3. UntilOf(r) \in Nat
    <2>1. Quarantine[SeverityOf(r)] \in Nat \cup {-1}
      BY <1>2, SeverityAssumption
    <2> QED BY <1>1, <2>1 DEF UntilOf
  <1> DEFINE f == flags[r.actor]
             g == Sanction(f, r)
  <1>4. f.until \in Nat /\ f.blacklisted \in BOOLEAN
    BY <1>1 DEF SanctionInv, FlagsKnown
  <1>5. /\ g = [blacklisted |-> g.blacklisted, until |-> g.until, debt |-> g.debt]
        /\ g.blacklisted \in BOOLEAN
        /\ g.until = MaxOf(f.until, UntilOf(r))
        /\ f.blacklisted => g.blacklisted
    <2>1. /\ g.blacklisted <=> (f.blacklisted \/ Quarantine[SeverityOf(r)] < 0)
          /\ g.blacklisted \in BOOLEAN
      BY <1>4 DEF Sanction
    <2>2. g = [blacklisted |-> g.blacklisted, until |-> g.until, debt |-> g.debt]
          /\ g.until = MaxOf(f.until, UntilOf(r))
      BY DEF Sanction
    <2> QED BY <1>4, <2>1, <2>2
  <1>6. g.until \in Nat /\ g.until >= f.until
    BY <1>3, <1>4, <1>5 DEF MaxOf
  <1>7. flags' = [a \in Actors |-> IF a = r.actor THEN g ELSE flags[a]]
    BY <1>1 DEF RecordIncident, SanctionInv, FlagsKnown
  <1>8. reports' \subseteq reports /\ now' = now
    BY DEF RecordIncident
  <1> HIDE DEF f, g
  <1>9. FlagsKnown'
    BY <1>5, <1>6, <1>7 DEF SanctionInv, FlagsKnown
  <1>10. Grown
    <2>1. ASSUME NEW a \in Actors, a # r.actor
          PROVE  flags'[a] = flags[a] /\ flags[a].until \in Nat
      BY <1>7, <2>1 DEF SanctionInv, FlagsKnown
    <2>2. flags'[r.actor] = g /\ flags[r.actor] = f
      BY <1>1, <1>7 DEF f
    <2> QED BY <1>5, <1>6, <2>1, <2>2 DEF Grown
  <1> QED BY <1>8, <1>9, <1>10, ReportsStay DEF SanctionInv

\* A repayment lowers the debt and nothing else.
LEMMA RepaymentGrows ==
    ASSUME SanctionInv, NEW p \in Repays, Allocate(p)
    PROVE  SanctionInv' /\ Grown
  <1> DEFINE a == repays[p].actor
             x == repays[p].amount
             f == flags[a]
  <1>1. flags' = [flags EXCEPT ![a].debt = @ - x] /\ UNCHANGED <<now, reports>>
    BY DEF Allocate, classifying
  <1>2. flags' = [b \in Actors |-> IF b = a THEN [f EXCEPT !.debt = @ - x] ELSE flags[b]]
    BY <1>1 DEF SanctionInv, FlagsKnown
  <1> HIDE DEF a, x, f
  <1>3. ASSUME NEW b \in Actors
        PROVE  /\ flags'[b] = [blacklisted |-> flags'[b].blacklisted, until |-> flags'[b].until,
                               debt |-> flags'[b].debt]
               /\ flags'[b].blacklisted = flags[b].blacklisted
               /\ flags'[b].until = flags[b].until
    <2>1. flags[b] = [blacklisted |-> flags[b].blacklisted, until |-> flags[b].until,
                      debt |-> flags[b].debt]
      BY DEF SanctionInv, FlagsKnown
    <2>2. CASE b = a
      <3>1. flags'[b] = [flags[b] EXCEPT !.debt = @ - x]
        BY <1>2, <2>2 DEF f
      <3>2. [flags[b] EXCEPT !.debt = @ - x] =
              [blacklisted |-> flags[b].blacklisted, until |-> flags[b].until,
               debt |-> flags[b].debt - x]
        BY <2>1
      <3>3. flags'[b] = [blacklisted |-> flags[b].blacklisted, until |-> flags[b].until,
                         debt |-> flags[b].debt - x]
        BY <3>1, <3>2
      <3> QED BY <3>3
    <2>3. CASE b # a
      <3>1. flags'[b] = flags[b]
        BY <1>2, <2>3
      <3> QED BY <2>1, <3>1, Zenon
    <2> QED BY <2>2, <2>3
  <1>4. FlagsKnown' /\ Grown
    <2>1. flags' = [b \in Actors |-> flags'[b]]
      BY <1>2
    <2>2. \A b \in Actors : flags[b].blacklisted \in BOOLEAN /\ flags[b].until \in Nat
      BY DEF SanctionInv, FlagsKnown
    <2>3. FlagsKnown'
      <3>1. ASSUME NEW b \in Actors
            PROVE  /\ flags'[b] = [blacklisted |-> flags'[b].blacklisted,
                                   until |-> flags'[b].until, debt |-> flags'[b].debt]
                   /\ flags'[b].blacklisted \in BOOLEAN /\ flags'[b].until \in Nat
        <4>1. flags'[b].blacklisted \in BOOLEAN
          BY <1>3, <2>2, Zenon
        <4>2. flags'[b].until \in Nat
          BY <1>3, <2>2, Zenon
        <4> QED BY <1>3, <4>1, <4>2, Zenon
      <3> QED BY <2>1, <3>1, Zenon DEF FlagsKnown
    <2>4. Grown
      <3>1. ASSUME NEW b \in Actors
            PROVE  /\ flags[b].blacklisted => flags'[b].blacklisted
                   /\ flags'[b].until >= flags[b].until
        <4>1. flags'[b].until = flags[b].until /\ flags[b].until \in Nat
          BY <1>3, <2>2, Zenon
        <4>2. flags'[b].until >= flags[b].until
          BY <4>1
        <4> QED BY <1>3, <4>2, Zenon
      <3> QED BY <3>1, Zenon DEF Grown
    <2> QED BY <2>3, <2>4
  <1>5. reports' \subseteq reports /\ now' = now
    BY <1>1
  <1> QED BY <1>4, <1>5, ReportsStay DEF SanctionInv

LEMMA Step == SanctionInv /\ [Next]_vars => SanctionInv' /\ Grown
  <1> SUFFICES ASSUME SanctionInv, [Next]_vars PROVE SanctionInv' /\ Grown
    OBVIOUS
  <1> USE DEF books, money, classifying
  <1>1. ASSUME NEW a \in Actors, NEW v \in Actors \cup {None}, NEW tier \in Tiers,
               NEW value \in Values, NEW slashed \in 0 .. value,
               ReportIncident(a, v, tier, value, slashed)
        PROVE  SanctionInv' /\ Grown
    <2> DEFINE r == [actor |-> a, victim |-> v, tier |-> tier,
                     uncovered |-> MaxOf(0, value * DamageMult[tier] - slashed),
                     prior |-> Prior(a), ts |-> now, call |-> reported]
    <2>1. reports' = reports \cup {r} /\ flags' = flags /\ now' = now
      BY <1>1 DEF ReportIncident
    <2>2. r.actor \in Actors /\ r.tier \in Tiers /\ r.ts \in Nat
      BY DEF SanctionInv
    <2> HIDE DEF r
    <2>3. ReportsKnown'
      BY <2>1, <2>2 DEF SanctionInv, ReportsKnown
    <2> QED BY <2>1, <2>3, FlagsStay DEF SanctionInv
  <1>2. CASE \E r \in reports : RecordIncident(r)
    BY <1>2, IncidentGrows
  <1>3. CASE \E p \in Repays : Allocate(p)
    BY <1>3, RepaymentGrows
  <1>4. CASE \/ \E r \in reports : StopReport(r)
             \/ \E p \in Repays : \E a \in Actors : \E x \in Amounts : PayIn(p, a, x)
             \/ \E p \in Repays : PayOut(p) \/ StopRepay(p) \/ CheckDebt(p)
             \/ UNCHANGED vars
    <2>1. flags' = flags /\ now' = now /\ reports' \subseteq reports
      BY <1>4 DEF StopReport, PayIn, PayOut, StopRepay, CheckDebt, vars
    <2> QED BY <2>1, FlagsStay, ReportsStay DEF SanctionInv
  <1>5. CASE Tick
    <2>1. flags' = flags /\ now' = now + 1 /\ reports' = reports
      BY <1>5 DEF Tick
    <2> QED BY <2>1, FlagsStay, ReportsStay DEF SanctionInv
  <1> QED BY <1>1, <1>2, <1>3, <1>4, <1>5 DEF Next, Classify, Settle

-----------------------------------------------------------------------------
\* A later incident never shortens a quarantine and never lifts a blacklisting,
\* and no repayment does, whatever interleaves (record_incident's flags row).
THEOREM SanctionsGrow == Spec => SanctionsOnlyGrow
  <1>1. SanctionInv /\ [Next]_vars => SanctionInv' /\ Grown
    BY Step
  <1>2. SanctionInv /\ [Next]_vars => [Grown]_vars
    BY <1>1
  <1> QED BY InitHolds, <1>1, <1>2, PTL DEF Spec, SanctionsOnlyGrow, Grown

-----------------------------------------------------------------------------
(* Victims receive what the incidents record.                              *)

\* An order in which every element knows the ones before it.
Ordered(S, before) ==
    /\ \A i \in S : before[i] \in SUBSET S /\ i \notin before[i]
    /\ \A i, j \in S : i = j \/ i \in before[j] \/ j \in before[i]
    /\ \A i, j \in S : i \in before[j] => before[i] \subseteq before[j]

\* In a finite ordered set something comes last.
LEMMA LastOne ==
    ASSUME NEW S, IsFiniteSet(S), NEW before, Ordered(S, before), NEW D \in SUBSET S, D # {}
    PROVE  \E i \in D : \A j \in D : j = i \/ j \in before[i]
  <1> DEFINE Rest == {D \ before[i] : i \in D}
  <1>1. Rest \in SUBSET SUBSET S /\ Rest # {}
    OBVIOUS
  <1> HIDE DEF Rest
  <1>2. PICK r \in Rest : \A t \in Rest : ~(Cardinality(t) < Cardinality(r))
    BY <1>1, LeastSubset
  <1>3. PICK i \in D : r = D \ before[i]
    BY <1>2 DEF Rest
  <1>4. ASSUME NEW j \in D, j # i, j \notin before[i] PROVE FALSE
    <2>1. i \in before[j] /\ before[i] \subseteq before[j]
      BY <1>4 DEF Ordered
    <2>2. i \notin before[i] /\ i \in r
      BY <1>3 DEF Ordered
    <2> DEFINE t == D \ before[j]
    <2>3. t \in Rest /\ t \in SUBSET (r \ {i})
      BY <1>3, <2>1 DEF Rest
    <2>4. r \in SUBSET S
      BY <1>1, <1>2
    <2>5. /\ IsFiniteSet(r \ {i}) /\ Cardinality(r) \in Nat
          /\ Cardinality(r \ {i}) = Cardinality(r) - 1
      BY <2>2, <2>4, RemoveOne
    <2> HIDE DEF t
    <2>6. Cardinality(t) \in Nat /\ Cardinality(t) <= Cardinality(r \ {i})
      BY <2>3, <2>5, FS_Subset, FS_CardinalityType
    <2>7. Cardinality(t) < Cardinality(r)
      BY <2>5, <2>6
    <2> QED BY <1>2, <2>3, <2>7
  <1> QED BY <1>4

\* What is shared out in order, each up to what it is owed while the amount lasts,
\* comes to the amount or to all that is owed, whichever is less.
LEMMA SharesAddUp ==
    ASSUME NEW S, IsFiniteSet(S), NEW before, Ordered(S, before),
           NEW w, \A i \in S : w[i] \in Nat, NEW x \in Nat,
           NEW share, \A i \in S :
              share[i] = MinOf(w[i], MaxOf(0, x - SumFunctionOnSet(w, before[i])))
    PROVE  /\ SumFunctionOnSet(share, S) = MinOf(SumFunctionOnSet(w, S), x)
           /\ \A i \in S : share[i] \in Nat /\ share[i] <= w[i]
  <1>0. \A D \in SUBSET S : IsFiniteSet(D) /\ SumFunctionOnSet(w, D) \in Nat
    <2> TAKE D \in SUBSET S
    <2>1. IsFiniteSet(D) /\ \A i \in D : w[i] \in Nat
      BY FS_Subset
    <2> QED BY <2>1, SumNat
  <1>1. \A i \in S : share[i] \in Nat /\ share[i] <= w[i]
    <2> TAKE i \in S
    <2>1. SumFunctionOnSet(w, before[i]) \in Nat
      BY <1>0 DEF Ordered
    <2> QED BY <2>1 DEF MinOf, MaxOf
  <1> DEFINE Closed(D) == \A i \in D : before[i] \subseteq D
             Good(D) == SumFunctionOnSet(share, D) = MinOf(SumFunctionOnSet(w, D), x)
             Bad == {D \in SUBSET S : Closed(D) /\ ~Good(D)}
  <1>2. Bad = {}
    <2> SUFFICES ASSUME Bad # {} PROVE FALSE
      OBVIOUS
    <2>1. Bad \in SUBSET SUBSET S
      OBVIOUS
    <2> HIDE DEF Bad, Closed, Good
    <2>2. PICK D \in Bad : \A t \in Bad : ~(Cardinality(t) < Cardinality(D))
      BY <2>1, LeastSubset
    <2>3. D \in SUBSET S /\ Closed(D) /\ ~Good(D)
      BY <2>2 DEF Bad
    <2>4. D # {}
      <3>1. SumFunctionOnSet(share, {}) = 0 /\ SumFunctionOnSet(w, {}) = 0
        BY SumEmpty
      <3>2. Good({})
        BY <3>1 DEF Good, MinOf
      <3> QED BY <2>3, <3>2
    <2>5. PICK m \in D : \A j \in D : j = m \/ j \in before[m]
      BY <2>3, <2>4, LastOne
    <2> DEFINE E == D \ {m}
    <2>6. before[m] = E
      BY <2>3, <2>5 DEF Ordered, Closed
    <2>7. E \in SUBSET S /\ Closed(E)
      <3>1. ASSUME NEW i \in E PROVE before[i] \subseteq E
        <4>1. before[i] \subseteq before[m]
          BY <2>3, <2>6 DEF Ordered
        <4> QED BY <2>6, <4>1
      <3> QED BY <2>3, <3>1 DEF Closed
    <2>8. Cardinality(E) < Cardinality(D)
      BY <2>3, RemoveOne
    <2> HIDE DEF E
    <2>9. Good(E)
      BY <2>2, <2>7, <2>8 DEF Bad
    <2>10. /\ SumFunctionOnSet(share, D) = share[m] + SumFunctionOnSet(share, E)
           /\ SumFunctionOnSet(w, D) = w[m] + SumFunctionOnSet(w, E)
      <3>1. IsFiniteSet(D) /\ \A i \in D : share[i] \in Int /\ w[i] \in Int
        BY <1>0, <1>1, <2>3
      <3>2. SumFunctionOnSet(share, D) = share[m] + SumFunctionOnSet(share, D \ {m})
        BY <3>1, SumRemove
      <3>3. SumFunctionOnSet(w, D) = w[m] + SumFunctionOnSet(w, D \ {m})
        BY <3>1, SumRemove
      <3> QED BY <3>2, <3>3 DEF E
    <2>11. m \in S /\ w[m] \in Nat
      BY <2>3
    <2>12. share[m] = MinOf(w[m], MaxOf(0, x - SumFunctionOnSet(w, E)))
      BY <2>6, <2>11
    <2>13. PICK W \in Nat : W = SumFunctionOnSet(w, E)
      BY <1>0, <2>7
    <2>14. SumFunctionOnSet(share, E) = MinOf(W, x)
      BY <2>9, <2>13 DEF Good
    <2>15. SumFunctionOnSet(share, D) = MinOf(w[m], MaxOf(0, x - W)) + MinOf(W, x)
           /\ SumFunctionOnSet(w, D) = w[m] + W
      BY <2>10, <2>12, <2>13, <2>14
    <2>16. MinOf(w[m], MaxOf(0, x - W)) + MinOf(W, x) = MinOf(w[m] + W, x)
      BY <2>11 DEF MinOf, MaxOf
    <2> QED BY <2>3, <2>15, <2>16 DEF Good
  <1>3. Closed(S)
    BY DEF Ordered
  <1>4. Good(S)
    BY <1>2, <1>3
  <1> QED BY <1>1, <1>4

Steps == {"paid", "checked", "refused", "lost", "allocated", "unpaid"}

\* A call that allocated nothing plans no payout, and a plan is finite.
PlansKnown ==
    \A p \in Repays : repays[p] # None =>
        /\ IsFiniteSet(repays[p].payouts)
        /\ repays[p].step \notin {"allocated", "unpaid"} => repays[p].payouts = {}

\* What the reserve holds for a call: the amount it brought, until it is shared out
\* or the call is over, then what it still plans to pay.
Held(p) == IF At(p, "paid") \/ At(p, "checked") THEN repays[p].amount ELSE Planned(p)
HeldOn == SumFunctionOnSet([p \in Repays |-> Held(p)], Repays)

\* A call as a record.
LEMMA CallFields ==
    ASSUME NEW c \in Call
    PROVE  /\ c.step \in Steps /\ c.actor \in Actors /\ c.amount \in Nat
           /\ c.amount \in Amounts /\ c.unallocated \in Nat /\ c.payouts \in SUBSET Payout
           /\ c # None
  <1>1. /\ c.step \in Steps /\ c.actor \in Actors /\ c.amount \in Amounts
        /\ c.unallocated \in Nat /\ c.payouts \in SUBSET Payout
    BY DEF Call, Steps
  <1>2. c # None
    BY SeverityAssumption
  <1>3. c.amount \in Nat
    BY <1>1, SeverityAssumption
  <1> QED BY <1>1, <1>2, <1>3

LEMMA CallMoves ==
    ASSUME NEW c \in Call, NEW s \in Steps
    PROVE  LET d == [c EXCEPT !.step = s] IN
           /\ d \in Call /\ d.step = s /\ d.actor = c.actor /\ d.amount = c.amount
           /\ d.payouts = c.payouts
  BY DEF Call, Steps

LEMMA CallPays ==
    ASSUME NEW c \in Call, NEW o
    PROVE  LET d == [c EXCEPT !.payouts = @ \ {o}] IN
           /\ d \in Call /\ d.step = c.step /\ d.actor = c.actor /\ d.amount = c.amount
           /\ d.payouts = c.payouts \ {o}
  <1> DEFINE P == c.payouts \ {o}
  <1>1. c.payouts \in SUBSET Payout
    BY CallFields
  <1>2. P \in SUBSET Payout
    BY <1>1
  <1>3. [c EXCEPT !.payouts = @ \ {o}] = [c EXCEPT !.payouts = P]
    OBVIOUS
  <1> HIDE DEF P
  <1>4. LET d == [c EXCEPT !.payouts = P] IN
           /\ d \in Call /\ d.step = c.step /\ d.actor = c.actor /\ d.amount = c.amount
           /\ d.payouts = P
    BY <1>2 DEF Call
  <1> QED BY <1>3, <1>4 DEF P

LEMMA CallAt ==
    ASSUME TypeOK, NEW p \in Repays
    PROVE  /\ repays[p] \in Call \/ repays[p] = None
           /\ repays[p] # None => repays[p] \in Call
           /\ \A s : At(p, s) => repays[p] \in Call /\ repays[p].step = s
  <1>1. repays[p] \in Call \cup {None}
    BY DEF TypeOK
  <1> QED BY <1>1 DEF At

\* A plan comes to a natural number, and making one payout takes it off.
LEMMA PlanNat ==
    ASSUME NEW plan \in SUBSET Payout, IsFiniteSet(plan)
    PROVE  AmountOf(plan) \in Nat
  <1> DEFINE f == [o \in plan |-> o.amount]
  <1>1. \A o \in plan : f[o] \in Nat
    BY DEF Payout
  <1> HIDE DEF f
  <1>2. SumFunctionOnSet(f, plan) \in Nat
    BY <1>1, SumNat
  <1> QED BY <1>2 DEF AmountOf, f

LEMMA PlanNothing == AmountOf({}) = 0
  BY SumEmpty DEF AmountOf

LEMMA PlanLess ==
    ASSUME NEW plan \in SUBSET Payout, IsFiniteSet(plan), NEW o \in plan
    PROVE  /\ IsFiniteSet(plan \ {o}) /\ AmountOf(plan \ {o}) \in Nat /\ AmountOf(plan) \in Nat
           /\ o.amount \in Nat /\ AmountOf(plan) = o.amount + AmountOf(plan \ {o})
  <1> DEFINE f == [q \in plan |-> q.amount]
             g == [q \in plan \ {o} |-> q.amount]
  <1>1. \A q \in plan : f[q] \in Int /\ q.amount \in Nat
    BY DEF Payout
  <1>2. \A q \in plan \ {o} : g[q] = f[q]
    OBVIOUS
  <1>3. f[o] = o.amount /\ IsFiniteSet(plan \ {o})
    BY FS_Subset
  <1> HIDE DEF f, g
  <1>4. SumFunctionOnSet(f, plan) = f[o] + SumFunctionOnSet(f, plan \ {o})
    BY <1>1, SumRemove
  <1>5. SumFunctionOnSet(g, plan \ {o}) = SumFunctionOnSet(f, plan \ {o})
    BY <1>2, <1>3, SumEqual
  <1>6. AmountOf(plan) = SumFunctionOnSet(f, plan)
        /\ AmountOf(plan \ {o}) = SumFunctionOnSet(g, plan \ {o})
    BY DEF AmountOf, f, g
  <1>7. AmountOf(plan) \in Nat /\ AmountOf(plan \ {o}) \in Nat
    BY <1>3, PlanNat
  <1> QED BY <1>1, <1>3, <1>4, <1>5, <1>6, <1>7

\* The numbers kept of each call.
LEMMA CallNumbers ==
    ASSUME TypeOK, PlansKnown, NEW p \in Repays
    PROVE  /\ Held(p) \in Nat /\ Planned(p) \in Nat /\ Planned(p) <= Held(p)
           /\ \A a : /\ Brought(p, a) \in Nat /\ AmountOf(PayoutsTo(p, a)) \in Nat
                     /\ IsFiniteSet(PayoutsTo(p, a)) /\ PayoutsTo(p, a) \in SUBSET Payout
  <1>1. CASE repays[p] = None
    <2>1. Held(p) = 0 /\ Planned(p) = 0
      BY <1>1 DEF Held, Planned, At
    <2>2. \A a : Brought(p, a) = 0 /\ PayoutsTo(p, a) = {} /\ IsFiniteSet({})
      BY <1>1, FS_EmptySet DEF Brought, PayoutsTo
    <2> QED BY <2>1, <2>2, PlanNothing
  <1>2. CASE repays[p] # None
    <2>1. repays[p] \in Call
      BY <1>2, CallAt
    <2>2. repays[p].amount \in Nat /\ repays[p].payouts \in SUBSET Payout
      BY <2>1, CallFields
    <2>3. IsFiniteSet(repays[p].payouts)
      BY <1>2 DEF PlansKnown
    <2>4. AmountOf(repays[p].payouts) \in Nat
      BY <2>2, <2>3, PlanNat
    <2>5. Held(p) \in Nat /\ Planned(p) \in Nat /\ Planned(p) <= Held(p)
      BY <2>2, <2>4 DEF Held, Planned, At
    <2>6. ASSUME NEW a
          PROVE  /\ Brought(p, a) \in Nat /\ AmountOf(PayoutsTo(p, a)) \in Nat
                 /\ IsFiniteSet(PayoutsTo(p, a)) /\ PayoutsTo(p, a) \in SUBSET Payout
      <3>1. PayoutsTo(p, a) \in SUBSET repays[p].payouts
        BY <1>2 DEF PayoutsTo
      <3>2. PayoutsTo(p, a) \in SUBSET Payout
        BY <2>2, <3>1
      <3>3. IsFiniteSet(PayoutsTo(p, a))
        BY <2>3, <3>1, FS_Subset
      <3>4. Brought(p, a) \in Nat
        BY <2>2 DEF Brought
      <3> QED BY <3>2, <3>3, <3>4, PlanNat
    <2> QED BY <2>5, <2>6
  <1> QED BY <1>1, <1>2

Numbers ==
    \A p \in Repays :
        /\ Held(p) \in Int
        /\ \A a \in Actors : Brought(p, a) \in Int /\ AmountOf(PayoutsTo(p, a)) \in Int

LEMMA NumbersKnown == TypeOK /\ PlansKnown => Numbers
  <1> SUFFICES ASSUME TypeOK, PlansKnown PROVE Numbers
    OBVIOUS
  <1> SUFFICES ASSUME NEW p \in Repays
               PROVE  /\ Held(p) \in Int
                      /\ \A a \in Actors : /\ Brought(p, a) \in Int
                                           /\ AmountOf(PayoutsTo(p, a)) \in Int
    BY DEF Numbers
  <1>1. \A n \in Nat : n \in Int
    OBVIOUS
  <1> QED BY <1>1, CallNumbers, Zenon

\* One call's step changes the sums by what it changes of that call.
LEMMA OneCall ==
    ASSUME Numbers, Numbers', NEW p \in Repays,
           \A q \in Repays \ {p} : repays'[q] = repays[q]
    PROVE  /\ HeldOn' = HeldOn + (Held(p)' - Held(p))
           /\ \A a \in Actors :
                /\ PaidBy(a)' = PaidBy(a) + (Brought(p, a)' - Brought(p, a))
                /\ Undelivered(a)' = Undelivered(a) +
                     (AmountOf(PayoutsTo(p, a))' - AmountOf(PayoutsTo(p, a)))
  <1>0. IsFiniteSet(Repays)
    BY SeverityAssumption
  <1>1. ASSUME NEW q \in Repays \ {p}
        PROVE  /\ Held(q)' = Held(q)
               /\ \A a : /\ Brought(q, a)' = Brought(q, a)
                         /\ AmountOf(PayoutsTo(q, a))' = AmountOf(PayoutsTo(q, a))
    <2>1. repays'[q] = repays[q]
      OBVIOUS
    <2>2. Held(q)' = Held(q)
      BY <2>1 DEF Held, Planned, At
    <2>3. \A a : Brought(q, a)' = Brought(q, a) /\ PayoutsTo(q, a)' = PayoutsTo(q, a)
      BY <2>1 DEF Brought, PayoutsTo
    <2>4. \A a : AmountOf(PayoutsTo(q, a))' = AmountOf(PayoutsTo(q, a))
      BY <2>3 DEF AmountOf
    <2> QED BY <2>2, <2>3, <2>4
  <1>2. HeldOn' = HeldOn + (Held(p)' - Held(p))
    <2> DEFINE f == [q \in Repays |-> Held(q)]
               g == [q \in Repays |-> Held(q)']
    <2>1. /\ \A q \in Repays : f[q] \in Int /\ g[q] \in Int
          /\ \A q \in Repays \ {p} : g[q] = f[q]
          /\ f[p] = Held(p) /\ g[p] = Held(p)'
      BY <1>1 DEF Numbers
    <2>2. HeldOn = SumFunctionOnSet(f, Repays) /\ HeldOn' = SumFunctionOnSet(g, Repays)
      BY DEF HeldOn
    <2> HIDE DEF f, g
    <2>3. SumFunctionOnSet(g, Repays) = SumFunctionOnSet(f, Repays) + (g[p] - f[p])
      BY <1>0, <2>1, SumChange
    <2> QED BY <2>1, <2>2, <2>3
  <1>3. ASSUME NEW a \in Actors
        PROVE  PaidBy(a)' = PaidBy(a) + (Brought(p, a)' - Brought(p, a))
    <2> DEFINE f == [q \in Repays |-> Brought(q, a)]
               g == [q \in Repays |-> Brought(q, a)']
    <2>1. /\ \A q \in Repays : f[q] \in Int /\ g[q] \in Int
          /\ \A q \in Repays \ {p} : g[q] = f[q]
          /\ f[p] = Brought(p, a) /\ g[p] = Brought(p, a)'
      BY <1>1 DEF Numbers
    <2>2. PaidBy(a) = SumFunctionOnSet(f, Repays) /\ PaidBy(a)' = SumFunctionOnSet(g, Repays)
      BY DEF PaidBy
    <2> HIDE DEF f, g
    <2>3. SumFunctionOnSet(g, Repays) = SumFunctionOnSet(f, Repays) + (g[p] - f[p])
      BY <1>0, <2>1, SumChange
    <2> QED BY <2>1, <2>2, <2>3
  <1>4. ASSUME NEW a \in Actors
        PROVE  Undelivered(a)' = Undelivered(a) +
                     (AmountOf(PayoutsTo(p, a))' - AmountOf(PayoutsTo(p, a)))
    <2> DEFINE f == [q \in Repays |-> AmountOf(PayoutsTo(q, a))]
               g == [q \in Repays |-> AmountOf(PayoutsTo(q, a))']
    <2>1. /\ \A q \in Repays : f[q] \in Int /\ g[q] \in Int
          /\ \A q \in Repays \ {p} : g[q] = f[q]
          /\ f[p] = AmountOf(PayoutsTo(p, a)) /\ g[p] = AmountOf(PayoutsTo(p, a))'
      BY <1>1 DEF Numbers
    <2>2. /\ Undelivered(a) = SumFunctionOnSet(f, Repays)
          /\ Undelivered(a)' = SumFunctionOnSet(g, Repays)
      BY DEF Undelivered
    <2> HIDE DEF f, g
    <2>3. SumFunctionOnSet(g, Repays) = SumFunctionOnSet(f, Repays) + (g[p] - f[p])
      BY <1>0, <2>1, SumChange
    <2> QED BY <2>1, <2>2, <2>3
  <1> QED BY <1>2, <1>3, <1>4

\* No call moves, no sum does.
LEMMA NoCall ==
    ASSUME UNCHANGED repays
    PROVE  HeldOn' = HeldOn /\ \A a : PaidBy(a)' = PaidBy(a) /\ Undelivered(a)' = Undelivered(a)
  BY DEF HeldOn, PaidBy, Undelivered, Held, Planned, At, AmountOf, Brought, PayoutsTo

\* An incident as a record.
LEMMA IncidentFields ==
    ASSUME NEW e \in Incident
    PROVE  /\ e.actor \in Actors /\ e.victim \in Actors \cup {None} /\ e.severity \in Tiers
           /\ e.debt \in Nat /\ e.paid \in Nat /\ e.ts \in Nat
  BY DEF Incident

LEMMA IncidentPaid ==
    ASSUME NEW e \in Incident, NEW x \in Nat
    PROVE  LET d == [e EXCEPT !.paid = @ + x] IN
           /\ d \in Incident /\ d.actor = e.actor /\ d.victim = e.victim
           /\ d.debt = e.debt /\ d.ts = e.ts /\ d.paid = e.paid + x
  BY DEF Incident

\* The incidents are numbered from one.
LEMMA Rows ==
    ASSUME TypeOK
    PROVE  /\ Len(incidents) \in Nat /\ DOMAIN incidents = 1 .. Len(incidents)
           /\ IsFiniteSet(DOMAIN incidents)
           /\ \A i \in DOMAIN incidents : i \in Nat /\ incidents[i] \in Incident
  <1>1. incidents \in Seq(Incident)
    BY DEF TypeOK
  <1> HIDE DEF Incident
  <1>2. /\ Len(incidents) \in Nat /\ DOMAIN incidents = 1 .. Len(incidents)
        /\ \A i \in 1 .. Len(incidents) : incidents[i] \in Incident
    BY <1>1
  <1>3. IsFiniteSet(1 .. Len(incidents))
    BY <1>2, FS_Interval
  <1> QED BY <1>2, <1>3

\* One more incident.
LEMMA RowAppended ==
    ASSUME TypeOK, NEW e \in Incident, incidents' = Append(incidents, e)
    PROVE  LET n == Len(incidents) + 1 IN
           /\ incidents' \in Seq(Incident) /\ DOMAIN incidents' = DOMAIN incidents \cup {n}
           /\ n \notin DOMAIN incidents /\ incidents'[n] = e
           /\ \A i \in DOMAIN incidents : incidents'[i] = incidents[i]
  <1>1. incidents \in Seq(Incident)
    BY DEF TypeOK
  <1> HIDE DEF Incident
  <1>2. /\ incidents' \in Seq(Incident) /\ Len(incidents') = Len(incidents) + 1
        /\ incidents'[Len(incidents) + 1] = e
        /\ \A i \in 1 .. Len(incidents) : incidents'[i] = incidents[i]
    BY <1>1
  <1>3. DOMAIN incidents' = 1 .. (Len(incidents) + 1) /\ DOMAIN incidents = 1 .. Len(incidents)
        /\ Len(incidents) \in Nat
    BY <1>1, <1>2
  <1> QED BY <1>2, <1>3

\* A sum over the incidents once there is one more.
LEMMA RowAdds ==
    ASSUME TypeOK, NEW e \in Incident, incidents' = Append(incidents, e),
           NEW f, NEW g, \A i \in DOMAIN incidents : f[i] \in Int /\ g[i] = f[i],
           g[Len(incidents) + 1] \in Int
    PROVE  SumFunctionOnSet(g, DOMAIN incidents') =
             SumFunctionOnSet(f, DOMAIN incidents) + g[Len(incidents) + 1]
  <1> DEFINE n == Len(incidents) + 1
             D == DOMAIN incidents
  <1>1. DOMAIN incidents' = D \cup {n} /\ n \notin D
    BY RowAppended
  <1>2. IsFiniteSet(D)
    BY Rows
  <1> HIDE DEF n, D
  <1>3. IsFiniteSet(D \cup {n}) /\ (D \cup {n}) \ {n} = D
    BY <1>1, <1>2, FS_AddElement
  <1>4. \A i \in D \cup {n} : g[i] \in Int
    BY DEF D, n
  <1>5. SumFunctionOnSet(g, D \cup {n}) = g[n] + SumFunctionOnSet(g, (D \cup {n}) \ {n})
    BY <1>3, <1>4, SumRemove
  <1>6. SumFunctionOnSet(g, D) = SumFunctionOnSet(f, D)
    BY <1>2, SumEqual DEF D
  <1>7. SumFunctionOnSet(f, D) \in Int
    BY <1>2, SumInt DEF D
  <1>8. g[n] \in Int
    BY <1>4
  <1> QED BY <1>1, <1>3, <1>5, <1>6, <1>7, <1>8 DEF D, n

\* The numbers kept of the incidents.
LEMMA PaidNumbers ==
    ASSUME TypeOK, NEW i \in DOMAIN incidents
    PROVE  \A v : PaidOn(i, v) \in Nat
  <1>1. incidents[i].paid \in Nat
    BY Rows, IncidentFields
  <1> QED BY <1>1 DEF PaidOn

\* The incident a report becomes.
LEMMA ReportBecomes ==
    ASSUME NEW r \in Report
    PROVE  LET e == [actor |-> r.actor, victim |-> r.victim, severity |-> SeverityOf(r),
                     debt |-> DebtOf(r), paid |-> 0, ts |-> r.ts] IN
           /\ e \in Incident /\ e.paid = 0 /\ e.debt = DebtOf(r) /\ e.victim = r.victim
           /\ e.actor = r.actor
           /\ DebtOf(r) \in Nat /\ UntilOf(r) \in Nat /\ r.actor \in Actors
  <1>1. /\ r.actor \in Actors /\ r.victim \in Actors \cup {None} /\ r.tier \in Tiers
        /\ r.uncovered \in Nat /\ r.ts \in Nat
    BY DEF Report
  <1>2. SeverityOf(r) \in Tiers
    BY <1>1 DEF SeverityOf, MinOf, Tiers
  <1>3. DebtOf(r) \in Nat
    BY <1>1 DEF DebtOf
  <1>4. Quarantine[SeverityOf(r)] \in Nat \cup {-1}
    BY <1>2, SeverityAssumption
  <1>5. UntilOf(r) \in Nat
    BY <1>1, <1>4 DEF UntilOf
  <1> HIDE DEF Tiers
  <1>6. [actor |-> r.actor, victim |-> r.victim, severity |-> SeverityOf(r),
          debt |-> DebtOf(r), paid |-> 0, ts |-> r.ts] \in Incident
    BY <1>1, <1>2, <1>3 DEF Incident
  <1> QED BY <1>1, <1>3, <1>5, <1>6

\* What the victims of a new incident were paid is nothing.
LEMMA RecordPaysNobody ==
    ASSUME TypeOK, NeverOverpaid, NEW r \in reports, RecordIncident(r)
    PROVE  /\ incidents' \in Seq(Incident) /\ NeverOverpaid'
           /\ \A v : PaidFor(v)' = PaidFor(v)
  <1> DEFINE e == [actor |-> r.actor, victim |-> r.victim, severity |-> SeverityOf(r),
                   debt |-> DebtOf(r), paid |-> 0, ts |-> r.ts]
             n == Len(incidents) + 1
  <1>1. e \in Incident /\ e.paid = 0 /\ e.debt \in Nat
    <2>1. r \in Report
      BY DEF TypeOK
    <2> QED BY <2>1, ReportBecomes
  <1>2. incidents' = Append(incidents, e)
    BY DEF RecordIncident
  <1> HIDE DEF e
  <1>3. /\ incidents' \in Seq(Incident) /\ DOMAIN incidents' = DOMAIN incidents \cup {n}
        /\ n \notin DOMAIN incidents /\ incidents'[n] = e
        /\ \A i \in DOMAIN incidents : incidents'[i] = incidents[i]
    BY <1>1, <1>2, RowAppended
  <1> HIDE DEF n
  <1>4. NeverOverpaid'
    <2>1. \A i \in DOMAIN incidents' : incidents'[i].paid <= incidents'[i].debt
      BY <1>1, <1>3 DEF NeverOverpaid
    <2> QED BY <2>1 DEF NeverOverpaid
  <1>5. ASSUME NEW v PROVE PaidFor(v)' = PaidFor(v)
    <2> DEFINE f == [i \in DOMAIN incidents |-> PaidOn(i, v)]
               g == [i \in DOMAIN incidents' |-> PaidOn(i, v)']
    <2>1. \A i \in DOMAIN incidents : f[i] \in Int /\ g[i] = f[i]
      BY <1>3, PaidNumbers DEF PaidOn
    <2>2. g[n] = 0
      BY <1>1, <1>3 DEF PaidOn
    <2>3. PaidFor(v) = SumFunctionOnSet(f, DOMAIN incidents)
          /\ PaidFor(v)' = SumFunctionOnSet(g, DOMAIN incidents')
      BY DEF PaidFor
    <2>4. SumFunctionOnSet(f, DOMAIN incidents) \in Int
      BY <2>1, Rows, SumInt
    <2> HIDE DEF f, g
    <2>5. g[Len(incidents) + 1] \in Int
      BY <2>2 DEF n
    <2>6. SumFunctionOnSet(g, DOMAIN incidents') =
             SumFunctionOnSet(f, DOMAIN incidents) + g[Len(incidents) + 1]
      BY <1>1, <1>2, <2>1, <2>5, RowAdds
    <2> QED BY <2>2, <2>3, <2>4, <2>6 DEF n
  <1> QED BY <1>3, <1>4, <1>5

\* What is owed on an incident is never negative, and the incidents owed to
\* somebody are among the incidents.
LEMMA OwedNat ==
    ASSUME TypeOK, NeverOverpaid
    PROVE  /\ \A i \in DOMAIN incidents : Owed(i) \in Nat
           /\ \A a : Attributable(a) \in SUBSET DOMAIN incidents /\ IsFiniteSet(Attributable(a))
  <1>1. ASSUME NEW i \in DOMAIN incidents PROVE Owed(i) \in Nat
    <2>1. incidents[i].debt \in Nat /\ incidents[i].paid \in Nat
      BY Rows, IncidentFields
    <2>2. incidents[i].paid <= incidents[i].debt
      BY DEF NeverOverpaid
    <2> QED BY <2>1, <2>2 DEF Owed
  <1>2. \A a : Attributable(a) \in SUBSET DOMAIN incidents
    BY DEF Attributable
  <1>3. \A a : IsFiniteSet(Attributable(a))
    BY <1>2, Rows, FS_Subset
  <1> QED BY <1>1, <1>2, <1>3

\* Incidents are paid in an order: by time, then by number.
LEMMA OlderOrders ==
    ASSUME TypeOK, NEW S \in SUBSET DOMAIN incidents
    PROVE  Ordered(S, [i \in S |-> {j \in S : Older(j, i)}])
  <1> DEFINE t(i) == incidents[i].ts
  <1>1. \A i \in S : i \in Nat /\ t(i) \in Nat
    BY Rows, IncidentFields
  <1>2. \A i, j \in S : Older(i, j) <=> t(i) < t(j) \/ (t(i) = t(j) /\ i < j)
    BY DEF Older
  <1> HIDE DEF t
  <1>3. \A i \in S : ~Older(i, i)
    BY <1>1, <1>2
  <1>4. \A i, j \in S : i = j \/ Older(i, j) \/ Older(j, i)
    BY <1>1, <1>2
  <1>5. \A i, j, k \in S : Older(i, j) /\ Older(k, i) => Older(k, j)
    BY <1>1, <1>2
  <1> QED BY <1>3, <1>4, <1>5 DEF Ordered

\* What x shares out to the incidents of an actor: x, or all that is owed if that
\* is less, and to each no more than it is owed.
LEMMA Shares ==
    ASSUME TypeOK, NeverOverpaid, NEW a, NEW x \in Nat
    PROVE  /\ SumFunctionOnSet([i \in Attributable(a) |-> Share(i, a, x)], Attributable(a))
                = MinOf(OwedOn(Attributable(a)), x)
           /\ \A i \in Attributable(a) : Share(i, a, x) \in Nat /\ Share(i, a, x) <= Owed(i)
  <1> DEFINE S == Attributable(a)
             w == [i \in S |-> Owed(i)]
             before == [i \in S |-> {j \in S : Older(j, i)}]
             share == [i \in S |-> Share(i, a, x)]
  <1>1. IsFiniteSet(S) /\ S \in SUBSET DOMAIN incidents
    BY OwedNat
  <1>2. Ordered(S, before)
    BY <1>1, OlderOrders
  <1>3. \A i \in S : w[i] \in Nat /\ w[i] = Owed(i)
    BY <1>1, OwedNat
  <1>4. ASSUME NEW i \in S
        PROVE  share[i] = MinOf(w[i], MaxOf(0, x - SumFunctionOnSet(w, before[i])))
    <2> DEFINE B == {j \in S : Older(j, i)}
               u == [j \in B |-> Owed(j)]
    <2>1. IsFiniteSet(B) /\ B \in SUBSET S
      BY <1>1, FS_Subset
    <2>2. \A j \in B : u[j] = w[j]
      OBVIOUS
    <2>3. OwedOn(B) = SumFunctionOnSet(u, B)
      BY DEF OwedOn
    <2>4. Share(i, a, x) = MinOf(Owed(i), MaxOf(0, x - OwedOn(B)))
      BY DEF Share
    <2>5. before[i] = B /\ share[i] = Share(i, a, x) /\ w[i] = Owed(i)
      OBVIOUS
    <2> HIDE DEF u, w, before, share, B, S
    <2>6. SumFunctionOnSet(u, B) = SumFunctionOnSet(w, B)
      BY <2>1, <2>2, SumEqual
    <2> QED BY <2>3, <2>4, <2>5, <2>6
  <1>5. OwedOn(S) = SumFunctionOnSet(w, S) /\ \A i \in S : share[i] = Share(i, a, x)
    BY DEF OwedOn
  <1> HIDE DEF w, before, share, S
  <1>6. /\ SumFunctionOnSet(share, S) = MinOf(SumFunctionOnSet(w, S), x)
        /\ \A i \in S : share[i] \in Nat /\ share[i] <= w[i]
    BY <1>1, <1>2, <1>3, <1>4, SharesAddUp
  <1>7. \A i \in S : Share(i, a, x) \in Nat /\ Share(i, a, x) <= Owed(i)
    BY <1>3, <1>5, <1>6
  <1> QED BY <1>5, <1>6, <1>7 DEF S, share

\* The payout of an incident, and the plan of some.
PayoutOf(i, a, x) ==
    [incident |-> i, to |-> incidents[i].victim, amount |-> Share(i, a, x)]
PlanFor(J, a, x) == {PayoutOf(i, a, x) : i \in J}

\* A plan comes to what its incidents' shares come to.
LEMMA PlanComesTo ==
    ASSUME TypeOK, NeverOverpaid, NEW a, NEW x \in Nat, NEW J \in SUBSET Attributable(a)
    PROVE  /\ PlanFor(J, a, x) \in SUBSET Payout /\ IsFiniteSet(PlanFor(J, a, x))
           /\ AmountOf(PlanFor(J, a, x)) =
                SumFunctionOnSet([i \in Attributable(a) |-> Share(i, a, x)], J)
  <1> DEFINE T == PlanFor(J, a, x)
             m == [i \in J |-> PayoutOf(i, a, x)]
             f == [i \in Attributable(a) |-> Share(i, a, x)]
             g == [o \in T |-> o.amount]
  <1>1. /\ IsFiniteSet(J) /\ J \in SUBSET DOMAIN incidents
        /\ \A i \in J : Share(i, a, x) \in Nat
    BY OwedNat, Shares, FS_Subset
  <1>2. ASSUME NEW i \in J
        PROVE  PayoutOf(i, a, x) \in Payout /\ PayoutOf(i, a, x).amount = Share(i, a, x)
               /\ PayoutOf(i, a, x).incident = i
    <2>1. i \in Nat /\ incidents[i] \in Incident
      BY <1>1, Rows
    <2>2. incidents[i].victim \in Actors
      BY <2>1, IncidentFields DEF Attributable
    <2>3. Share(i, a, x) \in Nat
      BY <1>1
    <2> QED BY <2>1, <2>2, <2>3 DEF Payout, PayoutOf
  <1>3. T \in SUBSET Payout
    BY <1>2 DEF PlanFor
  <1>4. T = {m[i] : i \in J}
    BY DEF PlanFor
  <1>5. \A i, j \in J : m[i] = m[j] => i = j
    BY <1>2
  <1>6. \A i \in J : m[i] \in T /\ g[m[i]] = f[i]
    BY <1>2, <1>4
  <1>7. \A t \in T : \E i \in J : m[i] = t
    BY <1>4
  <1>8. \A i \in J : f[i] \in Int
    BY <1>1
  <1>9. AmountOf(T) = SumFunctionOnSet(g, T)
    BY DEF AmountOf
  <1> HIDE DEF m, f, g, T
  <1>10. IsFiniteSet(T)
    BY <1>1, <1>4, ImageFinite
  <1>11. SumFunctionOnSet(g, T) = SumFunctionOnSet(f, J)
    BY <1>1, <1>5, <1>6, <1>7, <1>8, <1>10, SumRename
  <1> QED BY <1>3, <1>9, <1>10, <1>11 DEF T, f

\* The incidents that are paid something, and the plan a call makes of them.
Served(a, x) == {j \in Attributable(a) : Share(j, a, x) > 0}
ServedTo(a, x, v) == {j \in Served(a, x) : incidents[j].victim = v}

\* What an incident gets.
Gets(i, a, x) == IF i \in Attributable(a) THEN Share(i, a, x) ELSE 0

LEMMA GetsNat ==
    ASSUME TypeOK, NeverOverpaid, NEW a, NEW x \in Nat, NEW i \in DOMAIN incidents
    PROVE  Gets(i, a, x) \in Nat /\ Gets(i, a, x) <= Owed(i)
  <1>1. Owed(i) \in Nat
    BY OwedNat
  <1>2. CASE i \in Attributable(a)
    <2>1. Share(i, a, x) \in Nat /\ Share(i, a, x) <= Owed(i)
      BY <1>2, Shares
    <2> QED BY <1>2, <2>1 DEF Gets
  <1>3. CASE i \notin Attributable(a)
    BY <1>1, <1>3 DEF Gets
  <1> QED BY <1>2, <1>3

\* The incidents once x is shared out: well formed, none overpaid, and what is owed
\* is less by what each got.
LEMMA Marked ==
    ASSUME TypeOK, NeverOverpaid, NEW a, NEW x \in Nat, incidents' = MarkPaid(a, x)
    PROVE  /\ incidents' \in Seq(Incident) /\ DOMAIN incidents' = DOMAIN incidents
           /\ NeverOverpaid'
           /\ \A i \in DOMAIN incidents :
                /\ incidents'[i].actor = incidents[i].actor
                /\ incidents'[i].victim = incidents[i].victim
                /\ incidents'[i].paid = incidents[i].paid + Gets(i, a, x)
                /\ Owed(i)' = Owed(i) - Gets(i, a, x)
  <1> DEFINE N == Len(incidents)
  <1>1. N \in Nat /\ DOMAIN incidents = 1 .. N /\ \A i \in 1 .. N : incidents[i] \in Incident
    BY Rows
  <1> HIDE DEF N
  <1>2. incidents' = [i \in 1 .. N |->
            IF i \in Attributable(a)
            THEN [incidents[i] EXCEPT !.paid = @ + Share(i, a, x)]
            ELSE incidents[i]]
    BY <1>1 DEF MarkPaid
  <1>3. ASSUME NEW i \in 1 .. N
        PROVE  /\ incidents'[i] \in Incident
               /\ incidents'[i].actor = incidents[i].actor
               /\ incidents'[i].victim = incidents[i].victim
               /\ incidents'[i].debt = incidents[i].debt
               /\ incidents'[i].paid = incidents[i].paid + Gets(i, a, x)
               /\ incidents[i].paid \in Nat /\ incidents[i].debt \in Nat
    <2>1. incidents[i] \in Incident
      BY <1>1
    <2>2. incidents[i].paid \in Nat /\ incidents[i].debt \in Nat
      BY <2>1, IncidentFields
    <2>3. CASE i \in Attributable(a)
      <3>1. incidents'[i] = [incidents[i] EXCEPT !.paid = @ + Share(i, a, x)]
        BY <1>2, <2>3
      <3>2. Share(i, a, x) \in Nat /\ Gets(i, a, x) = Share(i, a, x)
        BY <2>3, Shares DEF Gets
      <3>3. /\ incidents'[i] \in Incident
            /\ incidents'[i].actor = incidents[i].actor
            /\ incidents'[i].victim = incidents[i].victim
            /\ incidents'[i].debt = incidents[i].debt
            /\ incidents'[i].paid = incidents[i].paid + Share(i, a, x)
        BY <2>1, <3>1, <3>2, IncidentPaid
      <3> QED BY <2>2, <3>2, <3>3
    <2>4. CASE i \notin Attributable(a)
      <3>1. incidents'[i] = incidents[i] /\ Gets(i, a, x) = 0
        BY <1>2, <2>4 DEF Gets
      <3>2. incidents[i].paid = incidents[i].paid + 0
        BY <2>2
      <3> QED BY <2>1, <2>2, <3>1, <3>2
    <2> QED BY <2>3, <2>4
  <1>4. DOMAIN incidents' = 1 .. N
    BY <1>2
  <1>5. incidents' \in Seq(Incident)
    <2>1. incidents' \in [1 .. N -> Incident]
      BY <1>2, <1>3
    <2> HIDE DEF Incident
    <2> QED BY <1>1, <2>1
  <1>6. ASSUME NEW i \in 1 .. N
        PROVE  /\ Owed(i)' = Owed(i) - Gets(i, a, x)
               /\ incidents'[i].paid <= incidents'[i].debt
    <2>1. Gets(i, a, x) \in Nat /\ Gets(i, a, x) <= Owed(i)
      BY <1>1, GetsNat
    <2> QED BY <1>3, <2>1 DEF Owed
  <1>7. NeverOverpaid'
    <2>1. \A i \in DOMAIN incidents' : incidents'[i].paid <= incidents'[i].debt
      BY <1>4, <1>6
    <2> QED BY <2>1 DEF NeverOverpaid
  <1> QED BY <1>1, <1>3, <1>4, <1>5, <1>6, <1>7

\* What x comes to over all the incidents, and over those of one victim.
LEMMA GetsAddUp ==
    ASSUME TypeOK, NeverOverpaid, NEW a, NEW x \in Nat
    PROVE  /\ AmountOf(PlanFor(Served(a, x), a, x)) = MinOf(OwedOn(Attributable(a)), x)
           /\ SumFunctionOnSet([i \in DOMAIN incidents |-> Gets(i, a, x)], DOMAIN incidents)
                = MinOf(OwedOn(Attributable(a)), x)
           /\ \A v : SumFunctionOnSet([i \in DOMAIN incidents |->
                         IF incidents[i].victim = v THEN Gets(i, a, x) ELSE 0],
                         DOMAIN incidents)
                = AmountOf(PlanFor(ServedTo(a, x, v), a, x))
  <1> DEFINE D == DOMAIN incidents
             A == Attributable(a)
             f == [i \in A |-> Share(i, a, x)]
             h == [i \in D |-> Gets(i, a, x)]
  <1>1. /\ IsFiniteSet(D) /\ IsFiniteSet(A) /\ A \in SUBSET D
        /\ Served(a, x) \in SUBSET A
    BY Rows, OwedNat DEF Served
  <1>2. /\ \A i \in A : Share(i, a, x) \in Nat /\ f[i] = Share(i, a, x) /\ h[i] = f[i]
        /\ \A i \in D : h[i] \in Int
        /\ \A i \in D \ A : h[i] = 0
    BY <1>1, Shares, GetsNat DEF Gets
  <1>3. \A i \in A \ Served(a, x) : f[i] = 0
    <2> TAKE i \in A \ Served(a, x)
    <2>1. Share(i, a, x) \in Nat /\ ~(Share(i, a, x) > 0)
      BY <1>2 DEF Served
    <2>2. f[i] = Share(i, a, x)
      OBVIOUS
    <2> HIDE DEF f
    <2> QED BY <2>1, <2>2
  <1>4. SumFunctionOnSet(f, A) = MinOf(OwedOn(A), x)
    BY Shares
  <1>5. AmountOf(PlanFor(Served(a, x), a, x)) = SumFunctionOnSet(f, Served(a, x))
    BY <1>1, PlanComesTo
  <1>6. ASSUME NEW v
        PROVE  SumFunctionOnSet([i \in D |-> IF incidents[i].victim = v THEN Gets(i, a, x) ELSE 0],
                                D)
                = AmountOf(PlanFor(ServedTo(a, x, v), a, x))
    <2> DEFINE J == ServedTo(a, x, v)
               g == [i \in D |-> IF incidents[i].victim = v THEN Gets(i, a, x) ELSE 0]
    <2>1. J \in SUBSET A /\ J \in SUBSET D
      BY <1>1 DEF ServedTo, Served
    <2>2. \A i \in D : g[i] \in Int
      BY GetsNat
    <2>3. \A i \in D \ J : g[i] = 0
      <3> TAKE i \in D \ J
      <3>1. CASE i \in A /\ incidents[i].victim = v
        <4>1. i \notin Served(a, x)
          BY <3>1 DEF ServedTo
        <4>2. f[i] = 0
          BY <3>1, <4>1, <1>3
        <4> QED BY <1>2, <3>1, <4>2
      <3>2. CASE ~(i \in A /\ incidents[i].victim = v)
        BY <3>2 DEF Gets
      <3> QED BY <3>1, <3>2
    <2>4. \A i \in J : g[i] = f[i]
      BY <1>2, <2>1 DEF ServedTo
    <2>5. AmountOf(PlanFor(J, a, x)) = SumFunctionOnSet(f, J)
      BY <2>1, PlanComesTo
    <2>6. IsFiniteSet(J)
      BY <1>1, <2>1, FS_Subset
    <2> HIDE DEF J, g, f, D, A
    <2>7. SumFunctionOnSet(g, J) = SumFunctionOnSet(g, D)
      BY <1>1, <2>1, <2>2, <2>3, SumDrop
    <2>8. SumFunctionOnSet(g, J) = SumFunctionOnSet(f, J)
      BY <2>4, <2>6, SumEqual
    <2> QED BY <2>5, <2>7, <2>8 DEF g, J
  <1> HIDE DEF f, h, D, A
  <1>7. SumFunctionOnSet(f, Served(a, x)) = SumFunctionOnSet(f, A)
    <2>1. \A i \in A : f[i] \in Int
      BY <1>2
    <2> QED BY <1>1, <1>3, <2>1, SumDrop
  <1>8. SumFunctionOnSet(h, A) = SumFunctionOnSet(h, D)
    BY <1>1, <1>2, SumDrop
  <1>9. SumFunctionOnSet(h, A) = SumFunctionOnSet(f, A)
    BY <1>1, <1>2, SumEqual
  <1> QED BY <1>4, <1>5, <1>6, <1>7, <1>8, <1>9 DEF h, D, A

\* Every escrow is what it started with, less what the actor brought, more what the
\* incidents say it was paid, but for what has not reached it.
Conserved == \A a \in Actors : escrow[a] = Funds - PaidBy(a) + PaidFor(a) - Undelivered(a)

\* The reserve holds what the calls brought and have not paid out.
ReceiveInv == TypeOK /\ PlansKnown /\ NeverOverpaid /\ reserve >= HeldOn /\ Conserved

\* The sums are integers.
LEMMA SumsInt ==
    ASSUME TypeOK, PlansKnown
    PROVE  /\ HeldOn \in Int
           /\ \A a \in Actors : PaidBy(a) \in Int /\ PaidFor(a) \in Int /\ Undelivered(a) \in Int
  <1>0. IsFiniteSet(Repays) /\ IsFiniteSet(DOMAIN incidents)
    BY SeverityAssumption, Rows
  <1>1. Numbers
    BY NumbersKnown
  <1>2. HeldOn \in Int
    <2> DEFINE f == [p \in Repays |-> Held(p)]
    <2>1. \A p \in Repays : f[p] \in Int
      BY <1>1 DEF Numbers
    <2> HIDE DEF f
    <2>2. SumFunctionOnSet(f, Repays) \in Int
      BY <1>0, <2>1, SumInt
    <2> QED BY <2>2 DEF HeldOn, f
  <1>3. ASSUME NEW a \in Actors PROVE PaidBy(a) \in Int
    <2> DEFINE f == [p \in Repays |-> Brought(p, a)]
    <2>1. \A p \in Repays : f[p] \in Int
      BY <1>1 DEF Numbers
    <2> HIDE DEF f
    <2>2. SumFunctionOnSet(f, Repays) \in Int
      BY <1>0, <2>1, SumInt
    <2> QED BY <2>2 DEF PaidBy, f
  <1>4. ASSUME NEW a \in Actors PROVE Undelivered(a) \in Int
    <2> DEFINE f == [p \in Repays |-> AmountOf(PayoutsTo(p, a))]
    <2>1. \A p \in Repays : f[p] \in Int
      BY <1>1 DEF Numbers
    <2> HIDE DEF f
    <2>2. SumFunctionOnSet(f, Repays) \in Int
      BY <1>0, <2>1, SumInt
    <2> QED BY <2>2 DEF Undelivered, f
  <1>5. ASSUME NEW a \in Actors PROVE PaidFor(a) \in Int
    <2> DEFINE f == [i \in DOMAIN incidents |-> PaidOn(i, a)]
    <2>1. \A i \in DOMAIN incidents : f[i] \in Int
      BY PaidNumbers
    <2> HIDE DEF f
    <2>2. SumFunctionOnSet(f, DOMAIN incidents) \in Int
      BY <1>0, <2>1, SumInt
    <2> QED BY <2>2 DEF PaidFor, f
  <1> QED BY <1>2, <1>3, <1>4, <1>5

LEMMA ReceiveInit == Init => ReceiveInv
  <1> SUFFICES ASSUME Init PROVE ReceiveInv
    OBVIOUS
  <1>1. TypeOK
    <2>1. incidents \in Seq(Incident)
      <3> HIDE DEF Incident
      <3> QED BY DEF Init
    <2>2. Clean \in Flags
      BY DEF Clean, Flags
    <2>3. flags \in [Actors -> Flags]
      BY <2>2 DEF Init
    <2>4. repays \in [Repays -> Call \cup {None}]
      <3> HIDE DEF Call
      <3> QED BY DEF Init
    <2>5. escrow \in [Actors -> Nat] /\ now \in Nat /\ reported \in Nat /\ reserve \in Nat
          /\ reports \subseteq Report
      BY SeverityAssumption DEF Init
    <2> QED BY <2>1, <2>3, <2>4, <2>5 DEF TypeOK
  <1>2. PlansKnown /\ NeverOverpaid
    BY DEF Init, PlansKnown, NeverOverpaid
  <1>3. \A p \in Repays : /\ Held(p) = 0
                          /\ \A a : Brought(p, a) = 0 /\ AmountOf(PayoutsTo(p, a)) = 0
    BY PlanNothing DEF Init, Held, Planned, At, Brought, PayoutsTo
  <1>4. HeldOn = 0
    <2> DEFINE f == [p \in Repays |-> Held(p)]
    <2>1. \A p \in Repays : f[p] = 0
      BY <1>3
    <2> HIDE DEF f
    <2>2. SumFunctionOnSet(f, Repays) = 0
      BY <2>1, SumZero, SeverityAssumption
    <2> QED BY <2>2 DEF HeldOn, f
  <1>5. ASSUME NEW a \in Actors PROVE PaidBy(a) = 0
    <2> DEFINE f == [p \in Repays |-> Brought(p, a)]
    <2>1. \A p \in Repays : f[p] = 0
      BY <1>3
    <2> HIDE DEF f
    <2>2. SumFunctionOnSet(f, Repays) = 0
      BY <2>1, SumZero, SeverityAssumption
    <2> QED BY <2>2 DEF PaidBy, f
  <1>6. ASSUME NEW a \in Actors PROVE Undelivered(a) = 0
    <2> DEFINE f == [p \in Repays |-> AmountOf(PayoutsTo(p, a))]
    <2>1. \A p \in Repays : f[p] = 0
      BY <1>3
    <2> HIDE DEF f
    <2>2. SumFunctionOnSet(f, Repays) = 0
      BY <2>1, SumZero, SeverityAssumption
    <2> QED BY <2>2 DEF Undelivered, f
  <1>7. ASSUME NEW a \in Actors PROVE PaidFor(a) = 0
    <2>1. DOMAIN incidents = {}
      BY DEF Init
    <2> QED BY <2>1, SumEmpty DEF PaidFor
  <1>8. Conserved
    <2>1. \A a \in Actors : escrow[a] = Funds /\ Funds \in Nat
      BY SeverityAssumption DEF Init
    <2> QED BY <1>5, <1>6, <1>7, <2>1 DEF Conserved
  <1>9. reserve >= HeldOn
    BY <1>4 DEF Init
  <1> QED BY <1>1, <1>2, <1>8, <1>9 DEF ReceiveInv

\* Steps that move no money and no incident keep the books.
LEMMA BooksKept ==
    ASSUME ReceiveInv, TypeOK', UNCHANGED <<incidents, escrow, reserve, repays>>
    PROVE  ReceiveInv'
  <1>1. PlansKnown' /\ NeverOverpaid'
    BY DEF ReceiveInv, PlansKnown, NeverOverpaid
  <1>2. HeldOn' = HeldOn /\ \A a : PaidBy(a)' = PaidBy(a) /\ Undelivered(a)' = Undelivered(a)
    BY NoCall
  <1>3. \A a : PaidFor(a)' = PaidFor(a)
    BY DEF PaidFor, PaidOn
  <1>4. reserve' >= HeldOn'
    BY <1>2 DEF ReceiveInv
  <1>5. Conserved'
    BY <1>2, <1>3 DEF ReceiveInv, Conserved
  <1> QED BY <1>1, <1>4, <1>5 DEF ReceiveInv

LEMMA PriorNat == ASSUME TypeOK, NEW a PROVE Prior(a) \in Nat
  <1> DEFINE S == {i \in DOMAIN incidents : /\ incidents[i].actor = a
                                            /\ incidents[i].ts >= now - RecurrenceWindow}
  <1>1. S \subseteq DOMAIN incidents /\ IsFiniteSet(DOMAIN incidents)
    BY Rows
  <1> HIDE DEF S
  <1>2. Cardinality(S) \in Nat
    BY <1>1, FS_Subset, FS_CardinalityType
  <1> QED BY <1>2 DEF Prior, S

\* A report counts and prices; the clock ticks; a classification stops.
LEMMA ReceiveReports ==
    ASSUME ReceiveInv, NEW a \in Actors, NEW v \in Actors \cup {None}, NEW tier \in Tiers,
           NEW value \in Values, NEW slashed \in 0 .. value,
           ReportIncident(a, v, tier, value, slashed)
    PROVE  ReceiveInv'
  <1> DEFINE u == MaxOf(0, value * DamageMult[tier] - slashed)
             r == [actor |-> a, victim |-> v, tier |-> tier, uncovered |-> u,
                   prior |-> Prior(a), ts |-> now, call |-> reported]
  <1>1. /\ reports' = reports \cup {r} /\ reported' = reported + 1
        /\ UNCHANGED <<now, incidents, flags, escrow, reserve, repays>>
    BY DEF ReportIncident, books, money
  <1>2. u \in Nat
    <2>1. value \in Nat /\ DamageMult[tier] \in Nat
      BY SeverityAssumption
    <2>2. value * DamageMult[tier] \in Nat
      BY <2>1
    <2>3. PICK n \in Nat : n = value * DamageMult[tier]
      BY <2>2
    <2>4. slashed \in Nat
      BY <2>1
    <2>5. MaxOf(0, n - slashed) \in Nat
      BY <2>4 DEF MaxOf
    <2> QED BY <2>3, <2>5
  <1>3. Prior(a) \in Nat /\ now \in Nat /\ reported \in Nat
    BY PriorNat DEF ReceiveInv, TypeOK
  <1> HIDE DEF u, Tiers
  <1>4. r \in Report
    BY <1>2, <1>3 DEF Report
  <1> HIDE DEF r
  <1>5. reports' \subseteq Report /\ reported' \in Nat
    BY <1>1, <1>3, <1>4 DEF ReceiveInv, TypeOK
  <1>6. TypeOK'
    BY <1>1, <1>5 DEF ReceiveInv, TypeOK
  <1> QED BY <1>1, <1>6, BooksKept

LEMMA ReceiveIdles ==
    ASSUME ReceiveInv, UNCHANGED <<incidents, flags, reported, escrow, reserve, repays>>,
           now' = now \/ now' = now + 1, reports' \subseteq reports
    PROVE  ReceiveInv'
  <1>1. now' \in Nat /\ reports' \subseteq Report
    BY DEF ReceiveInv, TypeOK
  <1>2. TypeOK'
    BY <1>1 DEF ReceiveInv, TypeOK
  <1> QED BY <1>2, BooksKept

\* An incident is recorded: nobody is paid, and the offender's flags stay flags.
LEMMA ReceiveRecords ==
    ASSUME ReceiveInv, NEW r \in reports, RecordIncident(r)
    PROVE  ReceiveInv'
  <1>1. /\ UNCHANGED <<now, reported, escrow, reserve, repays>>
        /\ reports' = reports \ {r} /\ flags' = [flags EXCEPT ![r.actor] = Sanction(@, r)]
    BY DEF RecordIncident, money
  <1>2. incidents' \in Seq(Incident) /\ NeverOverpaid' /\ \A v : PaidFor(v)' = PaidFor(v)
    BY RecordPaysNobody DEF ReceiveInv
  <1>3. DebtOf(r) \in Nat /\ UntilOf(r) \in Nat /\ r.actor \in Actors
    BY ReportBecomes DEF ReceiveInv, TypeOK
  <1>4. flags' \in [Actors -> Flags]
    <2>1. flags \in [Actors -> Flags]
      BY DEF ReceiveInv, TypeOK
    <2>2. ASSUME NEW f \in Flags PROVE Sanction(f, r) \in Flags
      <3>1. f.blacklisted \in BOOLEAN /\ f.until \in Nat /\ f.debt \in Int
        BY DEF Flags
      <3>2. MaxOf(f.until, UntilOf(r)) \in Nat /\ f.debt + DebtOf(r) \in Int
        BY <1>3, <3>1 DEF MaxOf
      <3>3. (f.blacklisted \/ Quarantine[SeverityOf(r)] < 0) \in BOOLEAN
        BY <3>1
      <3> QED BY <3>2, <3>3 DEF Sanction, Flags
    <2>3. flags[r.actor] \in Flags
      BY <1>3, <2>1
    <2> HIDE DEF Flags
    <2>4. Sanction(flags[r.actor], r) \in Flags
      BY <2>2, <2>3
    <2> QED BY <1>1, <2>1, <2>4
  <1>5. TypeOK'
    BY <1>1, <1>2, <1>4 DEF ReceiveInv, TypeOK
  <1>6. HeldOn' = HeldOn /\ \A a : PaidBy(a)' = PaidBy(a) /\ Undelivered(a)' = Undelivered(a)
    BY <1>1, NoCall
  <1>7. PlansKnown'
    BY <1>1 DEF ReceiveInv, PlansKnown
  <1>8. Conserved'
    BY <1>1, <1>2, <1>6 DEF ReceiveInv, Conserved
  <1>9. reserve' >= HeldOn'
    BY <1>1, <1>6 DEF ReceiveInv
  <1> QED BY <1>2, <1>5, <1>7, <1>8, <1>9 DEF ReceiveInv

\* The table of calls after one call's step.
LEMMA CallTable ==
    ASSUME TypeOK, PlansKnown, NEW p \in Repays, NEW c \in Call,
           repays' = [repays EXCEPT ![p] = c], IsFiniteSet(c.payouts),
           c.step \notin {"allocated", "unpaid"} => c.payouts = {}
    PROVE  /\ repays' \in [Repays -> Call \cup {None}] /\ repays'[p] = c
           /\ \A q \in Repays \ {p} : repays'[q] = repays[q]
           /\ PlansKnown'
  <1>1. repays \in [Repays -> Call \cup {None}]
    BY DEF TypeOK
  <1> HIDE DEF Call
  <1>2. /\ repays' \in [Repays -> Call \cup {None}] /\ repays'[p] = c
        /\ \A q \in Repays \ {p} : repays'[q] = repays[q]
    BY <1>1
  <1>3. ASSUME NEW q \in Repays, repays'[q] # None
        PROVE  /\ IsFiniteSet(repays'[q].payouts)
               /\ repays'[q].step \notin {"allocated", "unpaid"} => repays'[q].payouts = {}
    <2>1. CASE q = p
      BY <1>2, <2>1
    <2>2. CASE q # p
      <3>1. repays'[q] = repays[q]
        BY <1>2, <2>2
      <3> QED BY <1>3, <3>1 DEF PlansKnown
    <2> QED BY <2>1, <2>2
  <1> QED BY <1>2, <1>3 DEF PlansKnown

\* A repayment brings its amount, which the reserve holds.
LEMMA ReceivePaysIn ==
    ASSUME ReceiveInv, NEW p \in Repays, NEW a \in Actors, NEW x \in Amounts, PayIn(p, a, x)
    PROVE  ReceiveInv'
  <1> DEFINE c == [step |-> "paid", actor |-> a, amount |-> x, unallocated |-> 0, payouts |-> {}]
  <1>1. /\ repays[p] = None /\ escrow[a] >= x /\ escrow' = [escrow EXCEPT ![a] = @ - x]
        /\ reserve' = reserve + x /\ repays' = [repays EXCEPT ![p] = c]
        /\ UNCHANGED <<now, incidents, flags, reports, reported>>
    BY DEF PayIn, Covered, books, classifying
  <1>2. x \in Nat /\ IsFiniteSet({})
    BY SeverityAssumption, FS_EmptySet
  <1>3. c \in Call /\ c.payouts = {} /\ c.step = "paid" /\ c.actor = a /\ c.amount = x
    BY DEF Call
  <1>n. c # None
    BY <1>3, CallFields
  <1>4. TypeOK /\ PlansKnown /\ NeverOverpaid
    BY DEF ReceiveInv
  <1> HIDE DEF c
  <1>5. /\ repays' \in [Repays -> Call \cup {None}] /\ repays'[p] = c
        /\ \A q \in Repays \ {p} : repays'[q] = repays[q]
        /\ PlansKnown'
    BY <1>1, <1>2, <1>3, <1>4, CallTable
  <1>6. escrow' \in [Actors -> Nat] /\ reserve' \in Nat /\ escrow'[a] = escrow[a] - x
        /\ (\A b \in Actors \ {a} : escrow'[b] = escrow[b]) /\ \A b \in Actors : escrow[b] \in Nat
    <2>1. escrow \in [Actors -> Nat] /\ reserve \in Nat
      BY <1>4 DEF TypeOK
    <2> QED BY <1>1, <1>2, <2>1
  <1>7. TypeOK'
    BY <1>1, <1>4, <1>5, <1>6 DEF TypeOK
  <1>8. Numbers /\ Numbers'
    <2>1. TypeOK /\ PlansKnown => Numbers
      BY NumbersKnown
    <2>2. (TypeOK /\ PlansKnown)' => Numbers'
      BY NumbersKnown, PTL
    <2> QED BY <1>4, <1>5, <1>7, <2>1, <2>2
  <1>9. /\ Held(p) = 0 /\ Held(p)' = x
        /\ \A b : /\ Brought(p, b) = 0 /\ Brought(p, b)' = IF a = b THEN x ELSE 0
                  /\ PayoutsTo(p, b) = {} /\ PayoutsTo(p, b)' = {}
    BY <1>1, <1>3, <1>n, <1>5 DEF Held, Planned, At, Brought, PayoutsTo
  <1>10. \A b : AmountOf(PayoutsTo(p, b)) = 0 /\ AmountOf(PayoutsTo(p, b))' = 0
    <2> TAKE b
    <2>1. PayoutsTo(p, b) = {} /\ PayoutsTo(p, b)' = {}
      BY <1>9
    <2>2. AmountOf(PayoutsTo(p, b))' = 0
      BY <2>1, SumEmpty DEF AmountOf
    <2> QED BY <2>1, <2>2, PlanNothing
  <1>11. /\ HeldOn' = HeldOn + (Held(p)' - Held(p))
         /\ \A b \in Actors :
              /\ PaidBy(b)' = PaidBy(b) + (Brought(p, b)' - Brought(p, b))
              /\ Undelivered(b)' = Undelivered(b) +
                   (AmountOf(PayoutsTo(p, b))' - AmountOf(PayoutsTo(p, b)))
    BY <1>5, <1>8, OneCall
  <1>12. \A b : PaidFor(b)' = PaidFor(b)
    BY <1>1 DEF PaidFor, PaidOn
  <1>13. /\ HeldOn \in Int
         /\ \A b \in Actors : PaidBy(b) \in Int /\ PaidFor(b) \in Int /\ Undelivered(b) \in Int
    BY <1>4, SumsInt
  <1>14. reserve' >= HeldOn'
    <2>1. reserve >= HeldOn /\ reserve \in Nat
      BY DEF ReceiveInv, TypeOK
    <2>2. HeldOn' = HeldOn + (x - 0)
      BY <1>9, <1>11
    <2> QED BY <1>1, <1>2, <1>13, <2>1, <2>2
  <1>15. ASSUME NEW b \in Actors
         PROVE  escrow'[b] = Funds - PaidBy(b)' + PaidFor(b)' - Undelivered(b)'
    <2>1. escrow[b] = Funds - PaidBy(b) + PaidFor(b) - Undelivered(b)
      BY DEF ReceiveInv, Conserved
    <2>2. Undelivered(b)' = Undelivered(b)
      BY <1>10, <1>11, <1>13
    <2>3. PaidBy(b)' = PaidBy(b) + (IF a = b THEN x ELSE 0)
      BY <1>2, <1>9, <1>11, <1>13
    <2>4. escrow'[b] = escrow[b] - (IF a = b THEN x ELSE 0)
      BY <1>2, <1>6
    <2>5. Funds \in Int
      BY SeverityAssumption
    <2>6. PaidFor(b)' = PaidFor(b)
      BY <1>12
    <2> QED BY <1>2, <1>13, <2>1, <2>2, <2>3, <2>4, <2>5, <2>6
  <1>16. Conserved'
    BY <1>15 DEF Conserved
  <1>17. NeverOverpaid'
    BY <1>1, <1>4 DEF NeverOverpaid
  <1> QED BY <1>5, <1>7, <1>14, <1>16, <1>17 DEF ReceiveInv

\* A call's next step, of which the reserve holds no more than before, and that pays
\* nothing out.
LEMMA ReceiveMoves ==
    ASSUME ReceiveInv, NEW p \in Repays, NEW s \in Steps, repays[p] \in Call,
           s \notin {"allocated", "unpaid"} => repays[p].payouts = {},
           s \in {"paid", "checked"} => At(p, "paid") \/ At(p, "checked"),
           s = "allocated" => At(p, "allocated"),
           repays' = [repays EXCEPT ![p].step = s],
           UNCHANGED <<now, incidents, flags, reports, reported, escrow, reserve>>
    PROVE  ReceiveInv'
  <1> DEFINE c == [repays[p] EXCEPT !.step = s]
  <1>1. repays' = [repays EXCEPT ![p] = c]
    OBVIOUS
  <1>2. /\ c \in Call /\ c.step = s /\ c.actor = repays[p].actor
        /\ c.amount = repays[p].amount /\ c.payouts = repays[p].payouts
    BY CallMoves
  <1>3. TypeOK /\ PlansKnown /\ NeverOverpaid
    BY DEF ReceiveInv
  <1>n. c # None /\ repays[p] # None
    BY <1>2, CallFields
  <1>4. IsFiniteSet(c.payouts)
    BY <1>2, <1>3, <1>n DEF PlansKnown
  <1> HIDE DEF c
  <1>5. /\ repays' \in [Repays -> Call \cup {None}] /\ repays'[p] = c
        /\ \A q \in Repays \ {p} : repays'[q] = repays[q]
        /\ PlansKnown'
    BY <1>1, <1>2, <1>3, <1>4, CallTable
  <1>6. TypeOK'
    BY <1>3, <1>5 DEF TypeOK
  <1>7. Numbers /\ Numbers'
    <2>1. TypeOK /\ PlansKnown => Numbers
      BY NumbersKnown
    <2>2. (TypeOK /\ PlansKnown)' => Numbers'
      BY NumbersKnown, PTL
    <2> QED BY <1>3, <1>5, <1>6, <2>1, <2>2
  <1>8. \A b : Brought(p, b)' = Brought(p, b) /\ PayoutsTo(p, b)' = PayoutsTo(p, b)
    BY <1>2, <1>n, <1>5 DEF Brought, PayoutsTo
  <1>9. \A b : AmountOf(PayoutsTo(p, b))' = AmountOf(PayoutsTo(p, b))
    BY <1>8 DEF AmountOf
  <1>10. Held(p)' <= Held(p) /\ Held(p) \in Nat /\ Held(p)' \in Int
    <2>1. Held(p) \in Nat
      BY <1>3, CallNumbers
    <2>2. Held(p)' \in Int
      BY <1>7 DEF Numbers
    <2>3. CASE s \in {"paid", "checked"}
      <3>1. Held(p) = repays[p].amount /\ Held(p)' = c.amount
        BY <1>2, <1>n, <1>5, <2>3 DEF Held, At
      <3> QED BY <1>2, <2>1, <3>1
    <2>4. CASE s = "allocated"
      <3>1. Held(p) = AmountOf(repays[p].payouts)
        BY <2>4 DEF Held, Planned, At
      <3>2. Held(p)' = AmountOf(c.payouts)
        BY <1>2, <1>n, <1>5, <2>4 DEF Held, Planned, At, AmountOf
      <3> QED BY <1>2, <2>1, <3>1, <3>2
    <2>5. CASE s \notin {"paid", "checked", "allocated"}
      <3>1. Held(p)' = 0
        BY <1>2, <1>5, <2>5 DEF Held, Planned, At
      <3> QED BY <2>1, <3>1
    <2> QED BY <2>1, <2>2, <2>3, <2>4, <2>5
  <1>11. /\ HeldOn' = HeldOn + (Held(p)' - Held(p))
         /\ \A b \in Actors :
              /\ PaidBy(b)' = PaidBy(b) + (Brought(p, b)' - Brought(p, b))
              /\ Undelivered(b)' = Undelivered(b) +
                   (AmountOf(PayoutsTo(p, b))' - AmountOf(PayoutsTo(p, b)))
    BY <1>5, <1>7, OneCall
  <1>12. \A b : PaidFor(b)' = PaidFor(b)
    BY DEF PaidFor, PaidOn
  <1>13. /\ HeldOn \in Int
         /\ \A b \in Actors : PaidBy(b) \in Int /\ PaidFor(b) \in Int /\ Undelivered(b) \in Int
    BY <1>3, SumsInt
  <1>14. reserve' >= HeldOn'
    <2>1. reserve >= HeldOn /\ reserve \in Nat /\ reserve' = reserve
      BY DEF ReceiveInv, TypeOK
    <2>2. HeldOn' <= HeldOn /\ HeldOn' \in Int
      BY <1>10, <1>11, <1>13
    <2> QED BY <1>13, <2>1, <2>2
  <1>15. \A b \in Actors : PaidBy(b)' = PaidBy(b) /\ Undelivered(b)' = Undelivered(b)
    <2> TAKE b \in Actors
    <2>1. Brought(p, b) \in Int /\ AmountOf(PayoutsTo(p, b)) \in Int
      BY <1>7 DEF Numbers
    <2>2. PaidBy(b)' = PaidBy(b) + (Brought(p, b) - Brought(p, b))
      BY <1>8, <1>11
    <2>3. Undelivered(b)' = Undelivered(b) +
                   (AmountOf(PayoutsTo(p, b)) - AmountOf(PayoutsTo(p, b)))
      BY <1>9, <1>11
    <2> QED BY <1>13, <2>1, <2>2, <2>3
  <1>16. Conserved'
    BY <1>12, <1>15 DEF ReceiveInv, Conserved
  <1>17. NeverOverpaid'
    BY <1>3 DEF NeverOverpaid
  <1> QED BY <1>5, <1>6, <1>14, <1>16, <1>17 DEF ReceiveInv

LEMMA Adjusts ==
    ASSUME NEW e \in Int, NEW f \in Int, NEW F \in Int, NEW b \in Int, NEW v \in Int, NEW w \in Int,
           NEW u \in Int, NEW s \in Int, NEW t \in Int,
           e = F - b + v - u, f - e = (w - v) - (t - s)
    PROVE  f = F - b + w - (u + (t - s))
  OBVIOUS

\* What a call's step must respect: the reserve changes at least as what it holds for
\* the call, every escrow as what was brought, paid and not yet delivered.
LEMMA CallBalances ==
    ASSUME ReceiveInv, TypeOK', PlansKnown', NeverOverpaid', NEW p \in Repays,
           \A q \in Repays \ {p} : repays'[q] = repays[q],
           reserve' - reserve >= Held(p)' - Held(p),
           \A b \in Actors :
              /\ PaidFor(b)' \in Int /\ Brought(p, b)' = Brought(p, b)
              /\ escrow'[b] - escrow[b] = (PaidFor(b)' - PaidFor(b)) -
                   (AmountOf(PayoutsTo(p, b))' - AmountOf(PayoutsTo(p, b)))
    PROVE  ReceiveInv'
  <1>1. TypeOK /\ PlansKnown /\ reserve >= HeldOn
    BY DEF ReceiveInv
  <1>2. Numbers /\ Numbers'
    <2>1. TypeOK /\ PlansKnown => Numbers
      BY NumbersKnown
    <2>2. (TypeOK /\ PlansKnown)' => Numbers'
      BY NumbersKnown, PTL
    <2> QED BY <1>1, <2>1, <2>2
  <1>3. /\ HeldOn' = HeldOn + (Held(p)' - Held(p))
        /\ \A b \in Actors :
             /\ PaidBy(b)' = PaidBy(b) + (Brought(p, b)' - Brought(p, b))
             /\ Undelivered(b)' = Undelivered(b) +
                  (AmountOf(PayoutsTo(p, b))' - AmountOf(PayoutsTo(p, b)))
    BY <1>2, OneCall
  <1>4. /\ HeldOn \in Int
        /\ \A b \in Actors : PaidBy(b) \in Int /\ PaidFor(b) \in Int /\ Undelivered(b) \in Int
    BY <1>1, SumsInt
  <1>5. reserve' >= HeldOn'
    <2>1. reserve \in Int /\ reserve' \in Int
      BY <1>1 DEF TypeOK
    <2>2. Held(p) \in Int /\ Held(p)' \in Int
      BY <1>2 DEF Numbers
    <2> QED BY <1>1, <1>3, <1>4, <2>1, <2>2
  <1>6. ASSUME NEW b \in Actors
        PROVE  escrow'[b] = Funds - PaidBy(b)' + PaidFor(b)' - Undelivered(b)'
    <2>1. escrow[b] = Funds - PaidBy(b) + PaidFor(b) - Undelivered(b)
      BY DEF ReceiveInv, Conserved
    <2>2. escrow[b] \in Int /\ escrow'[b] \in Int /\ Funds \in Int
      BY <1>1, SeverityAssumption DEF TypeOK
    <2>3. /\ AmountOf(PayoutsTo(p, b)) \in Int /\ AmountOf(PayoutsTo(p, b))' \in Int
          /\ Brought(p, b) \in Int
      BY <1>2 DEF Numbers
    <2>4. PaidBy(b)' = PaidBy(b)
      BY <1>3, <1>4, <2>3
    <2>5. Undelivered(b)' = Undelivered(b) +
                  (AmountOf(PayoutsTo(p, b))' - AmountOf(PayoutsTo(p, b)))
      BY <1>3
    <2>6. escrow'[b] - escrow[b] = (PaidFor(b)' - PaidFor(b)) -
                   (AmountOf(PayoutsTo(p, b))' - AmountOf(PayoutsTo(p, b)))
      OBVIOUS
    <2>7. PaidFor(b)' \in Int /\ PaidBy(b) \in Int /\ PaidFor(b) \in Int /\ Undelivered(b) \in Int
      BY <1>4
    <2> QED BY <2>1, <2>2, <2>3, <2>4, <2>5, <2>6, <2>7, Adjusts
  <1>7. Conserved'
    BY <1>6 DEF Conserved
  <1> QED BY <1>5, <1>7 DEF ReceiveInv

\* A victim is paid: out of the reserve, into its escrow, off the plan.
LEMMA ReceivePaysOut ==
    ASSUME ReceiveInv, NEW p \in Repays, PayOut(p)
    PROVE  ReceiveInv'
  <1>0. TypeOK /\ PlansKnown /\ NeverOverpaid
    BY DEF ReceiveInv
  <1>1. PICK o \in repays[p].payouts :
          /\ reserve >= o.amount /\ reserve' = reserve - o.amount
          /\ escrow' = [escrow EXCEPT ![o.to] = @ + o.amount]
          /\ repays' = [repays EXCEPT ![p].payouts = @ \ {o}]
    BY DEF PayOut
  <1>2. /\ At(p, "allocated") /\ repays[p] \in Call /\ repays[p].step = "allocated"
        /\ UNCHANGED <<now, incidents, flags, reports, reported>>
    BY <1>0, CallAt DEF PayOut, books, classifying
  <1> DEFINE c == [repays[p] EXCEPT !.payouts = @ \ {o}]
             P == repays[p].payouts
  <1>3. repays' = [repays EXCEPT ![p] = c]
    BY <1>1
  <1>4. /\ c \in Call /\ c.step = "allocated" /\ c.actor = repays[p].actor
        /\ c.amount = repays[p].amount /\ c.payouts = P \ {o}
    BY <1>2, CallPays
  <1>n. c # None /\ repays[p] # None /\ P \in SUBSET Payout
    BY <1>2, <1>4, CallFields
  <1>5. IsFiniteSet(P) /\ o \in P
    BY <1>0, <1>1, <1>n DEF PlansKnown
  <1> HIDE DEF c, P
  <1>6. /\ IsFiniteSet(P \ {o}) /\ AmountOf(P \ {o}) \in Nat /\ AmountOf(P) \in Nat
        /\ o.amount \in Nat /\ AmountOf(P) = o.amount + AmountOf(P \ {o})
    BY <1>n, <1>5, PlanLess
  <1>7. /\ repays' \in [Repays -> Call \cup {None}] /\ repays'[p] = c
        /\ \A q \in Repays \ {p} : repays'[q] = repays[q]
        /\ PlansKnown'
    BY <1>0, <1>3, <1>4, <1>6, CallTable
  <1>8. o.to \in Actors
    BY <1>n, <1>5 DEF Payout
  <1>9. /\ escrow' \in [Actors -> Nat] /\ reserve' \in Nat
        /\ escrow'[o.to] = escrow[o.to] + o.amount
        /\ (\A b \in Actors \ {o.to} : escrow'[b] = escrow[b])
        /\ \A b \in Actors : escrow[b] \in Nat
    <2>1. escrow \in [Actors -> Nat] /\ reserve \in Nat
      BY <1>0 DEF TypeOK
    <2> QED BY <1>1, <1>6, <1>8, <2>1
  <1>10. TypeOK'
    BY <1>0, <1>2, <1>7, <1>9 DEF TypeOK
  <1>11. NeverOverpaid' /\ \A b : PaidFor(b)' = PaidFor(b)
    BY <1>0, <1>2 DEF NeverOverpaid, PaidFor, PaidOn
  <1>12. Held(p) = AmountOf(P) /\ Held(p)' = AmountOf(P \ {o})
    <2>1. Held(p) = AmountOf(P)
      BY <1>2 DEF Held, Planned, At, P
    <2>2. Held(p)' = AmountOf(c.payouts)
      BY <1>4, <1>n, <1>7 DEF Held, Planned, At, AmountOf
    <2> QED BY <1>4, <2>1, <2>2
  <1>13. reserve' - reserve >= Held(p)' - Held(p)
    <2>1. reserve \in Nat
      BY <1>0 DEF TypeOK
    <2> QED BY <1>1, <1>6, <1>12, <2>1
  <1>14. ASSUME NEW b \in Actors
         PROVE  /\ PaidFor(b)' \in Int /\ Brought(p, b)' = Brought(p, b)
                /\ escrow'[b] - escrow[b] = (PaidFor(b)' - PaidFor(b)) -
                     (AmountOf(PayoutsTo(p, b))' - AmountOf(PayoutsTo(p, b)))
    <2>1. PaidFor(b) \in Int /\ PaidFor(b)' = PaidFor(b)
      BY <1>0, <1>11, SumsInt
    <2>2. Brought(p, b)' = Brought(p, b)
      BY <1>4, <1>n, <1>7 DEF Brought
    <2> DEFINE Q == PayoutsTo(p, b)
    <2>3. Q = {q \in P : q.to = b} /\ Q' = {q \in P \ {o} : q.to = b}
      BY <1>4, <1>n, <1>7 DEF PayoutsTo, P
    <2>4. Q \in SUBSET Payout /\ IsFiniteSet(Q) /\ AmountOf(Q) \in Nat
      BY <1>0, CallNumbers
    <2>5. CASE b = o.to
      <3>1. o \in Q /\ Q' = Q \ {o}
        BY <1>5, <2>3, <2>5
      <3>2. AmountOf(Q) = o.amount + AmountOf(Q \ {o}) /\ AmountOf(Q \ {o}) \in Nat
        <4> HIDE DEF Q
        <4> QED BY <2>4, <3>1, PlanLess
      <3>3. AmountOf(Q)' = AmountOf(Q \ {o})
        BY <3>1 DEF AmountOf
      <3>4. escrow'[b] = escrow[b] + o.amount /\ escrow[b] \in Nat
        BY <1>9, <2>5
      <3> HIDE DEF Q
      <3>5. escrow'[b] - escrow[b] = (PaidFor(b)' - PaidFor(b)) - (AmountOf(Q)' - AmountOf(Q))
        BY <1>6, <2>1, <3>2, <3>3, <3>4
      <3> QED BY <2>1, <2>2, <3>5 DEF Q
    <2>6. CASE b # o.to
      <3>1. Q' = Q
        BY <2>3, <2>6
      <3>2. AmountOf(Q)' = AmountOf(Q)
        BY <3>1 DEF AmountOf
      <3>3. escrow'[b] = escrow[b] /\ escrow[b] \in Nat
        BY <1>9, <2>6
      <3> HIDE DEF Q
      <3>4. escrow'[b] - escrow[b] = (PaidFor(b)' - PaidFor(b)) - (AmountOf(Q)' - AmountOf(Q))
        BY <2>1, <2>4, <3>2, <3>3
      <3> QED BY <2>1, <2>2, <3>4 DEF Q
    <2> QED BY <2>5, <2>6
  <1> QED BY <1>7, <1>10, <1>11, <1>13, <1>14, CallBalances

\* The plan a call makes is the plan for the incidents it serves.
LEMMA AllocatePlan ==
    ASSUME NEW p \in Repays, Allocate(p)
    PROVE  LET a    == repays[p].actor
               x    == repays[p].amount
               plan == PlanFor(Served(a, x), a, x)
           IN  /\ flags' = [flags EXCEPT ![a].debt = @ - x]
               /\ incidents' = MarkPaid(a, x)
               /\ repays' = [repays EXCEPT ![p] =
                    [repays[p] EXCEPT !.step = "allocated", !.unallocated = x - AmountOf(plan),
                                      !.payouts = plan]]
               /\ At(p, "checked")
               /\ UNCHANGED <<now, reports, reported, escrow, reserve>>
  BY DEF Allocate, PlanFor, PayoutOf, Served, classifying, money

\* What the incidents say a victim was paid grows by what the plan has for it.
LEMMA MarkedPays ==
    ASSUME TypeOK, NeverOverpaid, NEW a, NEW x \in Nat, incidents' = MarkPaid(a, x),
           NEW v \in Actors
    PROVE  PaidFor(v)' = PaidFor(v) + AmountOf(PlanFor(ServedTo(a, x, v), a, x))
  <1> DEFINE D == DOMAIN incidents
             f == [i \in D |-> PaidOn(i, v)]
             g == [i \in D |-> IF incidents[i].victim = v THEN Gets(i, a, x) ELSE 0]
             h == [i \in D |-> PaidOn(i, v)']
  <1>1. /\ DOMAIN incidents' = D
        /\ \A i \in D : /\ incidents'[i].victim = incidents[i].victim
                        /\ incidents'[i].paid = incidents[i].paid + Gets(i, a, x)
    BY Marked
  <1>2. \A i \in D : f[i] \in Int /\ g[i] \in Int /\ h[i] = f[i] + g[i]
    <2> TAKE i \in D
    <2>1. incidents[i].paid \in Nat /\ Gets(i, a, x) \in Nat
      BY Rows, IncidentFields, GetsNat
    <2>2. h[i] = IF incidents[i].victim = v THEN incidents[i].paid + Gets(i, a, x) ELSE 0
      BY <1>1 DEF PaidOn
    <2>3. f[i] = IF incidents[i].victim = v THEN incidents[i].paid ELSE 0
      BY DEF PaidOn
    <2>4. g[i] = IF incidents[i].victim = v THEN Gets(i, a, x) ELSE 0
      OBVIOUS
    <2> HIDE DEF f, g, h
    <2> QED BY <2>1, <2>2, <2>3, <2>4
  <1>3. /\ PaidFor(v) = SumFunctionOnSet(f, D) /\ PaidFor(v)' = SumFunctionOnSet(h, D)
        /\ SumFunctionOnSet(g, D) = AmountOf(PlanFor(ServedTo(a, x, v), a, x))
    BY <1>1, GetsAddUp DEF PaidFor
  <1>4. IsFiniteSet(D)
    BY Rows
  <1> HIDE DEF f, g, h, D
  <1>5. SumFunctionOnSet(h, D) = SumFunctionOnSet(f, D) + SumFunctionOnSet(g, D)
    BY <1>2, <1>4, SumPlus
  <1> QED BY <1>3, <1>5

\* A call shares its amount out: no money moves, the incidents learn what the plan
\* will pay, and the plan comes to no more than the call brought.
LEMMA ReceiveAllocates ==
    ASSUME ReceiveInv, NEW p \in Repays, Allocate(p)
    PROVE  ReceiveInv'
  <1>0. TypeOK /\ PlansKnown /\ NeverOverpaid
    BY DEF ReceiveInv
  <1> DEFINE a == repays[p].actor
             x == repays[p].amount
             plan == PlanFor(Served(a, x), a, x)
             u == x - AmountOf(plan)
             c == [repays[p] EXCEPT !.step = "allocated", !.unallocated = u, !.payouts = plan]
  <1>1. /\ flags' = [flags EXCEPT ![a].debt = @ - x] /\ incidents' = MarkPaid(a, x)
        /\ repays' = [repays EXCEPT ![p] = c] /\ At(p, "checked")
        /\ UNCHANGED <<now, reports, reported, escrow, reserve>>
    BY AllocatePlan
  <1>2. /\ repays[p] \in Call /\ repays[p] # None /\ repays[p].step = "checked"
        /\ a \in Actors /\ x \in Nat /\ repays[p].payouts = {}
    <2>1. repays[p] \in Call /\ repays[p].step = "checked"
      BY <1>0, <1>1, CallAt
    <2>2. repays[p] # None /\ a \in Actors /\ x \in Nat
      BY <2>1, CallFields
    <2> QED BY <1>0, <2>1, <2>2 DEF PlansKnown
  <1> HIDE DEF a, x
  <1>3. /\ plan \in SUBSET Payout /\ IsFiniteSet(plan)
        /\ AmountOf(plan) = MinOf(OwedOn(Attributable(a)), x) /\ AmountOf(plan) \in Nat
    <2>1. Served(a, x) \in SUBSET Attributable(a)
      BY DEF Served
    <2> QED BY <1>0, <1>2, <2>1, PlanComesTo, GetsAddUp, PlanNat
  <1>4. AmountOf(plan) <= x /\ u \in Nat
    <2>1. OwedOn(Attributable(a)) >= x \/ ~(OwedOn(Attributable(a)) >= x)
      OBVIOUS
    <2>2. MinOf(OwedOn(Attributable(a)), x) = OwedOn(Attributable(a))
          \/ MinOf(OwedOn(Attributable(a)), x) = x
      BY DEF MinOf
    <2>3. OwedOn(Attributable(a)) < x \/ MinOf(OwedOn(Attributable(a)), x) = x
      BY DEF MinOf
    <2>4. PICK n \in Nat : n = AmountOf(plan)
      BY <1>3
    <2>5. n <= x
      BY <1>2, <1>3, <2>2, <2>3, <2>4
    <2> HIDE DEF plan
    <2> QED BY <1>2, <2>4, <2>5
  <1> HIDE DEF plan, u
  <1>5. /\ c \in Call /\ c.step = "allocated" /\ c.actor = repays[p].actor
        /\ c.amount = repays[p].amount /\ c.payouts = plan
    <2>1. repays[p] \in Call /\ plan \in SUBSET Payout /\ u \in Nat
      BY <1>2, <1>3, <1>4
    <2> QED BY <2>1 DEF Call
  <1>n. c # None
    BY <1>5, CallFields
  <1> HIDE DEF c
  <1>6. /\ repays' \in [Repays -> Call \cup {None}] /\ repays'[p] = c
        /\ \A q \in Repays \ {p} : repays'[q] = repays[q]
        /\ PlansKnown'
    BY <1>0, <1>1, <1>3, <1>5, CallTable
  <1>7. incidents' \in Seq(Incident) /\ NeverOverpaid'
    BY <1>0, <1>1, <1>2, Marked
  <1>8. flags' \in [Actors -> Flags]
    <2>1. flags \in [Actors -> Flags]
      BY <1>0 DEF TypeOK
    <2>2. flags[a] \in Flags
      BY <1>2, <2>1
    <2>3. [flags[a] EXCEPT !.debt = @ - x] \in Flags
      BY <1>2, <2>2 DEF Flags
    <2> HIDE DEF Flags
    <2> QED BY <1>1, <1>2, <2>1, <2>3
  <1>9. TypeOK'
    BY <1>0, <1>1, <1>6, <1>7, <1>8 DEF TypeOK
  <1>10. Held(p) = x /\ Held(p)' = AmountOf(plan)
    <2>1. Held(p) = x
      BY <1>1 DEF Held, At, x
    <2>2. Held(p)' = AmountOf(c.payouts)
      BY <1>5, <1>n, <1>6 DEF Held, Planned, At, AmountOf
    <2> QED BY <1>5, <2>1, <2>2
  <1>11. reserve' - reserve >= Held(p)' - Held(p)
    <2>1. reserve \in Nat
      BY <1>0 DEF TypeOK
    <2> QED BY <1>1, <1>2, <1>3, <1>4, <1>10, <2>1
  <1>12. ASSUME NEW b \in Actors
         PROVE  /\ PaidFor(b)' \in Int /\ Brought(p, b)' = Brought(p, b)
                /\ escrow'[b] - escrow[b] = (PaidFor(b)' - PaidFor(b)) -
                     (AmountOf(PayoutsTo(p, b))' - AmountOf(PayoutsTo(p, b)))
    <2> DEFINE Q == PlanFor(ServedTo(a, x, b), a, x)
    <2>1. PaidFor(b)' = PaidFor(b) + AmountOf(Q)
      BY <1>0, <1>1, <1>2, MarkedPays
    <2>2. PayoutsTo(p, b) = {} /\ PayoutsTo(p, b)' = {o \in plan : o.to = b}
      BY <1>2, <1>5, <1>n, <1>6 DEF PayoutsTo
    <2>3. {o \in plan : o.to = b} = Q
      BY DEF plan, PlanFor, PayoutOf, ServedTo
    <2>4. AmountOf(PayoutsTo(p, b)) = 0 /\ AmountOf(PayoutsTo(p, b))' = AmountOf(Q)
      BY <2>2, <2>3, PlanNothing DEF AmountOf
    <2>5. AmountOf(Q) \in Nat
      <3>1. ServedTo(a, x, b) \in SUBSET Attributable(a)
        BY DEF ServedTo, Served
      <3> QED BY <1>0, <1>2, <3>1, PlanComesTo, PlanNat
    <2>6. Brought(p, b)' = Brought(p, b)
      BY <1>2, <1>5, <1>n, <1>6 DEF Brought
    <2>7. PaidFor(b) \in Int /\ escrow[b] \in Nat /\ escrow'[b] = escrow[b]
      BY <1>0, <1>1, SumsInt DEF TypeOK
    <2> HIDE DEF Q
    <2> QED BY <2>1, <2>4, <2>5, <2>6, <2>7
  <1> QED BY <1>6, <1>7, <1>9, <1>11, <1>12, CallBalances

\* Every step.
LEMMA ReceiveStep == ReceiveInv /\ [Next]_vars => ReceiveInv'
  <1> SUFFICES ASSUME ReceiveInv, [Next]_vars PROVE ReceiveInv'
    OBVIOUS
  <1>0. TypeOK /\ PlansKnown
    BY DEF ReceiveInv
  <1>1. CASE \E a \in Actors : \E v \in Actors \cup {None} : \E tier \in Tiers :
               \E value \in Values : \E slashed \in 0 .. value :
                 ReportIncident(a, v, tier, value, slashed)
    BY <1>1, ReceiveReports
  <1>2. CASE \E r \in reports : RecordIncident(r)
    BY <1>2, ReceiveRecords
  <1>3. CASE \/ \E r \in reports : StopReport(r)
             \/ Tick
             \/ UNCHANGED vars
    <2>1. /\ UNCHANGED <<incidents, flags, reported, escrow, reserve, repays>>
          /\ (now' = now \/ now' = now + 1) /\ reports' \subseteq reports
      BY <1>3 DEF StopReport, Tick, vars, books, money, classifying
    <2> QED BY <2>1, ReceiveIdles
  <1>4. CASE \E p \in Repays : \E a \in Actors : \E x \in Amounts : PayIn(p, a, x)
    BY <1>4, ReceivePaysIn
  <1>5. ASSUME NEW p \in Repays, CheckDebt(p) PROVE ReceiveInv'
    <2>1. /\ At(p, "paid") /\ repays[p] \in Call /\ repays[p].payouts = {}
          /\ UNCHANGED <<now, incidents, flags, reports, reported, escrow, reserve>>
      <3>1. At(p, "paid") /\ repays[p] \in Call /\ repays[p].step = "paid"
        BY <1>0, <1>5, CallAt DEF CheckDebt
      <3>2. repays[p] # None
        BY <3>1, CallFields
      <3> QED BY <1>0, <1>5, <3>1, <3>2 DEF CheckDebt, PlansKnown, books, classifying, money
    <2>2. PICK s \in {"checked", "refused"} : repays' = [repays EXCEPT ![p].step = s]
      BY <1>5 DEF CheckDebt
    <2>3. s \in Steps
      BY DEF Steps
    <2> QED BY <2>1, <2>2, <2>3, ReceiveMoves
  <1>6. CASE \E p \in Repays : Allocate(p)
    BY <1>6, ReceiveAllocates
  <1>7. CASE \E p \in Repays : PayOut(p)
    BY <1>7, ReceivePaysOut
  <1>8. ASSUME NEW p \in Repays, StopRepay(p) PROVE ReceiveInv'
    <2>1. UNCHANGED <<now, incidents, flags, reports, reported, escrow, reserve>>
      BY <1>8 DEF StopRepay, books, classifying, money
    <2>2. CASE (At(p, "paid") \/ At(p, "checked")) /\ repays' = [repays EXCEPT ![p].step = "lost"]
      <3>1. repays[p] \in Call /\ repays[p].step \in {"paid", "checked"}
        BY <1>0, <2>2, CallAt
      <3>2. repays[p].payouts = {}
        BY <1>0, <3>1, CallFields DEF PlansKnown
      <3>3. "lost" \in Steps
        BY DEF Steps
      <3> QED BY <2>1, <2>2, <3>1, <3>2, <3>3, ReceiveMoves
    <2>3. CASE At(p, "allocated") /\ repays' = [repays EXCEPT ![p].step = "unpaid"]
      <3>1. repays[p] \in Call
        BY <1>0, <2>3, CallAt
      <3>2. "unpaid" \in Steps
        BY DEF Steps
      <3> QED BY <2>1, <2>3, <3>1, <3>2, ReceiveMoves
    <2> QED BY <1>8, <2>2, <2>3 DEF StopRepay
  <1> QED BY <1>1, <1>2, <1>3, <1>4, <1>5, <1>6, <1>7, <1>8 DEF Next, Classify, Settle

\* What the reserve holds for the calls covers what they plan to pay.
LEMMA ReceiveHolds == ReceiveInv => VictimsReceive
  <1> SUFFICES ASSUME ReceiveInv PROVE VictimsReceive
    OBVIOUS
  <1>1. TypeOK /\ PlansKnown /\ NeverOverpaid /\ reserve >= HeldOn /\ Conserved
    BY DEF ReceiveInv
  <1> DEFINE f == [p \in Repays |-> Planned(p)]
             g == [p \in Repays |-> Held(p)]
  <1>2. \A p \in Repays : f[p] \in Int /\ g[p] \in Int /\ f[p] <= g[p]
    <2> TAKE p \in Repays
    <2>1. Held(p) \in Nat /\ Planned(p) \in Nat /\ Planned(p) <= Held(p)
      BY <1>1, CallNumbers
    <2> QED BY <2>1
  <1>3. IsFiniteSet(Repays) /\ HeldOn = SumFunctionOnSet(g, Repays) /\ reserve \in Nat
    BY <1>1, SeverityAssumption DEF HeldOn, TypeOK
  <1> HIDE DEF f, g
  <1>4. SumFunctionOnSet(f, Repays) <= SumFunctionOnSet(g, Repays)
        /\ SumFunctionOnSet(f, Repays) \in Int /\ SumFunctionOnSet(g, Repays) \in Int
    BY <1>2, <1>3, SumLeq, SumInt
  <1>5. reserve >= SumFunctionOnSet(f, Repays)
    BY <1>1, <1>3, <1>4
  <1>6. ReserveCovers
    BY <1>1, <1>5 DEF ReserveCovers, f
  <1> QED BY <1>1, <1>6 DEF VictimsReceive, Conserved

\* What the incidents say a victim was paid is what its escrow received but for
\* payouts still to be made or cut short, never more than the damage, and the reserve
\* covers what is still to be made, however the calls of /severity/repay interleave.
THEOREM VictimsAreSafe == Spec => []VictimsReceive
  <1>1. Init => ReceiveInv
    BY ReceiveInit
  <1>2. ReceiveInv /\ [Next]_vars => ReceiveInv'
    BY ReceiveStep
  <1>3. ReceiveInv => VictimsReceive
    BY ReceiveHolds
  <1> HIDE DEF ReceiveInv, VictimsReceive, Init, Next, vars
  <1> QED BY <1>1, <1>2, <1>3, PTL DEF Spec

-----------------------------------------------------------------------------
(* Made whole, when the checks of an actor's debt come one at a time.      *)

\* What an actor owes to somebody on an incident, and in all.
OwedTo(i, a) == IF incidents[i].actor = a /\ incidents[i].victim # None THEN Owed(i) ELSE 0
OwedBy(a) == SumFunctionOnSet([i \in DOMAIN incidents |-> OwedTo(i, a)], DOMAIN incidents)

\* At most one call of an actor stands between its check and its allocation.
OneCheck ==
    \A p, q \in Repays :
        At(p, "checked") /\ At(q, "checked") /\ repays[p].actor = repays[q].actor => p = q

\* An actor's debt covers what it owes to somebody, and what a checked call will take.
DebtCovers ==
    \A a \in Actors :
        /\ flags[a].debt >= OwedBy(a)
        /\ \A p \in Repays : At(p, "checked") /\ repays[p].actor = a
                                => repays[p].amount <= flags[a].debt

WholeInv == ReceiveInv /\ OneCheck /\ DebtCovers

\* What is owed is a natural number, owed on the incidents a repayment serves.
LEMMA OwedAddsUp ==
    ASSUME TypeOK, NeverOverpaid, NEW a
    PROVE  /\ \A i \in DOMAIN incidents : OwedTo(i, a) \in Nat
           /\ OwedBy(a) = OwedOn(Attributable(a)) /\ OwedBy(a) \in Nat
           /\ \A i \in Attributable(a) : Owed(i) <= OwedBy(a)
  <1> DEFINE D == DOMAIN incidents
             A == Attributable(a)
             f == [i \in D |-> OwedTo(i, a)]
             g == [i \in A |-> Owed(i)]
  <1>1. IsFiniteSet(D) /\ IsFiniteSet(A) /\ A \in SUBSET D /\ \A i \in D : Owed(i) \in Nat
    BY Rows, OwedNat
  <1>2. \A i \in D : f[i] = OwedTo(i, a) /\ f[i] \in Nat /\ f[i] \in Int
    BY <1>1 DEF OwedTo
  <1>3. \A i \in A : f[i] = g[i] /\ g[i] = Owed(i)
    BY <1>1 DEF OwedTo, Attributable
  <1>4. \A i \in D \ A : f[i] = 0
    BY <1>1 DEF OwedTo, Attributable
  <1>5. OwedBy(a) = SumFunctionOnSet(f, D) /\ OwedOn(A) = SumFunctionOnSet(g, A)
    BY DEF OwedBy, OwedOn
  <1> HIDE DEF D, A, f, g
  <1>6. SumFunctionOnSet(f, A) = SumFunctionOnSet(f, D)
    BY <1>1, <1>2, <1>4, SumDrop
  <1>7. SumFunctionOnSet(f, A) = SumFunctionOnSet(g, A)
    BY <1>1, <1>3, SumEqual
  <1>8. SumFunctionOnSet(f, D) \in Nat /\ \A i \in D : f[i] <= SumFunctionOnSet(f, D)
    BY <1>1, <1>2, SumNat
  <1>9. \A i \in A : Owed(i) <= SumFunctionOnSet(f, D)
    BY <1>1, <1>3, <1>8
  <1> QED BY <1>2, <1>5, <1>6, <1>7, <1>8, <1>9 DEF A, D

\* Steps that leave the debts and the incidents, and check no call.
LEMMA WholeKept ==
    ASSUME WholeInv, ReceiveInv', UNCHANGED <<incidents, flags>>,
           \A q \in Repays : repays'[q] = repays[q] \/ ~At(q, "checked")'
    PROVE  WholeInv'
  <1>1. \A q \in Repays : At(q, "checked")' => At(q, "checked") /\ repays'[q] = repays[q]
    BY DEF At
  <1>2. OneCheck'
    BY <1>1 DEF WholeInv, OneCheck
  <1>3. \A a : OwedBy(a)' = OwedBy(a)
    BY DEF OwedBy, OwedTo, Owed
  <1>4. DebtCovers'
    BY <1>1, <1>3 DEF WholeInv, DebtCovers
  <1> QED BY <1>2, <1>4 DEF WholeInv

\* A new incident adds to the debt at least what it is owed to somebody.
LEMMA WholeRecords ==
    ASSUME WholeInv, ReceiveInv', NEW r \in reports, RecordIncident(r)
    PROVE  WholeInv'
  <1>0. TypeOK /\ NeverOverpaid /\ TypeOK' /\ NeverOverpaid'
    BY DEF WholeInv, ReceiveInv
  <1> DEFINE e == [actor |-> r.actor, victim |-> r.victim, severity |-> SeverityOf(r),
                   debt |-> DebtOf(r), paid |-> 0, ts |-> r.ts]
             n == Len(incidents) + 1
  <1>1. /\ e \in Incident /\ e.paid = 0 /\ e.debt = DebtOf(r) /\ e.actor = r.actor
        /\ DebtOf(r) \in Nat /\ r.actor \in Actors
    <2>1. r \in Report
      BY <1>0 DEF TypeOK
    <2> QED BY <2>1, ReportBecomes
  <1>2. /\ incidents' = Append(incidents, e) /\ repays' = repays
        /\ flags' = [flags EXCEPT ![r.actor] = Sanction(@, r)]
    BY DEF RecordIncident
  <1> HIDE DEF e
  <1>3. /\ DOMAIN incidents' = DOMAIN incidents \cup {n}
        /\ n \notin DOMAIN incidents /\ incidents'[n] = e
        /\ \A i \in DOMAIN incidents : incidents'[i] = incidents[i]
    BY <1>0, <1>1, <1>2, RowAppended
  <1> HIDE DEF n
  <1>4. ASSUME NEW b \in Actors
        PROVE  /\ flags[b].debt \in Int
               /\ flags'[b].debt = flags[b].debt + (IF b = r.actor THEN DebtOf(r) ELSE 0)
    <2>1. flags \in [Actors -> Flags] /\ flags[b].debt \in Int
      BY <1>0 DEF TypeOK, Flags
    <2>2. CASE b = r.actor
      <3>1. flags'[b] = Sanction(flags[b], r)
        BY <1>2, <2>1, <2>2
      <3> QED BY <2>1, <2>2, <3>1 DEF Sanction
    <2>3. CASE b # r.actor
      <3>1. flags'[b] = flags[b]
        BY <1>2, <2>1, <2>3
      <3> QED BY <2>1, <2>3, <3>1
    <2> QED BY <2>2, <2>3
  <1>5. ASSUME NEW b \in Actors
        PROVE  /\ OwedBy(b) \in Nat
               /\ OwedBy(b)' <= OwedBy(b) + (IF b = r.actor THEN DebtOf(r) ELSE 0)
               /\ OwedBy(b)' \in Int
    <2> DEFINE f == [i \in DOMAIN incidents |-> OwedTo(i, b)]
               g == [i \in DOMAIN incidents' |-> OwedTo(i, b)']
    <2>1. /\ OwedBy(b) = SumFunctionOnSet(f, DOMAIN incidents) /\ OwedBy(b) \in Nat
          /\ OwedBy(b)' = SumFunctionOnSet(g, DOMAIN incidents')
      BY <1>0, OwedAddsUp DEF OwedBy
    <2>2. \A i \in DOMAIN incidents : f[i] \in Int /\ g[i] = f[i]
      <3> TAKE i \in DOMAIN incidents
      <3>1. OwedTo(i, b) \in Nat
        BY <1>0, OwedAddsUp
      <3>2. OwedTo(i, b)' = OwedTo(i, b)
        BY <1>3 DEF OwedTo, Owed
      <3>3. i \in DOMAIN incidents'
        BY <1>3
      <3> QED BY <3>1, <3>2, <3>3
    <2>3. /\ g[n] = IF e.actor = b /\ e.victim # None THEN e.debt - e.paid ELSE 0
          /\ g[n] \in Nat /\ g[n] <= (IF b = r.actor THEN DebtOf(r) ELSE 0)
      <3>1. g[n] = IF e.actor = b /\ e.victim # None THEN e.debt - e.paid ELSE 0
        BY <1>3 DEF OwedTo, Owed
      <3> HIDE DEF g
      <3> QED BY <1>1, <3>1
    <2> HIDE DEF f, g
    <2>4. g[Len(incidents) + 1] \in Int
      BY <2>3 DEF n
    <2>5. SumFunctionOnSet(g, DOMAIN incidents') =
            SumFunctionOnSet(f, DOMAIN incidents) + g[n]
      <3>1. SumFunctionOnSet(g, DOMAIN incidents') =
              SumFunctionOnSet(f, DOMAIN incidents) + g[Len(incidents) + 1]
        BY <1>0, <1>1, <1>2, <2>2, <2>4, RowAdds
      <3> QED BY <3>1 DEF n
    <2> QED BY <1>1, <2>1, <2>3, <2>5
  <1>6. OneCheck'
    BY <1>2 DEF WholeInv, OneCheck, At
  <1>7. ASSUME NEW b \in Actors
        PROVE  /\ flags'[b].debt >= OwedBy(b)'
               /\ \A p \in Repays : At(p, "checked")' /\ repays'[p].actor = b
                                => repays'[p].amount <= flags'[b].debt
    <2>1. flags[b].debt >= OwedBy(b)
      BY DEF WholeInv, DebtCovers
    <2>2. PICK d \in Nat : d = IF b = r.actor THEN DebtOf(r) ELSE 0
      BY <1>1
    <2>3. flags'[b].debt = flags[b].debt + d /\ OwedBy(b)' <= OwedBy(b) + d
      BY <1>4, <1>5, <2>2
    <2>4. flags'[b].debt >= OwedBy(b)' /\ flags'[b].debt >= flags[b].debt
      BY <1>4, <1>5, <2>1, <2>2, <2>3
    <2>5. ASSUME NEW p \in Repays, At(p, "checked"), repays[p].actor = b
          PROVE  repays[p].amount <= flags'[b].debt
      <3>1. repays[p].amount <= flags[b].debt
        BY <2>5 DEF WholeInv, DebtCovers
      <3>2. repays[p].amount \in Nat
        BY <1>0, <2>5, CallAt, CallFields
      <3>3. flags'[b].debt \in Int
        BY <1>4, <2>2, <2>3
      <3> QED BY <1>4, <2>4, <3>1, <3>2, <3>3
    <2> QED BY <1>2, <2>4, <2>5 DEF At
  <1>8. DebtCovers'
    BY <1>7 DEF DebtCovers
  <1> QED BY <1>6, <1>8 DEF WholeInv

\* A checked call takes its amount off the debt, and what is owed falls by as much or
\* to nothing.
LEMMA WholeAllocates ==
    ASSUME WholeInv, ReceiveInv', NEW p \in Repays, Allocate(p)
    PROVE  WholeInv'
  <1>0. TypeOK /\ NeverOverpaid /\ TypeOK' /\ NeverOverpaid'
    BY DEF WholeInv, ReceiveInv
  <1> DEFINE a == repays[p].actor
             x == repays[p].amount
             plan == PlanFor(Served(a, x), a, x)
             c == [repays[p] EXCEPT !.step = "allocated", !.unallocated = x - AmountOf(plan),
                                    !.payouts = plan]
  <1>1. /\ flags' = [flags EXCEPT ![a].debt = @ - x] /\ incidents' = MarkPaid(a, x)
        /\ repays' = [repays EXCEPT ![p] = c] /\ At(p, "checked")
    BY AllocatePlan
  <1>2. repays[p] \in Call /\ a \in Actors /\ x \in Nat
    BY <1>0, <1>1, CallAt, CallFields
  <1>3. c.step = "allocated" \/ c.step # "allocated"
    OBVIOUS
  <1>4. c.step # "checked"
    BY <1>2 DEF Call
  <1> HIDE DEF c, plan
  <1>5. repays'[p] = c /\ \A q \in Repays \ {p} : repays'[q] = repays[q]
    <2>1. repays = [q \in Repays |-> repays[q]]
      BY <1>0 DEF TypeOK
    <2> QED BY <1>1, <2>1
  <1>6. \A q \in Repays : At(q, "checked")' => q # p /\ At(q, "checked") /\ repays'[q] = repays[q]
    BY <1>4, <1>5 DEF At
  <1>7. \A q \in Repays : At(q, "checked")' => repays[q].actor # a
    BY <1>1, <1>6 DEF WholeInv, OneCheck
  <1>8. OneCheck'
    BY <1>6 DEF WholeInv, OneCheck
  <1> HIDE DEF a, x
  <1>9. ASSUME NEW b \in Actors
        PROVE  /\ flags[b].debt \in Int
               /\ flags'[b].debt = flags[b].debt - (IF b = a THEN x ELSE 0)
    <2>1. flags \in [Actors -> Flags] /\ flags[b] \in Flags /\ flags[b].debt \in Int
      BY <1>0 DEF TypeOK, Flags
    <2>2. CASE b = a
      <3>1. flags'[b] = [flags[b] EXCEPT !.debt = @ - x]
        BY <1>1, <2>1, <2>2
      <3>2. [flags[b] EXCEPT !.debt = @ - x].debt = flags[b].debt - x
        BY <2>1 DEF Flags
      <3> QED BY <2>1, <2>2, <3>1, <3>2
    <2>3. CASE b # a
      <3>1. flags'[b] = flags[b]
        BY <1>1, <2>1, <2>3
      <3> QED BY <2>1, <2>3, <3>1
    <2> QED BY <2>2, <2>3
  <1>10. /\ DOMAIN incidents' = DOMAIN incidents
         /\ \A i \in DOMAIN incidents :
              /\ incidents'[i].actor = incidents[i].actor
              /\ incidents'[i].victim = incidents[i].victim
              /\ Owed(i)' = Owed(i) - Gets(i, a, x)
    BY <1>0, <1>1, <1>2, Marked
  <1>11. \A i \in DOMAIN incidents : Owed(i) \in Nat /\ Gets(i, a, x) \in Nat
    BY <1>0, <1>2, OwedNat, GetsNat
  <1>12. ASSUME NEW b \in Actors
         PROVE  /\ OwedBy(b) \in Nat
                /\ OwedBy(b)' = OwedBy(b) - (IF b = a THEN MinOf(OwedBy(b), x) ELSE 0)
    <2> DEFINE D == DOMAIN incidents
               f == [i \in D |-> OwedTo(i, b)']
               g == [i \in D |-> IF b = a THEN Gets(i, a, x) ELSE 0]
               h == [i \in D |-> OwedTo(i, b)]
               k == [i \in D |-> Gets(i, a, x)]
    <2>1. /\ OwedBy(b) = SumFunctionOnSet(h, D) /\ OwedBy(b) \in Nat
          /\ OwedBy(b)' = SumFunctionOnSet(f, D)
          /\ OwedBy(b) = OwedOn(Attributable(b)) /\ IsFiniteSet(D)
      BY <1>0, <1>10, OwedAddsUp, Rows DEF OwedBy
    <2>2. \A i \in D : f[i] \in Int /\ g[i] \in Int /\ h[i] = f[i] + g[i]
      <3> TAKE i \in D
      <3>1. Owed(i) \in Nat /\ Gets(i, a, x) \in Nat /\ Owed(i)' = Owed(i) - Gets(i, a, x)
        BY <1>10, <1>11
      <3>2. f[i] = IF incidents[i].actor = b /\ incidents[i].victim # None
                   THEN Owed(i) - Gets(i, a, x) ELSE 0
        BY <1>10, <3>1 DEF OwedTo
      <3>3. h[i] = IF incidents[i].actor = b /\ incidents[i].victim # None
                   THEN Owed(i) ELSE 0
        BY DEF OwedTo
      <3>4. ~(incidents[i].actor = a /\ incidents[i].victim # None) => Gets(i, a, x) = 0
        BY DEF Gets, Attributable
      <3>5. g[i] = IF b = a THEN Gets(i, a, x) ELSE 0
        OBVIOUS
      <3> HIDE DEF f, g, h
      <3> QED BY <3>1, <3>2, <3>3, <3>4, <3>5
    <2>3. SumFunctionOnSet(k, D) = MinOf(OwedOn(Attributable(a)), x)
      BY <1>0, <1>2, GetsAddUp
    <2>4. b = a => \A i \in D : g[i] = k[i]
      OBVIOUS
    <2>5. b # a => \A i \in D : g[i] = 0
      OBVIOUS
    <2>a. IsFiniteSet(D)
      BY <2>1
    <2>b. \A i \in D : f[i] \in Int /\ g[i] \in Int
      BY <2>2
    <2> HIDE DEF D, f, g, h, k
    <2>6. SumFunctionOnSet(h, D) = SumFunctionOnSet(f, D) + SumFunctionOnSet(g, D)
      BY <2>a, <2>2, SumPlus
    <2>7. SumFunctionOnSet(f, D) \in Int /\ SumFunctionOnSet(g, D) \in Int
      BY <2>a, <2>b, SumInt
    <2>8. SumFunctionOnSet(g, D) = IF b = a THEN MinOf(OwedBy(b), x) ELSE 0
      <3>1. CASE b = a
        <4>1. SumFunctionOnSet(g, D) = SumFunctionOnSet(k, D)
          BY <2>1, <2>4, <3>1, SumEqual
        <4> QED BY <2>1, <2>3, <3>1, <4>1
      <3>2. CASE b # a
        <4>1. SumFunctionOnSet(g, D) = 0
          BY <2>1, <2>5, <3>2, SumZero
        <4> QED BY <3>2, <4>1
      <3> QED BY <3>1, <3>2
    <2>9. OwedBy(b)' = OwedBy(b) - SumFunctionOnSet(g, D)
      <3>1. PICK F \in Int : F = SumFunctionOnSet(f, D)
        BY <2>7
      <3>2. PICK G \in Int : G = SumFunctionOnSet(g, D)
        BY <2>7
      <3>3. OwedBy(b)' = F /\ OwedBy(b) = F + G
        BY <2>1, <2>6, <3>1, <3>2
      <3>4. F = (F + G) - G
        OBVIOUS
      <3>5. OwedBy(b)' = OwedBy(b) - G
        BY <3>3, <3>4
      <3> QED BY <3>2, <3>5
    <2> QED BY <2>1, <2>8, <2>9
  <1>13. ASSUME NEW b \in Actors
         PROVE  /\ flags'[b].debt >= OwedBy(b)'
                /\ \A q \in Repays : At(q, "checked")' /\ repays'[q].actor = b
                                => repays'[q].amount <= flags'[b].debt
    <2>1. flags[b].debt >= OwedBy(b)
      BY DEF WholeInv, DebtCovers
    <2>2. b = a => x <= flags[b].debt
      BY <1>1 DEF WholeInv, DebtCovers, a, x
    <2>3. flags'[b].debt >= OwedBy(b)'
      <3>1. CASE b = a
        <4>1. flags'[b].debt = flags[b].debt - x /\ OwedBy(b)' = OwedBy(b) - MinOf(OwedBy(b), x)
              /\ OwedBy(b) \in Nat /\ flags[b].debt \in Int
          BY <1>9, <1>12, <3>1
        <4> QED BY <1>2, <2>1, <2>2, <3>1, <4>1 DEF MinOf
      <3>2. CASE b # a
        <4>1. flags'[b].debt = flags[b].debt - 0 /\ OwedBy(b)' = OwedBy(b) - 0
              /\ OwedBy(b) \in Nat /\ flags[b].debt \in Int
          BY <1>9, <1>12, <3>2
        <4> QED BY <2>1, <4>1
      <3> QED BY <3>1, <3>2
    <2>4. ASSUME NEW q \in Repays, At(q, "checked")', repays'[q].actor = b
          PROVE  repays'[q].amount <= flags'[b].debt
      <3>1. At(q, "checked") /\ repays'[q] = repays[q] /\ repays[q].actor # a
        BY <1>6, <1>7, <2>4
      <3>2. b # a /\ repays[q].amount <= flags[b].debt
        BY <2>4, <3>1 DEF WholeInv, DebtCovers
      <3>3. flags'[b].debt = flags[b].debt
        BY <1>9, <3>2
      <3> QED BY <3>1, <3>2, <3>3
    <2> QED BY <2>3, <2>4
  <1>14. DebtCovers'
    BY <1>13 DEF DebtCovers
  <1> QED BY <1>8, <1>14 DEF WholeInv

LEMMA WholeInit == Init => WholeInv
  <1> SUFFICES ASSUME Init PROVE WholeInv
    OBVIOUS
  <1>1. ReceiveInv
    BY ReceiveInit
  <1>2. \A p \in Repays : ~At(p, "checked")
    BY DEF Init, At
  <1>3. \A a \in Actors : flags[a].debt = 0
    BY DEF Init, Clean
  <1>4. \A a : OwedBy(a) = 0
    <2>1. DOMAIN incidents = {}
      BY DEF Init
    <2> QED BY <2>1, SumEmpty DEF OwedBy
  <1>5. DebtCovers
    BY <1>2, <1>3, <1>4 DEF DebtCovers
  <1> QED BY <1>1, <1>2, <1>5 DEF WholeInv, OneCheck

\* A call is checked when no other call of the actor is.
LEMMA WholeChecks ==
    ASSUME WholeInv, ReceiveInv', NEW p \in Repays, At(p, "paid"), CheckDebt(p),
           \A q \in Repays : At(q, "checked") => repays[q].actor # repays[p].actor
    PROVE  WholeInv'
  <1>0. TypeOK /\ repays[p] \in Call
    BY CallAt DEF WholeInv, ReceiveInv
  <1> DEFINE a == repays[p].actor
             x == repays[p].amount
             s == IF flags[a].debt > 0 /\ x <= flags[a].debt THEN "checked" ELSE "refused"
             c == [repays[p] EXCEPT !.step = s]
  <1>1. repays' = [repays EXCEPT ![p] = c] /\ UNCHANGED <<incidents, flags>>
    BY DEF CheckDebt, books
  <1>2. c.step = s /\ c.actor = a /\ c.amount = x
    BY <1>0 DEF Call
  <1>3. repays'[p] = c /\ \A q \in Repays \ {p} : repays'[q] = repays[q]
    <2>1. repays = [q \in Repays |-> repays[q]]
      BY <1>0 DEF TypeOK
    <2> HIDE DEF c
    <2> QED BY <1>1, <2>1
  <1>4. c.step = "checked" => x <= flags[a].debt
    BY <1>2
  <1> HIDE DEF c, s, a, x
  <1>5. \A q \in Repays : At(q, "checked")' =>
            \/ q = p /\ repays'[q] = c /\ c.step = "checked"
            \/ q # p /\ At(q, "checked") /\ repays'[q] = repays[q] /\ repays[q].actor # a
    BY <1>3 DEF At, a
  <1>6. OneCheck'
    <2>1. ASSUME NEW q \in Repays, NEW r \in Repays, At(q, "checked")', At(r, "checked")',
                 repays'[q].actor = repays'[r].actor
          PROVE  q = r
      <3>1. CASE q = p
        BY <1>2, <1>5, <2>1, <3>1
      <3>2. CASE q # p /\ r = p
        BY <1>2, <1>5, <2>1, <3>2
      <3>3. CASE q # p /\ r # p
        BY <1>5, <2>1, <3>3 DEF WholeInv, OneCheck
      <3> QED BY <3>1, <3>2, <3>3
    <2> QED BY <2>1 DEF OneCheck
  <1>7. \A b : OwedBy(b)' = OwedBy(b)
    BY <1>1 DEF OwedBy, OwedTo, Owed
  <1>8. DebtCovers'
    <2>1. ASSUME NEW b \in Actors, NEW q \in Repays, At(q, "checked")', repays'[q].actor = b
          PROVE  repays'[q].amount <= flags[b].debt
      <3>1. CASE q = p
        BY <1>2, <1>4, <1>5, <2>1, <3>1
      <3>2. CASE q # p
        BY <1>5, <2>1, <3>2 DEF WholeInv, DebtCovers
      <3> QED BY <3>1, <3>2
    <2>2. \A b \in Actors : flags'[b].debt >= OwedBy(b)'
      BY <1>1, <1>7 DEF WholeInv, DebtCovers
    <2>3. flags' = flags
      BY <1>1
    <2> QED BY <2>1, <2>2, <2>3 DEF DebtCovers
  <1> QED BY <1>6, <1>8 DEF WholeInv

LEMMA SerialIsNext == [SerialNext]_vars => [Next]_vars
  BY DEF SerialNext, Next

LEMMA WholeStep == WholeInv /\ [SerialNext]_vars => WholeInv'
  <1> SUFFICES ASSUME WholeInv, [SerialNext]_vars PROVE WholeInv'
    OBVIOUS
  <1>0. TypeOK
    BY DEF WholeInv, ReceiveInv
  <1>r. ReceiveInv'
    BY SerialIsNext, ReceiveStep DEF WholeInv
  <1>c. ASSUME NEW p \in Repays, NEW c, repays' = [repays EXCEPT ![p] = c],
               c = None \/ c.step # "checked", UNCHANGED <<incidents, flags>>
        PROVE  WholeInv'
    <2>1. repays = [q \in Repays |-> repays[q]]
      BY <1>0 DEF TypeOK
    <2>2. \A q \in Repays : repays'[q] = repays[q] \/ ~At(q, "checked")'
      BY <1>c, <2>1 DEF At
    <2> QED BY <1>r, <1>c, <2>2, WholeKept
  <1>1. CASE \/ \E a \in Actors : \E v \in Actors \cup {None} : \E tier \in Tiers :
                  \E value \in Values : \E slashed \in 0 .. value :
                    ReportIncident(a, v, tier, value, slashed)
             \/ \E r \in reports : StopReport(r)
             \/ Tick
             \/ UNCHANGED vars
    <2>1. UNCHANGED <<incidents, flags, repays>>
      BY <1>1 DEF ReportIncident, StopReport, Tick, vars, books
    <2> QED BY <1>r, <2>1, WholeKept
  <1>2. CASE \E r \in reports : RecordIncident(r)
    BY <1>r, <1>2, WholeRecords
  <1>3. ASSUME NEW p \in Repays, NEW a \in Actors, NEW x \in Amounts, PayIn(p, a, x)
        PROVE  WholeInv'
    <2> DEFINE c == [step |-> "paid", actor |-> a, amount |-> x, unallocated |-> 0,
                     payouts |-> {}]
    <2>1. repays' = [repays EXCEPT ![p] = c] /\ UNCHANGED <<incidents, flags>>
      BY <1>3 DEF PayIn, books
    <2>2. c.step # "checked"
      OBVIOUS
    <2> HIDE DEF c
    <2> QED BY <1>c, <2>1, <2>2
  <1>4. CASE \E p \in Repays :
                /\ At(p, "paid")
                /\ \A q \in Repays : At(q, "checked") => repays[q].actor # repays[p].actor
                /\ CheckDebt(p)
    BY <1>r, <1>4, WholeChecks
  <1>5. CASE \E p \in Repays : Allocate(p)
    BY <1>r, <1>5, WholeAllocates
  <1>6. ASSUME NEW p \in Repays, PayOut(p) PROVE WholeInv'
    <2>1. repays[p] \in Call /\ repays[p].step = "allocated"
      BY <1>0, <1>6, CallAt DEF PayOut
    <2>2. PICK o : repays' = [repays EXCEPT ![p] = [repays[p] EXCEPT !.payouts = @ \ {o}]]
      BY <1>6 DEF PayOut
    <2>3. [repays[p] EXCEPT !.payouts = @ \ {o}].step # "checked"
      BY <2>1, CallPays
    <2>4. UNCHANGED <<incidents, flags>>
      BY <1>6 DEF PayOut, books
    <2> QED BY <1>c, <2>2, <2>3, <2>4
  <1>7. ASSUME NEW p \in Repays, StopRepay(p) PROVE WholeInv'
    <2>1. repays[p] \in Call
      BY <1>0, <1>7, CallAt DEF StopRepay
    <2>2. PICK s \in {"lost", "unpaid"} :
             repays' = [repays EXCEPT ![p] = [repays[p] EXCEPT !.step = s]]
      BY <1>7 DEF StopRepay
    <2>3. [repays[p] EXCEPT !.step = s].step # "checked"
      BY <2>1, <2>2 DEF Call
    <2>4. UNCHANGED <<incidents, flags>>
      BY <1>7 DEF StopRepay, books
    <2> QED BY <1>c, <2>2, <2>3, <2>4
  <1> QED BY <1>1, <1>2, <1>3, <1>4, <1>5, <1>6, <1>7 DEF SerialNext, Classify, Settle

LEMMA WholeHolds == WholeInv => MadeWhole
  <1> SUFFICES ASSUME WholeInv, NEW a \in Actors, Eligible(a), NEW i \in Attributable(a)
               PROVE  FALSE
    BY DEF MadeWhole
  <1>1. TypeOK /\ NeverOverpaid
    BY DEF WholeInv, ReceiveInv
  <1>2. OwedBy(a) \in Nat /\ Owed(i) <= OwedBy(a)
    BY <1>1, OwedAddsUp
  <1>3. Owed(i) > 0 /\ Owed(i) \in Nat
    BY <1>1, OwedNat DEF Attributable
  <1>4. flags[a].debt <= 0 /\ flags[a].debt >= OwedBy(a) /\ flags[a].debt \in Int
    BY <1>1 DEF Eligible, WholeInv, DebtCovers, TypeOK, Flags
  <1> QED BY <1>2, <1>3, <1>4

\* An actor the gate lets back in has paid every incident somebody can be paid for
\* (check_eligible against apply_repayment's shares), when the checks of one actor's
\* debt come one at a time.
THEOREM PaidIsWhole == SerialSpec => []MadeWhole
  <1>1. Init => WholeInv
    BY WholeInit
  <1>2. WholeInv /\ [SerialNext]_vars => WholeInv'
    BY WholeStep
  <1>3. WholeInv => MadeWhole
    BY WholeHolds
  <1> HIDE DEF WholeInv, MadeWhole, Init, SerialNext, vars
  <1> QED BY <1>1, <1>2, <1>3, PTL DEF SerialSpec

\* What holds however calls interleave holds when checks come one at a time.
THEOREM SerialVictimsAreSafe == SerialSpec => []VictimsReceive
  <1>1. SerialSpec => Spec
    <2>1. [SerialNext]_vars => [Next]_vars
      BY SerialIsNext
    <2> HIDE DEF Init, SerialNext, Next, vars
    <2> QED BY <2>1, PTL DEF SerialSpec, Spec
  <1> QED BY <1>1, VictimsAreSafe, PTL

=============================================================================
