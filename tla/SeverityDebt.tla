---------------------------- MODULE SeverityDebt ----------------------------
(***************************************************************************)
(* What a slashed actor owes, who it owes it to, and who may work again.   *)
(*                                                                         *)
(* Sources: hexis_severity.py (record_incident, check_eligible,            *)
(* apply_repayment and the /severity/repay route), and of hexis_stake.py   *)
(* transfer, which moves the money between the two.                        *)
(*                                                                         *)
(* The routes run on a thread pool and every step below is one statement   *)
(* or one transaction: record_incident counts the prior incidents before   *)
(* its first INSERT opens a transaction, apply_repayment reads the debt    *)
(* before its first UPDATE opens one, and the transfers before and after   *)
(* it are transactions of their own.                                       *)
(***************************************************************************)
EXTENDS Integers, Sequences, FiniteSets, Functions

CONSTANTS
    Actors,
    None,                 \* no victim_id, no call
    Repays,               \* calls of /severity/repay
    MaxReports,           \* bound on the calls of record_incident
    Values,               \* job values
    Amounts,              \* amounts a repayment may name
    Funds,                \* escrow of every actor at the start
    DamageMult,           \* damage_mult_t1..t4
    Quarantine,           \* quarantine_h_s1..s4, -1 for the blacklist
    DebtFrom,             \* debt_from_severity
    RecurrenceThreshold,
    RecurrenceWindow,
    MaxTime               \* bound: the clock stops here

Tiers == 1..4

Payout == [incident : Nat, to : Actors, amount : Nat]
Call == [step : {"paid", "checked", "refused", "lost", "allocated", "unpaid"},
         actor : Actors, amount : Amounts, unallocated : Nat, payouts : SUBSET Payout]

ASSUME SeverityAssumption ==
    /\ None \notin Actors
    /\ IsFiniteSet(Repays)
    /\ None \notin Call
    /\ Values \subseteq Nat /\ Amounts \subseteq Nat \ {0}
    /\ DamageMult \in [Tiers -> Nat]
    /\ Quarantine \in [Tiers -> Nat \cup {-1}]
    /\ {Funds, DebtFrom, RecurrenceThreshold, RecurrenceWindow,
        MaxReports, MaxTime} \subseteq Nat

VARIABLES
    now,
    incidents,    \* the incidents table, in the order the rows were inserted
    flags,        \* actor_flags; an actor without a row has Clean
    reports,      \* classifications under way: the incident and what was counted
    reported,     \* classifications so far
    escrow,       \* escrow balances
    reserve,      \* the SEVERITY_RESERVE account
    repays        \* a repayment under way, then how it ended

books == <<incidents, flags>>
money == <<escrow, reserve>>
classifying == <<reports, reported>>
vars == <<now, books, classifying, money, repays>>

Incident == [actor : Actors, victim : Actors \cup {None}, severity : Tiers,
             debt : Nat, paid : Nat, ts : Nat]
Flags == [blacklisted : BOOLEAN, until : Nat, debt : Int]
Clean == [blacklisted |-> FALSE, until |-> 0, debt |-> 0]

Report == [actor : Actors, victim : Actors \cup {None}, tier : Tiers,
           uncovered : Nat, prior : Nat, ts : Nat, call : Nat]

Init ==
    /\ now = 0
    /\ incidents = <<>>
    /\ flags = [a \in Actors |-> Clean]
    /\ reports = {} /\ reported = 0
    /\ escrow = [a \in Actors |-> Funds]
    /\ reserve = 0
    /\ repays = [p \in Repays |-> None]

MaxOf(x, y) == IF x > y THEN x ELSE y
MinOf(x, y) == IF x < y THEN x ELSE y

-----------------------------------------------------------------------------
(* Classification *)

Prior(a) == Cardinality({i \in DOMAIN incidents :
                /\ incidents[i].actor = a
                /\ incidents[i].ts >= now - RecurrenceWindow})

\* A dispute or a failed audit reports an incident: the damage the slash leaves
\* uncovered is priced and the offender's recent incidents are counted.
ReportIncident(a, v, tier, value, slashed) ==
    /\ reported < MaxReports
    /\ a # v
    /\ reported' = reported + 1
    /\ reports' = reports \cup
         {[actor |-> a, victim |-> v, tier |-> tier,
           uncovered |-> MaxOf(0, value * DamageMult[tier] - slashed),
           prior |-> Prior(a), ts |-> now, call |-> reported]}
    /\ UNCHANGED <<now, books, money, repays>>

SeverityOf(r) == IF r.prior >= RecurrenceThreshold THEN MinOf(r.tier + 1, 4) ELSE r.tier
DebtOf(r) == IF SeverityOf(r) >= DebtFrom THEN r.uncovered ELSE 0
UntilOf(r) == LET q == Quarantine[SeverityOf(r)] IN IF q > 0 THEN r.ts + q ELSE 0

\* Mutant of Sanction: the latest incident decides.
SanctionLatest(f, r) ==
    [blacklisted |-> Quarantine[SeverityOf(r)] < 0,
     until |-> UntilOf(r),
     debt |-> f.debt + DebtOf(r)]

\* The flags after one more incident.
Sanction(f, r) ==
    [blacklisted |-> f.blacklisted \/ Quarantine[SeverityOf(r)] < 0,
     until |-> MaxOf(f.until, UntilOf(r)),
     debt |-> f.debt + DebtOf(r)]

RecordIncident(r) ==
    /\ incidents' = Append(incidents,
         [actor |-> r.actor, victim |-> r.victim, severity |-> SeverityOf(r),
          debt |-> DebtOf(r), paid |-> 0, ts |-> r.ts])
    /\ flags' = [flags EXCEPT ![r.actor] = Sanction(@, r)]
    /\ reports' = reports \ {r}
    /\ UNCHANGED <<now, reported, money, repays>>

\* check_eligible: what stake's lock asks of both parties.
Eligible(a) ==
    /\ ~flags[a].blacklisted
    /\ flags[a].until <= now
    /\ flags[a].debt <= 0

-----------------------------------------------------------------------------
(* Repayment *)

\* _debit: an account never goes below zero.
Covered(a, x) == escrow[a] >= x

\* The route first moves the money into the reserve.
PayIn(p, a, x) ==
    /\ repays[p] = None
    /\ Covered(a, x)
    /\ escrow' = [escrow EXCEPT ![a] = @ - x]
    /\ reserve' = reserve + x
    /\ repays' = [repays EXCEPT ![p] =
         [step |-> "paid", actor |-> a, amount |-> x, unallocated |-> 0, payouts |-> {}]]
    /\ UNCHANGED <<now, books, classifying>>

At(p, step) == repays[p] # None /\ repays[p].step = step

\* Then the debt is read: too small a debt refuses the call, and the money stays.
CheckDebt(p) ==
    /\ At(p, "paid")
    /\ LET d  == flags[repays[p].actor].debt
           ok == d > 0 /\ repays[p].amount <= d
       IN  repays' = [repays EXCEPT ![p].step = IF ok THEN "checked" ELSE "refused"]
    /\ UNCHANGED <<now, books, classifying, money>>

\* What is left to pay of an incident.
Owed(i) == incidents[i].debt - incidents[i].paid

Older(i, j) == \/ incidents[i].ts < incidents[j].ts
               \/ incidents[i].ts = incidents[j].ts /\ i < j

\* The incidents of an actor that are owed to somebody.
Attributable(a) ==
    {i \in DOMAIN incidents : /\ incidents[i].actor = a
                              /\ Owed(i) > 0
                              /\ incidents[i].victim # None}

\* What is owed on some incidents.
OwedOn(S) == SumFunctionOnSet([i \in S |-> Owed(i)], S)

\* Mutant of Share: the loop stops at an incident nobody can be paid for.
ShareUntilOrphan(i, a, x) ==
    LET older == {j \in DOMAIN incidents : incidents[j].actor = a /\ Owed(j) > 0 /\ Older(j, i)}
    IN  IF \E j \in older : incidents[j].victim = None
        THEN 0
        ELSE MinOf(Owed(i), MaxOf(0, x - OwedOn(older)))

\* The oldest incident is paid first, up to what is owed, while the amount lasts.
Share(i, a, x) ==
    MinOf(Owed(i), MaxOf(0, x - OwedOn({j \in Attributable(a) : Older(j, i)})))

\* Mutant of MarkPaid: the incidents do not learn what was paid.
MarkNothing(a, x) == incidents

\* The incidents once x is shared out.
MarkPaid(a, x) ==
    [i \in DOMAIN incidents |->
        IF i \in Attributable(a)
        THEN [incidents[i] EXCEPT !.paid = @ + Share(i, a, x)]
        ELSE incidents[i]]

\* What some payouts come to.
AmountOf(plan) == SumFunctionOnSet([o \in plan |-> o.amount], plan)

\* One transaction: the debt goes down and the amount is shared out.
Allocate(p) ==
    /\ At(p, "checked")
    /\ LET a    == repays[p].actor
           x    == repays[p].amount
           plan == {[incident |-> i, to |-> incidents[i].victim,
                     amount |-> Share(i, a, x)] :
                      i \in {j \in Attributable(a) : Share(j, a, x) > 0}}
       IN  /\ flags' = [flags EXCEPT ![a].debt = @ - x]
           /\ incidents' = MarkPaid(a, x)
           /\ repays' = [repays EXCEPT
                ![p] = [@ EXCEPT !.step = "allocated",
                                 !.unallocated = x - AmountOf(plan),
                                 !.payouts = plan]]
    /\ UNCHANGED <<now, classifying, money>>

\* The victims are paid out of the reserve one transfer at a time, oldest first.
PayOut(p) ==
    /\ At(p, "allocated")
    /\ \E o \in repays[p].payouts :
         /\ \A q \in repays[p].payouts \ {o} : Older(o.incident, q.incident)
         /\ reserve >= o.amount
         /\ reserve' = reserve - o.amount
         /\ escrow' = [escrow EXCEPT ![o.to] = @ + o.amount]
         /\ repays' = [repays EXCEPT ![p].payouts = @ \ {o}]
    /\ UNCHANGED <<now, books, classifying>>

\* The process dies or the database stays busy: a call stops where it is.
StopReport(r) ==
    /\ reports' = reports \ {r}
    /\ UNCHANGED <<now, books, reported, money, repays>>

StopRepay(p) ==
    /\ \/ /\ At(p, "paid") \/ At(p, "checked")
          /\ repays' = [repays EXCEPT ![p].step = "lost"]
       \/ /\ At(p, "allocated") /\ repays[p].payouts # {}
          /\ repays' = [repays EXCEPT ![p].step = "unpaid"]
    /\ UNCHANGED <<now, books, classifying, money>>

Tick ==
    /\ now < MaxTime
    /\ now' = now + 1
    /\ UNCHANGED <<books, classifying, money, repays>>

Classify ==
    \/ \E a \in Actors : \E v \in Actors \cup {None} : \E tier \in Tiers :
         \E value \in Values : \E slashed \in 0..value :
           ReportIncident(a, v, tier, value, slashed)
    \/ \E r \in reports : RecordIncident(r)
    \/ \E r \in reports : StopReport(r)

\* The steps of a repayment but its check.
Settle ==
    \/ \E p \in Repays : \E a \in Actors : \E x \in Amounts : PayIn(p, a, x)
    \/ \E p \in Repays : Allocate(p)
    \/ \E p \in Repays : PayOut(p)
    \/ \E p \in Repays : StopRepay(p)

Next ==
    \/ Classify
    \/ Settle
    \/ \E p \in Repays : CheckDebt(p)
    \/ Tick

Spec == Init /\ [][Next]_vars

\* An actor's repayments check its debt one at a time.
SerialNext ==
    \/ Classify
    \/ Settle
    \/ \E p \in Repays :
         /\ At(p, "paid")
         /\ \A q \in Repays : At(q, "checked") => repays[q].actor # repays[p].actor
         /\ CheckDebt(p)
    \/ Tick

SerialSpec == Init /\ [][SerialNext]_vars

-----------------------------------------------------------------------------
(* Properties *)

TypeOK ==
    /\ now \in Nat
    /\ incidents \in Seq(Incident)
    /\ flags \in [Actors -> Flags]
    /\ reports \subseteq Report
    /\ reported \in Nat
    /\ escrow \in [Actors -> Nat]
    /\ reserve \in Nat
    /\ repays \in [Repays -> Call \cup {None}]

\* What a call still plans to pay out.
Planned(p) == IF At(p, "allocated") THEN AmountOf(repays[p].payouts) ELSE 0

\* However calls interleave, the reserve can pay every payout that is planned: no
\* plan spends what another repayment brought.
ReserveCovers ==
    TypeOK /\ reserve >= SumFunctionOnSet([p \in Repays |-> Planned(p)], Repays)

\* What an actor brought, what the incidents say a victim was paid, and what of it
\* has not reached the victim, or never will.
Brought(p, a) == IF repays[p] # None /\ repays[p].actor = a THEN repays[p].amount ELSE 0
PaidBy(a) == SumFunctionOnSet([p \in Repays |-> Brought(p, a)], Repays)
PaidOn(i, v) == IF incidents[i].victim = v THEN incidents[i].paid ELSE 0
PaidFor(v) == SumFunctionOnSet([i \in DOMAIN incidents |-> PaidOn(i, v)], DOMAIN incidents)
PayoutsTo(p, v) == IF repays[p] = None THEN {} ELSE {o \in repays[p].payouts : o.to = v}
Undelivered(v) == SumFunctionOnSet([p \in Repays |-> AmountOf(PayoutsTo(p, v))], Repays)

\* No victim is paid more than its damage, however repayments interleave.
NeverOverpaid == \A i \in DOMAIN incidents : incidents[i].paid <= incidents[i].debt

\* What the incidents say a victim was paid is what its escrow received, except
\* for payouts that are still to be made or whose call was cut short; it is never
\* more than the damage, and the reserve covers what is still to be made.
VictimsReceive ==
    /\ ReserveCovers /\ NeverOverpaid
    /\ \A a \in Actors : escrow[a] = Funds - PaidBy(a) + PaidFor(a) - Undelivered(a)

\* An actor the gate lets back in has paid every incident somebody can be paid for.
MadeWhole == \A a \in Actors : Eligible(a) => Attributable(a) = {}

\* A later incident never shortens a quarantine and never lifts a blacklisting.
SanctionsOnlyGrow ==
    [][\A a \in Actors : /\ flags[a].blacklisted => flags'[a].blacklisted
                         /\ flags'[a].until >= flags[a].until]_vars
=============================================================================
