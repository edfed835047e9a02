--------------------------- MODULE JobEscrow_proofs ---------------------------
(***************************************************************************)
(* Theorems about JobEscrow for every finite set of actors, jobs and rows, *)
(* every set of offers and every value of the timing constants.            *)
(*                                                                         *)
(* Of the code as it stands (Spec): types, one open lock, consent, fees    *)
(* earned and the pair cap.  With every read of the sweep inside its       *)
(* transaction (SerialSpec): the exact ledger, the boot reconcile,         *)
(* conservation, slashes accounted, final payouts and the contract.        *)
(***************************************************************************)
EXTENDS JobEscrow, Sums_proofs, TLAPS

Legs == [ce : Int, we : Int, cl : Int, wl : Int, burn : Nat]

MoneyOK ==
    /\ escrow \in [Actors -> Nat]
    /\ bookEscrow \in [Actors -> Int]
    /\ bookLocked \in [Jobs -> [Actors -> Int]]
    /\ bookIssued \in Nat
    /\ bookBurned \in Nat

\* Terms that were ever proposed are between two different parties.
TermsDistinct ==
    \A j \in Jobs : terms[j].status # "none" => terms[j].offer.c # terms[j].offer.w

\* The pair a sweep holds from before its transaction is a pair that exists.
SweepHoldsPair ==
    sweep.pc = "read" => sweep.row \in RowIds /\ pairs[sweep.row].cs # "none"

\* The inductive invariant of the code as it stands.
StructureInv ==
    /\ TypeOK
    /\ TermsDistinct
    /\ LockedOnConsent
    /\ OneOpenLock
    /\ SweepHoldsPair

-----------------------------------------------------------------------------
\* An offer is between actors and its amounts are natural numbers.
LEMMA OfferFields ==
    ASSUME NEW o \in Offers
    PROVE  /\ o.c \in Actors /\ o.w \in Actors
           /\ o.ca \in Nat /\ o.wa \in Nat /\ o.fee \in Nat
BY OffersAssumption

\* An operation that overdraws nobody keeps every account a natural number.
LEMMA PostTyped ==
    ASSUME MoneyOK, NEW j \in Jobs, NEW o \in Offers, o.c # o.w,
           NEW legs \in Legs, Post(j, o, legs),
           escrow[o.c] + legs.ce >= 0, escrow[o.w] + legs.we >= 0
    PROVE  MoneyOK'
<1> USE OfferFields DEF MoneyOK, Legs, Post
<1>1. escrow' \in [Actors -> Nat] /\ bookEscrow' \in [Actors -> Int]
  OBVIOUS
<1>2. bookLocked' \in [Jobs -> [Actors -> Int]]
  OBVIOUS
<1>3. bookIssued' \in Nat /\ bookBurned' \in Nat
  OBVIOUS
<1> QED BY <1>1, <1>2, <1>3

\* The legs of every way to end a lock pay natural amounts.
LEMMA LegsTyped ==
    ASSUME NEW o \in Offers, NEW side \in Sides
    PROVE  \A l \in {SettleLegs(o), RefundLegs(o), SlashLegs(o, side)} :
              l \in Legs /\ l.ce >= 0 /\ l.we >= 0
BY OfferFields DEF Legs, SettleLegs, RefundLegs, SlashLegs

\* A row that exists was made for a job, from its accepted terms.
LEMMA PairFields ==
    ASSUME TypeOK, NEW r \in RowIds, pairs[r].cs # "none"
    PROVE  pairs[r] \in Pair /\ pairs[r].job \in Jobs /\ pairs[r].offer \in Offers
BY DEF TypeOK, Pair, NoPair

\* Ending a lock keeps the accounts and the rows well typed.
LEMMA CloseTyped ==
    ASSUME TypeOK, LockedOnConsent, NEW r \in RowIds, pairs[r].cs # "none",
           NEW cs \in Statuses \ {"none"}, NEW ws \in Statuses \ {"none"},
           NEW feeTo \in Sides, NEW legs \in Legs, legs.ce >= 0, legs.we >= 0,
           Close(r, cs, ws, feeTo, legs)
    PROVE  MoneyOK' /\ pairs' \in [RowIds -> Pair \cup {NoPair}]
<1>1. pairs[r] \in Pair /\ pairs[r].job \in Jobs /\ pairs[r].offer \in Offers
  BY PairFields
<1>2. pairs[r].offer.c # pairs[r].offer.w
  BY DEF LockedOnConsent
<1>3. MoneyOK'
  <2>1. MoneyOK
    BY DEF MoneyOK, TypeOK
  <2>2. Post(pairs[r].job, pairs[r].offer, legs)
    BY DEF Close
  <2>3. /\ escrow[pairs[r].offer.c] + legs.ce >= 0
        /\ escrow[pairs[r].offer.w] + legs.we >= 0
    BY <1>1, OfferFields DEF TypeOK, Legs
  <2> QED BY <1>1, <1>2, <2>1, <2>2, <2>3, PostTyped
<1>4. [pairs[r] EXCEPT !.cs = cs, !.ws = ws, !.feeTo = feeTo] \in Pair
  BY <1>1 DEF Pair
<1>5. pairs' = [pairs EXCEPT ![r] = [pairs[r] EXCEPT !.cs = cs, !.ws = ws, !.feeTo = feeTo]]
  BY <1>1 DEF Close, TypeOK, Pair
<1> QED BY <1>3, <1>4, <1>5 DEF TypeOK

\* Where the expiry sweep may stand.
Sweeps == [pc : {"idle", "listed", "read", "open"}, jobs : SUBSET Jobs, row : RowIds \cup {None}]

\* The part of TypeOK that is neither money nor rows.
RestOK ==
    /\ now \in Nat
    /\ terms \in [Jobs -> Terms]
    /\ slashing \subseteq RowIds
    /\ slashLog \subseteq RowIds
    /\ jobMem \in [Jobs -> JobStates]
    /\ jobDb \in [Jobs -> JobStates]
    /\ queue \in Seq(Write)
    /\ completing \in [pc : {"checked", "mined"}, job : Jobs] \cup {Idle}
    /\ mined \in [Jobs -> Nat]
    /\ sweep \in Sweeps
    /\ up \in BOOLEAN
    /\ crashes \in Nat

PairsOK == pairs \in [RowIds -> Pair \cup {NoPair}]

\* What every way to end a lock has in common: two final statuses, somebody the
\* fee went to, legs that release exactly what the lock held and pay each party
\* what the contract says of that outcome.
Ends(r) ==
    \E cs, ws \in Statuses \ {"none", "locked"} :
    \E feeTo \in Sides : \E legs \in Legs : \E outcome \in Contract!Outcomes :
        /\ legs.ce >= 0 /\ legs.we >= 0
        /\ legs.cl = -(pairs[r].offer.ca + pairs[r].offer.fee)
        /\ legs.wl = -pairs[r].offer.wa
        /\ ~(cs = "slashed" /\ ws = "slashed")
        /\ legs.ce = Contract!ToConsumer(pairs[r].offer, outcome)
        /\ legs.we = Contract!ToWorker(pairs[r].offer, outcome)
        /\ outcome = CASE cs = "slashed" -> "consumer_faulted"
                       [] ws = "slashed" -> "worker_faulted"
                       [] OTHER -> IF feeTo = "worker" THEN "delivered" ELSE "unwound"
        /\ Close(r, cs, ws, feeTo, legs)

\* The six actions that end a lock all do.
LEMMA EndingActions ==
    ASSUME TypeOK, NEW r \in RowIds, pairs[r].cs # "none",
           \/ AbortUnstarted(r) \/ CompleteSettle(r) \/ Expire(r)
           \/ \E side \in Sides : DisputeSlash(r, side)
    PROVE  Ends(r)
<1> DEFINE o == pairs[r].offer
<1>1. o \in Offers
  BY PairFields
<1>2. \A side \in Sides : \A l \in {SettleLegs(o), RefundLegs(o), SlashLegs(o, side)} :
         l \in Legs /\ l.ce >= 0 /\ l.we >= 0 /\ l.cl = -(o.ca + o.fee) /\ l.wl = -o.wa
  <2>1. SUFFICES ASSUME NEW side \in Sides, NEW l \in {SettleLegs(o), RefundLegs(o), SlashLegs(o, side)}
                 PROVE  l.cl = -(o.ca + o.fee) /\ l.wl = -o.wa
    BY <1>1, LegsTyped
  <2> HIDE DEF o
  <2> QED BY <1>1 DEF SettleLegs, RefundLegs, SlashLegs
<1>3. /\ "consumer" \in Sides /\ "worker" \in Sides
      /\ {"released", "slashed", "aborted", "expired"} \subseteq Statuses \ {"none", "locked"}
      /\ {"delivered", "unwound", "consumer_faulted", "worker_faulted"} \subseteq Contract!Outcomes
  BY DEF Sides, Statuses, Contract!Outcomes
<1>4. /\ SettleLegs(o).ce = Contract!ToConsumer(o, "delivered")
      /\ SettleLegs(o).we = Contract!ToWorker(o, "delivered")
      /\ RefundLegs(o).ce = Contract!ToConsumer(o, "unwound")
      /\ RefundLegs(o).we = Contract!ToWorker(o, "unwound")
      /\ SlashLegs(o, "consumer").ce = Contract!ToConsumer(o, "consumer_faulted")
      /\ SlashLegs(o, "consumer").we = Contract!ToWorker(o, "consumer_faulted")
      /\ SlashLegs(o, "worker").ce = Contract!ToConsumer(o, "worker_faulted")
      /\ SlashLegs(o, "worker").we = Contract!ToWorker(o, "worker_faulted")
  BY DEF SettleLegs, RefundLegs, SlashLegs, Contract!ToConsumer, Contract!ToWorker
<1>5. ASSUME NEW cs \in {"released", "aborted", "expired"}, NEW ws \in {"released", "aborted", "expired"},
             \/ Close(r, cs, ws, "worker", SettleLegs(o))
             \/ Close(r, cs, ws, "consumer", RefundLegs(o))
      PROVE  Ends(r)
  <2>1. CASE Close(r, cs, ws, "worker", SettleLegs(o))
    BY <1>2, <1>3, <1>4, <1>5, <2>1 DEF Ends
  <2>2. CASE Close(r, cs, ws, "consumer", RefundLegs(o))
    BY <1>2, <1>3, <1>4, <1>5, <2>2 DEF Ends
  <2> QED BY <1>5, <2>1, <2>2
<1>6. CASE AbortUnstarted(r) \/ CompleteSettle(r) \/ Expire(r)
  BY <1>5, <1>6 DEF AbortUnstarted, CompleteSettle, Expire
<1>7. ASSUME NEW side \in Sides, DisputeSlash(r, side) PROVE Ends(r)
  <2>1. CASE side = "consumer"
    <3>1. Close(r, "slashed", "released", "worker", SlashLegs(o, "consumer"))
      BY <1>7, <2>1 DEF DisputeSlash
    <3> QED BY <1>2, <1>3, <1>4, <3>1 DEF Ends
  <2>2. CASE side = "worker"
    <3>1. Close(r, "released", "slashed", "consumer", SlashLegs(o, "worker"))
      BY <1>7, <2>2 DEF DisputeSlash
    <3> QED BY <1>2, <1>3, <1>4, <3>1 DEF Ends
  <2> QED BY <1>7, <2>1, <2>2 DEF Sides
<1> QED BY <1>6, <1>7

LEMMA EndsTyped ==
    ASSUME TypeOK, LockedOnConsent, NEW r \in RowIds, pairs[r].cs # "none", Ends(r)
    PROVE  MoneyOK' /\ PairsOK'
BY CloseTyped DEF Ends, PairsOK

\* A lock overdraws neither side: both debits are checked.
LEMMA LockTyped ==
    ASSUME TypeOK, TermsDistinct, NEW r \in RowIds, NEW j \in Jobs, NEW o \in Offers,
           NEW t, Lock(r, j, o, t)
    PROVE  MoneyOK' /\ PairsOK'
<1>1. o.c # o.w
  BY DEF Lock, AcceptedTerms, TermsDistinct
<1>2. MoneyOK
  BY DEF TypeOK, MoneyOK
<1>3. /\ LockLegs(o) \in Legs
      /\ escrow[o.c] + LockLegs(o).ce >= 0
      /\ escrow[o.w] + LockLegs(o).we >= 0
  <2>1. escrow[o.c] \in Nat /\ escrow[o.w] \in Nat
    BY OfferFields DEF TypeOK
  <2>2. escrow[o.c] >= o.ca + o.fee /\ escrow[o.w] >= o.wa
    BY DEF Lock, Funded
  <2> HIDE DEF Lock
  <2> QED BY <2>1, <2>2, OfferFields DEF LockLegs, Legs
<1>4. Post(j, o, LockLegs(o))
  BY DEF Lock
<1>5. MoneyOK'
  BY <1>1, <1>2, <1>3, <1>4, PostTyped
<1>6. PairsOK'
  <2> DEFINE new == [job |-> j, offer |-> o, cs |-> "locked", ws |-> "locked", at |-> t,
                     feeTo |-> "nobody"]
  <2>1. new \in Pair
    <3>1. t \in Nat
      BY DEF Lock, TypeOK
    <3> QED BY <3>1 DEF TypeOK, Pair, Statuses
  <2>2. pairs' = [pairs EXCEPT ![r] = new]
    BY DEF Lock
  <2> QED BY <2>1, <2>2 DEF PairsOK, TypeOK
<1> QED BY <1>5, <1>6

\* What a step does to the money, the rows and the terms.
Quiet == UNCHANGED <<moneyVars, pairs, terms>>
Banks ==
    \/ \E a \in Actors : \E n \in CreditAmounts : Credit(a, n) \/ FundEscrow(a, n)
    \/ \E a, b \in Actors : \E n \in TransferAmounts : Transfer(a, b, n)
Consents == \E j \in Jobs : \E o \in Offers : ProposeTerms(j, o) \/ AcceptTerms(j, o)
Locks == \E r \in RowIds : \E j \in Jobs : \E o \in Offers : \E t \in 0 .. now : Lock(r, j, o, t)
EndsOpen == \E r \in RowIds : Open(r) /\ Ends(r) /\ UNCHANGED terms
EndsRead == \E r \in RowIds : pairs[r].cs # "none" /\ Ends(r) /\ UNCHANGED terms

\* With every read inside its transaction, only an open lock ends.
LEMMA SerialKinds ==
    ASSUME TypeOK, [SerialNext]_vars
    PROVE  Quiet \/ Banks \/ Consents \/ Locks \/ EndsOpen
<1>1. ASSUME NEW r \in RowIds, Open(r), UNCHANGED terms,
             \/ AbortUnstarted(r) \/ CompleteSettle(r) \/ Expire(r)
             \/ \E side \in Sides : DisputeSlash(r, side)
      PROVE  EndsOpen
  <2>1. pairs[r].cs # "none"
    BY <1>1 DEF Open
  <2> QED BY <1>1, <2>1, EndingActions DEF EndsOpen
<1>2. CASE StakeNext
  <2>1. ASSUME NEW j \in Jobs, SweepExpire(j) PROVE EndsOpen
    <3>1. PICK r \in RowIds : Open(r) /\ Expire(r)
      BY <2>1 DEF SweepExpire, OpenOf
    <3>2. UNCHANGED terms
      BY <2>1 DEF SweepExpire
    <3> QED BY <1>1, <3>1, <3>2
  <2>2. ASSUME NEW r \in RowIds, \/ AbortUnstarted(r) \/ \E side \in Sides : DisputeSlash(r, side)
        PROVE  EndsOpen
    BY <1>1, <2>2 DEF AbortUnstarted, DisputeSlash
  <2>3. ASSUME SweepList \/ \E j \in Jobs : SweepSkip(j) PROVE Quiet
    BY <2>3 DEF SweepList, SweepSkip, Quiet, stakeVars
  <2> QED BY <1>2, <2>1, <2>2, <2>3
          DEF StakeNext, Quiet, Banks, Consents, Locks, LogSlash, LogSlashFailed
<1>3. CASE JobNext
  <2>1. ASSUME NEW r \in RowIds, CompleteSettle(r) PROVE Open(r) /\ UNCHANGED terms
    BY <2>1 DEF CompleteSettle, OpenOf, JobDone
  <2> QED BY <1>1, <1>3, <2>1
          DEF JobNext, Quiet, JobRequest, CompleteRefused, CompleteCheck, CompleteMine,
              CompleteUnsettled, JobDone, Flush, FlushLost, stakeVars
<1>4. CASE ProcessNext \/ UNCHANGED vars
  BY <1>4 DEF ProcessNext, Quiet, Crash, Boot, Tick, vars, stakeVars
<1> QED BY <1>2, <1>3, <1>4 DEF SerialNext

\* The code's own sweep may also end a lock that something else ended before.
LEMMA StepKinds ==
    ASSUME TypeOK, SweepHoldsPair, [Next]_vars
    PROVE  Quiet \/ Banks \/ Consents \/ Locks \/ EndsRead
<1>1. CASE [SerialNext]_vars
  <2>1. EndsOpen => EndsRead
    BY DEF EndsOpen, EndsRead, Open
  <2> QED BY <1>1, <2>1, SerialKinds
<1>2. CASE \E j \in Jobs : SweepReadFirst(j)
  BY <1>2 DEF SweepReadFirst, Quiet, stakeVars
<1>3. CASE SweepExpireFirst
  <2>1. sweep.row \in RowIds /\ pairs[sweep.row].cs # "none" /\ Expire(sweep.row)
    BY <1>3 DEF SweepExpireFirst, SweepHoldsPair
  <2>2. UNCHANGED terms
    BY <1>3 DEF SweepExpireFirst
  <2> QED BY <2>1, <2>2, EndingActions DEF EndsRead
<1> QED BY <1>1, <1>2, <1>3 DEF Next

\* The steps of the sweep, each of which leaves it in one of its places.
Sweeping ==
    \/ SweepList \/ SweepExpireFirst
    \/ \E j \in Jobs : SweepSkip(j) \/ SweepReadFirst(j) \/ SweepExpire(j)

LEMMA SweepTyped ==
    ASSUME sweep \in Sweeps, Sweeping
    PROVE  sweep' \in Sweeps
<1> USE DEF Sweeps
<1>1. Asleep \in Sweeps /\ StaleJobs \subseteq Jobs
  BY DEF Asleep, StaleJobs
<1>2. \A j, pc : pc \in {"listed", "open"} => SweptJob(j, pc) \in Sweeps
  BY <1>1 DEF SweptJob
<1>3. CASE SweepList
  BY <1>1, <1>3 DEF SweepList
<1>4. ASSUME NEW j \in Jobs, SweepSkip(j) \/ SweepExpire(j) PROVE sweep' \in Sweeps
  BY <1>2, <1>4 DEF SweepSkip, SweepExpire
<1>5. ASSUME NEW j \in Jobs, SweepReadFirst(j) PROVE sweep' \in Sweeps
  BY <1>5 DEF SweepReadFirst, OpenOf
<1>6. CASE SweepExpireFirst
  BY <1>2, <1>6 DEF SweepExpireFirst
<1> QED BY <1>3, <1>4, <1>5, <1>6 DEF Sweeping

\* Typing is preserved by every step of the code.
LEMMA TypeStep ==
    ASSUME StructureInv, [Next]_vars
    PROVE  TypeOK'
<1> USE DEF StructureInv
<1>0. TypeOK <=> MoneyOK /\ PairsOK /\ RestOK
  BY DEF TypeOK, MoneyOK, PairsOK, RestOK, Sweeps
<1>0p. TypeOK' <=> MoneyOK' /\ PairsOK' /\ RestOK'
  BY DEF TypeOK, MoneyOK, PairsOK, RestOK, Sweeps
<1>1. MoneyOK' /\ PairsOK'
  <2>1. CASE Quiet
    BY <2>1, <1>0 DEF Quiet, moneyVars, MoneyOK, PairsOK
  <2>2. CASE Banks
    BY <2>2, <1>0, OpeningAssumption DEF Banks, Credit, FundEscrow, Issue, Transfer,
                                         MoneyOK, PairsOK, stakeVars
  <2>3. CASE Consents
    BY <2>3, <1>0 DEF Consents, ProposeTerms, AcceptTerms, moneyVars, MoneyOK, PairsOK
  <2>4. CASE Locks
    BY <2>4, LockTyped DEF Locks
  <2>5. CASE EndsRead
    BY <2>5, EndsTyped DEF EndsRead
  <2> QED BY <2>1, <2>2, <2>3, <2>4, <2>5, StepKinds
<1>2. RestOK'
  <2> USE <1>0 DEF RestOK
  <2>1. ASSUME UNCHANGED <<now, terms, slashing, slashLog, jobVars, sweep, up, crashes>>
        PROVE  RestOK'
    BY <2>1 DEF jobVars
  <2>2. ASSUME NEW j \in Jobs, NEW o \in Offers, ProposeTerms(j, o) \/ AcceptTerms(j, o)
        PROVE  RestOK'
    <3>1. terms' \in [Jobs -> Terms]
      <4>1. CASE ProposeTerms(j, o)
        <5>1. [status |-> "proposed", offer |-> o, expiry |-> now + TermsTTL] \in Terms
          BY BoundsAssumption DEF Terms
        <5> QED BY <4>1, <5>1 DEF ProposeTerms
      <4>2. CASE AcceptTerms(j, o)
        <5>1. [terms[j] EXCEPT !.status = "accepted"] \in Terms
          BY DEF Terms
        <5>2. terms' = [terms EXCEPT ![j] = [terms[j] EXCEPT !.status = "accepted"]]
          BY <4>2 DEF AcceptTerms
        <5> QED BY <5>1, <5>2
      <4> QED BY <2>2, <4>1, <4>2
    <3> QED BY <2>2, <3>1 DEF ProposeTerms, AcceptTerms, jobVars
  <2>3. ASSUME NEW r \in RowIds,
               LogSlash(r) \/ LogSlashFailed(r) \/ \E side \in Sides : DisputeSlash(r, side)
        PROVE  RestOK'
    BY <2>3 DEF LogSlash, LogSlashFailed, DisputeSlash, jobVars, stakeVars
  <2>3s. ASSUME Sweeping PROVE RestOK'
    <3>1. UNCHANGED <<now, terms, slashing, slashLog, jobVars, up, crashes>>
      BY <2>3s DEF Sweeping, SweepList, SweepSkip, SweepReadFirst, SweepExpireFirst, SweepExpire,
                   stakeVars
    <3>2. sweep' \in Sweeps
      BY <2>3s, SweepTyped
    <3> QED BY <3>1, <3>2 DEF jobVars
  <2>4. ASSUME NEW j \in Jobs, NEW s \in JobStates PROVE Submitted(j, s) \in Seq(Write)
    <3>1. [job |-> j, status |-> s] \in Write
      BY <2>4 DEF Write
    <3> QED BY <3>1 DEF Submitted
  <2>5. ASSUME NEW j \in Jobs, JobRequest(j) \/ CompleteRefused(j) \/ CompleteCheck(j)
        PROVE  RestOK'
    <3>1. {"pending", "void"} \subseteq JobStates
      BY DEF JobStates
    <3>2. Submitted(j, "pending") \in Seq(Write) /\ Submitted(j, "void") \in Seq(Write)
      BY <3>1, <2>4
    <3>3. CASE JobRequest(j) \/ CompleteRefused(j)
      BY <3>1, <3>2, <3>3 DEF JobRequest, CompleteRefused, stakeVars
    <3>4. CASE CompleteCheck(j)
      BY <3>4 DEF CompleteCheck, stakeVars
    <3> QED BY <2>5, <3>3, <3>4
  <2>6. ASSUME CompleteMine PROVE RestOK'
    BY <2>6 DEF CompleteMine, Idle, stakeVars
  <2>7. ASSUME completing.pc = "mined", JobDone PROVE RestOK'
    BY <2>7, <2>4 DEF JobDone, JobStates, Idle
  <2>8. ASSUME Flush \/ FlushLost PROVE RestOK'
    <3>1. Head(queue) \in Write /\ Tail(queue) \in Seq(Write)
      BY <2>8 DEF Flush, FlushLost
    <3> QED BY <2>8, <3>1 DEF Flush, FlushLost, Write, stakeVars
  <2>9. ASSUME Crash \/ Boot \/ Tick PROVE RestOK'
    <3>1. "none" \in JobStates /\ <<>> \in Seq(Write)
      BY DEF JobStates
    <3>2. up' \in BOOLEAN
      BY <2>9, Zenon DEF Crash, Boot, Tick
    <3>3. CASE Crash
      <4>1. jobMem' \in [Jobs -> JobStates] /\ queue' \in Seq(Write) /\ crashes' \in Nat
            /\ sweep' \in Sweeps
        BY <3>1, <3>3 DEF Crash, Asleep, Sweeps
      <4> QED BY <3>2, <3>3, <4>1 DEF Crash
    <3>4. CASE Boot
      BY <3>2, <3>4 DEF Boot, jobVars, stakeVars
    <3>5. CASE Tick
      BY <3>2, <3>5 DEF Tick, jobVars, stakeVars
    <3> QED BY <2>9, <3>3, <3>4, <3>5
  <2>10. ASSUME StakeNext PROVE RestOK'
    BY <2>10, <2>1, <2>2, <2>3, <2>3s
    DEF StakeNext, Credit, FundEscrow, Issue, Transfer, Lock, AbortUnstarted, Sweeping, stakeVars
  <2>11. ASSUME JobNext PROVE RestOK'
    BY <2>11, <2>5, <2>6, <2>7, <2>8 DEF JobNext, CompleteSettle, CompleteUnsettled
  <2>12. ASSUME UNCHANGED vars PROVE RestOK'
    BY <2>12, <2>1 DEF vars, stakeVars
  <2> QED BY <2>3s, <2>9, <2>10, <2>11, <2>12 DEF Next, SerialNext, ProcessNext, Sweeping
<1> QED BY <1>1, <1>2, <1>0p

\* The rows, the terms and the sweep stay in step with each other.
LEMMA StructureStep ==
    ASSUME StructureInv, [Next]_vars
    PROVE  StructureInv'
<1> USE DEF StructureInv
<1>1. TypeOK'
  BY TypeStep
<1>2. ASSUME NEW r \in RowIds, NEW j \in Jobs, NEW o \in Offers, NEW t, Lock(r, j, o, t)
      PROVE  /\ pairs[r].cs = "none" /\ ~AlreadyLocked(j) /\ UNCHANGED terms
             /\ terms[j].status = "accepted" /\ terms[j].offer = o
             /\ pairs'[r].job = j /\ pairs'[r].offer = o
             /\ pairs'[r].cs = "locked" /\ pairs'[r].ws = "locked"
             /\ \A s \in RowIds \ {r} : pairs'[s] = pairs[s]
  BY <1>2 DEF Lock, AcceptedTerms, TypeOK
<1>3. ASSUME NEW r \in RowIds, Ends(r), pairs[r].cs # "none"
      PROVE  /\ pairs'[r].job = pairs[r].job /\ pairs'[r].offer = pairs[r].offer
             /\ pairs'[r].cs \notin {"none", "locked"} /\ pairs'[r].ws \notin {"none", "locked"}
             /\ \A s \in RowIds \ {r} : pairs'[s] = pairs[s]
  <2>1. pairs[r] \in Pair
    BY <1>3, PairFields
  <2> QED BY <1>3, <2>1 DEF Ends, Close, TypeOK, Pair
<1>4. ASSUME NEW j \in Jobs, NEW o \in Offers, ProposeTerms(j, o) \/ AcceptTerms(j, o)
      PROVE  /\ UNCHANGED pairs
             /\ \A k \in Jobs : terms[k].status = "accepted" => terms'[k] = terms[k]
             /\ TermsDistinct'
  <2>1. CASE ProposeTerms(j, o)
    <3>1. /\ terms[j].status = "none" /\ o.c # o.w /\ UNCHANGED pairs
          /\ terms'[j].offer = o
          /\ \A k \in Jobs \ {j} : terms'[k] = terms[k]
      BY <2>1 DEF ProposeTerms, CanPropose, TypeOK
    <3> QED BY <3>1 DEF TermsDistinct
  <2>2. CASE AcceptTerms(j, o)
    <3>1. /\ terms[j].status = "proposed" /\ UNCHANGED pairs
          /\ terms'[j].offer = terms[j].offer
          /\ \A k \in Jobs \ {j} : terms'[k] = terms[k]
      BY <2>2 DEF AcceptTerms, TypeOK, Terms
    <3> QED BY <3>1 DEF TermsDistinct
  <2> QED BY <1>4, <2>1, <2>2
<1>5. ASSUME NEW r \in RowIds, pairs[r].cs # "none"
      PROVE  pairs[r].job \in Jobs
  BY <1>5, PairFields
<1>6. TermsDistinct'
  BY <1>2, <1>4, StepKinds
  DEF Quiet, Banks, Credit, FundEscrow, Issue, Transfer, Consents, Locks, EndsRead,
      TermsDistinct, stakeVars
<1>7. LockedOnConsent'
  <2>1. CASE Quiet \/ Banks
    BY <2>1 DEF Quiet, Banks, Credit, FundEscrow, Issue, Transfer, LockedOnConsent, stakeVars
  <2>2. CASE Consents
    BY <2>2, <1>4, <1>5 DEF Consents, LockedOnConsent
  <2>3. CASE Locks
    BY <2>3, <1>2 DEF Locks, LockedOnConsent, TermsDistinct
  <2>4. CASE EndsRead
    BY <2>4, <1>3 DEF EndsRead, LockedOnConsent
  <2> QED BY <2>1, <2>2, <2>3, <2>4, StepKinds
<1>8. OneOpenLock'
  <2>1. CASE Quiet \/ Banks \/ Consents
    BY <2>1, <1>4 DEF Quiet, Banks, Credit, FundEscrow, Issue, Transfer, Consents,
                      OneOpenLock, Open, stakeVars
  <2>2. CASE Locks
    BY <2>2, <1>2 DEF Locks, OneOpenLock, Open, AlreadyLocked
  <2>3. CASE EndsRead
    BY <2>3, <1>3 DEF EndsRead, OneOpenLock, Open
  <2> QED BY <2>1, <2>2, <2>3, StepKinds
<1>9. \A r \in RowIds : pairs[r].cs # "none" => pairs'[r].cs # "none"
  <2>1. CASE Quiet \/ Banks \/ Consents
    BY <2>1, <1>4 DEF Quiet, Banks, Credit, FundEscrow, Issue, Transfer, Consents, stakeVars
  <2>2. CASE Locks
    BY <2>2, <1>2 DEF Locks
  <2>3. CASE EndsRead
    BY <2>3, <1>3 DEF EndsRead
  <2> QED BY <2>1, <2>2, <2>3, StepKinds
<1>10. SweepHoldsPair'
  <2>1. ASSUME NEW j \in Jobs, SweepReadFirst(j) PROVE SweepHoldsPair'
    BY <2>1 DEF SweepReadFirst, SweepHoldsPair, OpenOf, Open, stakeVars, TypeOK
  <2>2. ASSUME sweep' = sweep PROVE SweepHoldsPair'
    BY <2>2, <1>9 DEF SweepHoldsPair
  <2>3. ASSUME sweep'.pc # "read" PROVE SweepHoldsPair'
    BY <2>3 DEF SweepHoldsPair
  <2>4. sweep' = sweep \/ sweep'.pc # "read" \/ \E j \in Jobs : SweepReadFirst(j)
    BY DEF Next, SerialNext, StakeNext, JobNext, ProcessNext, vars, Credit, FundEscrow,
           Issue, Transfer, Asleep, SweptJob,
           ProposeTerms, AcceptTerms, Lock, AbortUnstarted, DisputeSlash, LogSlash, LogSlashFailed,
           SweepExpireFirst, SweepExpire, SweepList, SweepSkip, JobRequest, CompleteRefused, CompleteCheck,
           CompleteMine, CompleteSettle, CompleteUnsettled, JobDone, Flush, FlushLost,
           Crash, Boot, Tick
  <2> QED BY <2>1, <2>2, <2>3, <2>4
<1> QED BY <1>1, <1>6, <1>7, <1>8, <1>10

LEMMA StructureInit == Init => StructureInv
<1> SUFFICES ASSUME Init PROVE StructureInv
  OBVIOUS
<1>1. AnyOffer \in Offers
  BY OffersAssumption DEF AnyOffer
<1>2. TypeOK
  <2>1. /\ now \in Nat /\ escrow \in [Actors -> Nat] /\ bookEscrow \in [Actors -> Int]
        /\ bookLocked \in [Jobs -> [Actors -> Int]] /\ bookIssued \in Nat /\ bookBurned \in Nat
    BY OpeningAssumption DEF Init, OpeningLegs
  <2>2. pairs \in [RowIds -> Pair \cup {NoPair}] /\ terms \in [Jobs -> Terms]
    BY <1>1 DEF Init, Terms
  <2>3. /\ slashing \subseteq RowIds /\ slashLog \subseteq RowIds
        /\ jobMem \in [Jobs -> JobStates] /\ jobDb \in [Jobs -> JobStates]
        /\ queue \in Seq(Write) /\ mined \in [Jobs -> Nat] /\ crashes \in Nat
    BY DEF Init, JobStates
  <2>4. /\ completing = Idle /\ up = TRUE
        /\ sweep \in [pc : {"idle", "listed", "read", "open"}, jobs : SUBSET Jobs,
                      row : RowIds \cup {None}]
    BY DEF Init, Asleep
  <2> QED BY <2>1, <2>2, <2>3, <2>4 DEF TypeOK
<1>3. TermsDistinct /\ LockedOnConsent /\ OneOpenLock /\ SweepHoldsPair
  BY DEF Init, NoPair, Asleep, TermsDistinct, LockedOnConsent, OneOpenLock, Open, SweepHoldsPair
<1> QED BY <1>2, <1>3 DEF StructureInv

\* The tables, the registry and the queue stay well typed; no balance of the
\* escrow table is ever negative, whatever the threads interleave.
THEOREM TypeCorrect == Spec => []TypeOK
<1>1. Spec => []StructureInv
  BY StructureInit, StructureStep, PTL DEF Spec
<1>2. StructureInv => TypeOK
  BY DEF StructureInv
<1> QED BY <1>1, <1>2, PTL

\* A job has at most one open lock and its two sides open and close together,
\* even though the sweep pays a pair it read before its transaction.
THEOREM AtMostOneOpenLock == Spec => []OneOpenLock
<1>1. Spec => []StructureInv
  BY StructureInit, StructureStep, PTL DEF Spec
<1>2. StructureInv => OneOpenLock
  BY DEF StructureInv
<1> QED BY <1>1, <1>2, PTL

\* Every lock ever made moved the numbers its worker accepted.
THEOREM ConsentBeforeLock == Spec => []LockedOnConsent
<1>1. Spec => []StructureInv
  BY StructureInit, StructureStep, PTL DEF Spec
<1>2. StructureInv => LockedOnConsent
  BY DEF StructureInv
<1> QED BY <1>1, <1>2, PTL

-----------------------------------------------------------------------------
(* With every read inside its transaction, the ledger is exact and a lock *)
(* pays out once.                                                         *)

SerialInv == StructureInv /\ LedgerIsExact

\* What one operation posts on a job, account by account.
LEMMA PostEffect ==
    ASSUME MoneyOK, NEW j \in Jobs, NEW o \in Offers, o.c # o.w,
           NEW legs \in Legs, Post(j, o, legs)
    PROVE  /\ \A a \in Actors : bookLocked'[j][a] = bookLocked[j][a]
                  + (CASE a = o.c -> legs.cl [] a = o.w -> legs.wl [] OTHER -> 0)
           /\ \A k \in Jobs \ {j} : bookLocked'[k] = bookLocked[k]
           /\ escrow = bookEscrow => escrow' = bookEscrow'
<1> USE OfferFields DEF MoneyOK, Legs, Post
<1>1. ASSUME NEW a \in Actors
      PROVE  bookLocked'[j][a] = bookLocked[j][a]
                  + (CASE a = o.c -> legs.cl [] a = o.w -> legs.wl [] OTHER -> 0)
  OBVIOUS
<1>2. \A k \in Jobs \ {j} : bookLocked'[k] = bookLocked[k]
  OBVIOUS
<1>3. escrow = bookEscrow => escrow' = bookEscrow'
  OBVIOUS
<1> QED BY <1>1, <1>2, <1>3

\* What a lock and an ending do to the rows.
LEMMA LockEffect ==
    ASSUME TypeOK, NEW r \in RowIds, NEW j \in Jobs, NEW o \in Offers, NEW t, Lock(r, j, o, t)
    PROVE  /\ OpenOf(j) = {} /\ OpenOf(j)' = {r} /\ pairs'[r].offer = o
           /\ \A k \in Jobs \ {j} : OpenOf(k)' = OpenOf(k) /\ r \notin OpenOf(k)
           /\ \A s \in RowIds \ {r} : pairs'[s] = pairs[s]
<1>1. /\ pairs[r].cs = "none" /\ ~AlreadyLocked(j)
      /\ pairs'[r].job = j /\ pairs'[r].offer = o
      /\ pairs'[r].cs = "locked" /\ pairs'[r].ws = "locked"
      /\ \A s \in RowIds \ {r} : pairs'[s] = pairs[s]
  BY DEF Lock, TypeOK
<1>2. OpenOf(j) = {}
  BY <1>1 DEF OpenOf, Open, AlreadyLocked
<1>3. OpenOf(j)' = {r}
  BY <1>1, <1>2 DEF OpenOf, Open
<1>4. ASSUME NEW k \in Jobs \ {j} PROVE OpenOf(k)' = OpenOf(k) /\ r \notin OpenOf(k)
  BY <1>1 DEF OpenOf, Open
<1> QED BY <1>1, <1>2, <1>3, <1>4

LEMMA EndsEffect ==
    ASSUME TypeOK, OneOpenLock, NEW r \in RowIds, Open(r), Ends(r)
    PROVE  /\ OpenOf(pairs[r].job) = {r} /\ OpenOf(pairs[r].job)' = {}
           /\ \A k \in Jobs \ {pairs[r].job} : OpenOf(k)' = OpenOf(k) /\ r \notin OpenOf(k)
           /\ \A s \in RowIds \ {r} : pairs'[s] = pairs[s]
           /\ pairs'[r].job = pairs[r].job
<1>1. pairs[r].cs # "none" /\ pairs[r] \in Pair
  BY PairFields DEF Open
<1>2. /\ pairs'[r].job = pairs[r].job
      /\ pairs'[r].cs # "locked"
      /\ \A s \in RowIds \ {r} : pairs'[s] = pairs[s]
  BY <1>1 DEF Ends, Close, TypeOK, Pair
<1>3. OpenOf(pairs[r].job) = {r}
  BY DEF OneOpenLock, OpenOf
<1>4. OpenOf(pairs[r].job)' = {}
  BY <1>2, <1>3 DEF OpenOf, Open
<1>5. ASSUME NEW k \in Jobs \ {pairs[r].job} PROVE OpenOf(k)' = OpenOf(k) /\ r \notin OpenOf(k)
  BY <1>2 DEF OpenOf, Open
<1> QED BY <1>2, <1>3, <1>4, <1>5

LEMMA LedgerStep ==
    ASSUME SerialInv, [SerialNext]_vars
    PROVE  LedgerIsExact'
<1> USE DEF SerialInv, StructureInv
<1>0. MoneyOK
  BY DEF MoneyOK, TypeOK
<1>1. CASE Quiet
  BY <1>1 DEF Quiet, moneyVars, LedgerIsExact, OpenOf, Open, Share
<1>2. CASE Banks
  <2>1. escrow' = bookEscrow' /\ UNCHANGED <<pairs, bookLocked>>
    BY <1>2 DEF Banks, Credit, FundEscrow, Issue, Transfer, LedgerIsExact, stakeVars
  <2> QED BY <2>1 DEF LedgerIsExact, OpenOf, Open, Share
<1>3. CASE Consents
  <2>1. UNCHANGED <<moneyVars, pairs>>
    BY <1>3 DEF Consents, ProposeTerms, AcceptTerms
  <2> QED BY <2>1 DEF moneyVars, LedgerIsExact, OpenOf, Open, Share
<1>4. ASSUME NEW r \in RowIds, NEW j \in Jobs, NEW o \in Offers, NEW t, Lock(r, j, o, t)
      PROVE  LedgerIsExact'
  <2>1. o.c # o.w
    BY <1>4 DEF Lock, AcceptedTerms, TermsDistinct
  <2>2. LockLegs(o) \in Legs /\ LockLegs(o).cl = o.ca + o.fee /\ LockLegs(o).wl = o.wa
    BY OfferFields DEF LockLegs, Legs
  <2>3. Post(j, o, LockLegs(o))
    BY <1>4 DEF Lock
  <2>4. \A a \in Actors : bookLocked[j][a] = 0
    BY <1>4, LockEffect DEF LedgerIsExact
  <2>5. \A a \in Actors : bookLocked'[j][a] = Share(o, a)
    BY <1>0, <2>1, <2>2, <2>3, <2>4, PostEffect, OfferFields DEF Share
  <2>6. \A k \in Jobs \ {j} : bookLocked'[k] = bookLocked[k]
    BY <1>0, <2>1, <2>2, <2>3, PostEffect
  <2>7. escrow' = bookEscrow'
    BY <1>0, <2>1, <2>2, <2>3, PostEffect DEF LedgerIsExact
  <2>8. ASSUME NEW k \in Jobs, NEW a \in Actors
        PROVE  /\ \A s \in OpenOf(k)' : bookLocked'[k][a] = Share(pairs'[s].offer, a)
               /\ OpenOf(k)' = {} => bookLocked'[k][a] = 0
    <3>1. CASE k = j
      BY <1>4, <2>5, <3>1, LockEffect
    <3>2. CASE k # j
      <4>1. OpenOf(k)' = OpenOf(k) /\ \A s \in OpenOf(k) : pairs'[s] = pairs[s]
        BY <1>4, <3>2, LockEffect DEF OpenOf
      <4> QED BY <2>6, <3>2, <4>1 DEF LedgerIsExact
    <3> QED BY <3>1, <3>2
  <2> QED BY <2>7, <2>8 DEF LedgerIsExact, Share
<1>5. ASSUME NEW r \in RowIds, Open(r), Ends(r) PROVE LedgerIsExact'
  <2> DEFINE j == pairs[r].job
             o == pairs[r].offer
  <2>1. pairs[r].cs # "none" /\ j \in Jobs /\ o \in Offers /\ o.c # o.w
    BY <1>5, PairFields DEF Open, LockedOnConsent
  <2>2. PICK legs \in Legs : legs.cl = -(o.ca + o.fee) /\ legs.wl = -o.wa /\ Post(j, o, legs)
    BY <1>5 DEF Ends, Close
  <2>3. \A a \in Actors : bookLocked[j][a] = Share(o, a)
    BY <1>5, <2>1, EndsEffect DEF LedgerIsExact
  <2> HIDE DEF j, o
  <2>4. \A a \in Actors : bookLocked'[j][a] = 0
    BY <1>0, <2>1, <2>2, <2>3, PostEffect, OfferFields DEF Share
  <2>5. \A k \in Jobs \ {j} : bookLocked'[k] = bookLocked[k]
    BY <1>0, <2>1, <2>2, PostEffect
  <2>6. escrow' = bookEscrow'
    BY <1>0, <2>1, <2>2, PostEffect DEF LedgerIsExact
  <2>7. ASSUME NEW k \in Jobs, NEW a \in Actors
        PROVE  /\ \A s \in OpenOf(k)' : bookLocked'[k][a] = Share(pairs'[s].offer, a)
               /\ OpenOf(k)' = {} => bookLocked'[k][a] = 0
    <3>1. CASE k = j
      BY <1>5, <2>4, <3>1, EndsEffect DEF j
    <3>2. CASE k # j
      <4>1. OpenOf(k)' = OpenOf(k) /\ \A s \in OpenOf(k) : pairs'[s] = pairs[s]
        BY <1>5, <3>2, EndsEffect DEF OpenOf, j
      <4> QED BY <2>5, <3>2, <4>1 DEF LedgerIsExact
    <3> QED BY <3>1, <3>2
  <2> QED BY <2>6, <2>7 DEF LedgerIsExact, Share
<1> QED BY <1>1, <1>2, <1>3, <1>4, <1>5, SerialKinds DEF Locks, EndsOpen

LEMMA SerialInvStep ==
    ASSUME SerialInv, [SerialNext]_vars
    PROVE  SerialInv'
<1>1. StructureInv'
  <2>1. [Next]_vars
    BY DEF Next
  <2> QED BY <2>1, StructureStep DEF SerialInv
<1> QED BY <1>1, LedgerStep DEF SerialInv

LEMMA SerialInvInit == Init => SerialInv
<1>1. Init => LedgerIsExact
  BY OpeningAssumption DEF Init, OpeningLegs, NoPair, LedgerIsExact, OpenOf, Open
<1> QED BY <1>1, StructureInit DEF SerialInv

\* Every escrow balance and every job's locked stake is exactly what the entries
\* of the ledger produce: what reconcile() looks for can never be found, as long
\* as every transaction reads the rows it pays out.
THEOREM LedgerExact == SerialSpec => []LedgerIsExact
<1>1. SerialSpec => []SerialInv
  BY SerialInvInit, SerialInvStep, PTL DEF SerialSpec
<1>2. SerialInv => LedgerIsExact
  BY DEF SerialInv
<1> QED BY <1>1, <1>2, PTL

LEMMA FinalStep ==
    ASSUME SerialInv, [SerialNext]_vars
    PROVE  \A r \in RowIds : pairs[r].cs \notin {"none", "locked"} => pairs'[r] = pairs[r]
<1> USE DEF SerialInv, StructureInv
<1>1. CASE Quiet \/ Banks \/ Consents
  BY <1>1 DEF Quiet, Banks, Credit, FundEscrow, Issue, Transfer, Consents, ProposeTerms,
              AcceptTerms, stakeVars
<1>2. CASE Locks
  BY <1>2, LockEffect DEF Locks, Lock
<1>3. CASE EndsOpen
  BY <1>3, EndsEffect DEF EndsOpen, Open
<1> QED BY <1>1, <1>2, <1>3, SerialKinds

\* What a lock paid out is never touched again.
THEOREM PayoutIsFinal == SerialSpec => ClosedIsFinal
<1> DEFINE Final == \A r \in RowIds : pairs[r].cs \notin {"none", "locked"} => pairs'[r] = pairs[r]
<1>1. SerialSpec => []SerialInv
  BY SerialInvInit, SerialInvStep, PTL DEF SerialSpec
<1>2. SerialInv /\ [SerialNext]_vars => [Final]_vars
  BY FinalStep
<1> QED BY <1>1, <1>2, PTL DEF SerialSpec, ClosedIsFinal

-----------------------------------------------------------------------------
(* The refinement: what two parties can observe of the tables is a behaviour *)
(* of EscrowContract.                                                        *)

\* The deal a row stands for.
Deal(r) == [is |-> Standing(r), offer |-> pairs[r].offer]

\* Steps that leave the rows alone leave the deals alone.
LEMMA DealsUnchanged ==
    ASSUME UNCHANGED pairs
    PROVE  [r \in RowIds |-> Deal(r)]' = [r \in RowIds |-> Deal(r)]
BY DEF Deal, Standing

LEMMA ContractInit == Init => Contract!Init
<1> SUFFICES ASSUME Init PROVE Contract!Init
  OBVIOUS
<1>1. AnyOffer \in Offers
  BY OffersAssumption DEF AnyOffer
<1>2. \A r \in RowIds : Deal(r) \in [is : {"none"}, offer : Offers]
  BY <1>1 DEF Init, NoPair, Deal, Standing
<1> QED BY <1>2 DEF Contract!Init, Init, Deal

\* Every step of the tables is a step of the contract, or changes nothing either
\* party can see.
LEMMA ContractStep ==
    ASSUME SerialInv, [SerialNext]_vars
    PROVE  [Contract!Next]_(Contract!vars)
<1> USE DEF SerialInv, StructureInv
<1>1. CASE Quiet \/ Consents
  <2>1. UNCHANGED <<escrow, pairs>>
    BY <1>1 DEF Quiet, Consents, ProposeTerms, AcceptTerms, moneyVars
  <2> QED BY <2>1, DealsUnchanged DEF Contract!vars, Deal
<1>2. CASE Banks
  <2>1. UNCHANGED pairs
    BY <1>2 DEF Banks, Credit, FundEscrow, Issue, Transfer, stakeVars
  <2>2. ASSUME NEW a \in Actors, NEW n \in CreditAmounts, Credit(a, n) \/ FundEscrow(a, n)
        PROVE  Contract!Deposit(a)
    <3>1. n \in Nat \ {0} /\ escrow[a] \in Nat
      BY OpeningAssumption DEF TypeOK
    <3>2. escrow'[a] > escrow[a] /\ escrow' = [escrow EXCEPT ![a] = escrow'[a]]
      BY <2>2, <3>1 DEF Credit, FundEscrow, Issue, TypeOK
    <3> QED BY <2>1, <3>2, DealsUnchanged DEF Contract!Deposit, Deal
  <2>3. ASSUME NEW a \in Actors, NEW b \in Actors, NEW n \in TransferAmounts, Transfer(a, b, n)
        PROVE  Contract!Move(a, b)
    <3>1. n \in Nat \ {0} /\ escrow[a] \in Nat /\ escrow[b] \in Nat /\ escrow[a] >= n
      BY <2>3, OpeningAssumption DEF TypeOK, Transfer
    <3>2. escrow' = [escrow EXCEPT ![a] = @ - n, ![b] = @ + n]
      BY <2>3 DEF Transfer
    <3>3. /\ escrow'[a] \in 0..escrow[a]
          /\ escrow' = [escrow EXCEPT ![a] = escrow'[a], ![b] = @ + escrow[a] - escrow'[a]]
      <4>1. CASE a = b
        <5>1. escrow'[a] = escrow[a]
          BY <3>1, <3>2, <4>1 DEF TypeOK
        <5>2. escrow' = escrow
          BY <3>1, <3>2, <4>1 DEF TypeOK
        <5>3. [escrow EXCEPT ![a] = escrow'[a], ![b] = @ + escrow[a] - escrow'[a]] = escrow
          BY <3>1, <4>1, <5>1 DEF TypeOK
        <5> QED BY <3>1, <5>1, <5>2, <5>3
      <4>2. CASE a # b
        <5>1. escrow'[a] = escrow[a] - n
          BY <3>1, <3>2, <4>2 DEF TypeOK
        <5>2. escrow[b] + escrow[a] - escrow'[a] = escrow[b] + n
          BY <3>1, <5>1
        <5>3. escrow'[a] \in 0..escrow[a]
          BY <3>1, <5>1
        <5>4. [escrow EXCEPT ![a] = escrow'[a], ![b] = @ + escrow[a] - escrow'[a]]
                = [escrow EXCEPT ![a] = escrow[a] - n, ![b] = escrow[b] + n]
          BY <4>2, <5>1, <5>2, Zenon
        <5> QED BY <3>2, <4>2, <5>3, <5>4
      <4> QED BY <4>1, <4>2
    <3> QED BY <2>1, <3>3, DealsUnchanged DEF Contract!Move, Deal
  <2> QED BY <1>2, <2>2, <2>3 DEF Banks, Contract!Next
<1>3. ASSUME NEW r \in RowIds, NEW j \in Jobs, NEW o \in Offers, NEW t, Lock(r, j, o, t)
      PROVE  Contract!Hold(r, o)
  <2>1. o.c # o.w
    BY <1>3 DEF Lock, AcceptedTerms, TermsDistinct
  <2>2. /\ pairs[r].cs = "none" /\ pairs[r].ws = "none"
        /\ pairs'[r].cs = "locked" /\ pairs'[r].ws = "locked" /\ pairs'[r].offer = o
    BY <1>3 DEF Lock, TypeOK, Pair, NoPair
  <2>3. Deal(r).is = "none" /\ Deal(r)' = [is |-> "held", offer |-> o]
    <3>1. Standing(r) = "none" /\ Standing(r)' = "held"
      BY <2>2 DEF Standing
    <3> QED BY <2>2, <3>1 DEF Deal
  <2>4. \A s \in RowIds \ {r} : Deal(s)' = Deal(s)
    BY <1>3, LockEffect DEF Deal, Standing
  <2>5. /\ escrow[o.c] >= o.ca + o.fee /\ escrow[o.w] >= o.wa
        /\ escrow' = [escrow EXCEPT ![o.c] = @ - (o.ca + o.fee), ![o.w] = @ - o.wa]
    BY <1>3, OfferFields DEF Lock, Funded, Post, LockLegs, TypeOK
  <2> QED BY <2>1, <2>3, <2>4, <2>5 DEF Contract!Hold, Deal
<1>4. ASSUME NEW r \in RowIds, Open(r), Ends(r)
      PROVE  \E outcome \in Contract!Outcomes : Contract!PayOut(r, outcome)
  <2> DEFINE o == pairs[r].offer
  <2>1. pairs[r] \in Pair /\ pairs[r].cs = "locked" /\ pairs[r].ws = "locked"
    BY <1>4, PairFields DEF Open
  <2>2. PICK cs, ws \in Statuses \ {"none", "locked"}, feeTo \in Sides, legs \in Legs,
             outcome \in Contract!Outcomes :
          /\ legs.ce = Contract!ToConsumer(o, outcome)
          /\ legs.we = Contract!ToWorker(o, outcome)
          /\ outcome = CASE cs = "slashed" -> "consumer_faulted"
                         [] ws = "slashed" -> "worker_faulted"
                         [] OTHER -> IF feeTo = "worker" THEN "delivered" ELSE "unwound"
          /\ Close(r, cs, ws, feeTo, legs)
    BY <1>4 DEF Ends
  <2>3. /\ pairs'[r].cs = cs /\ pairs'[r].ws = ws /\ pairs'[r].feeTo = feeTo
        /\ pairs'[r].offer = o
    BY <2>1, <2>2 DEF Close, TypeOK, Pair
  <2>4. Deal(r) = [is |-> "held", offer |-> o] /\ Deal(r)' = [is |-> outcome, offer |-> o]
    <3>1. Standing(r) = "held"
      BY <2>1 DEF Standing
    <3>2. cs \notin {"none", "locked"} /\ ws \notin {"none", "locked"}
      BY <2>2
    <3>3. Standing(r)' = outcome
      BY <2>2, <2>3, <3>2 DEF Standing
    <3> QED BY <2>3, <3>1, <3>3 DEF Deal
  <2>5. \A s \in RowIds \ {r} : Deal(s)' = Deal(s)
    BY <1>4, EndsEffect DEF Deal, Standing
  <2>6. escrow' = [escrow EXCEPT ![o.c] = @ + Contract!ToConsumer(o, outcome),
                                 ![o.w] = @ + Contract!ToWorker(o, outcome)]
    BY <2>2 DEF Close, Post
  <2>7. Contract!PayOut(r, outcome)
    BY <2>4, <2>5, <2>6 DEF Contract!PayOut, Deal
  <2> QED BY <2>7
<1>5. CASE Locks
  BY <1>3, <1>5 DEF Locks, Contract!Next
<1>6. CASE EndsOpen
  BY <1>4, <1>6 DEF EndsOpen, Contract!Next
<1> QED BY <1>1, <1>2, <1>5, <1>6, SerialKinds

\* The tables, the ledger, the registry, the queue and the restarts implement
\* the contract of EscrowContract.
THEOREM Implementation == SerialSpec => ImplementsContract
<1>1. SerialSpec => []SerialInv
  BY SerialInvInit, SerialInvStep, PTL DEF SerialSpec
<1>2. SerialInv /\ [SerialNext]_vars => [Contract!Next]_(Contract!vars)
  BY ContractStep
<1> QED BY <1>1, <1>2, ContractInit, PTL DEF SerialSpec, ImplementsContract, Contract!Spec

-----------------------------------------------------------------------------
(* The sums reconcile() and ecu_total() take over the tables. *)

\* What the tables hold of one actor, spendable or locked.
HoldingOf(a) == escrow[a] + StoredLocked(a)

\* An open row holds each party's share; any other row holds nothing.
RowsHold ==
    \A r \in RowIds : \A a \in Actors :
        /\ HeldBy(a)[r] = IF Open(r) THEN Share(pairs[r].offer, a) ELSE 0
        /\ HeldBy(a)[r] \in Nat

LEMMA HeldIsShare == StructureInv => RowsHold
<1> SUFFICES ASSUME StructureInv, NEW r \in RowIds, NEW a \in Actors
             PROVE  /\ HeldBy(a)[r] = IF Open(r) THEN Share(pairs[r].offer, a) ELSE 0
                    /\ HeldBy(a)[r] \in Nat
  BY DEF RowsHold
<1> USE DEF StructureInv
<1>1. CASE Open(r)
  <2>1. pairs[r].cs = "locked" /\ pairs[r].ws = "locked"
    BY <1>1 DEF Open
  <2>2. pairs[r].offer \in Offers /\ pairs[r].offer.c # pairs[r].offer.w
    BY <2>1, PairFields DEF LockedOnConsent
  <2> QED BY <1>1, <2>1, <2>2, OfferFields DEF HeldBy, Share
<1>2. CASE ~Open(r)
  <2>1. pairs[r].cs # "locked" /\ pairs[r].ws # "locked"
    BY <1>2 DEF Open, OneOpenLock
  <2> QED BY <1>2, <2>1 DEF HeldBy
<1> QED BY <1>1, <1>2

LEMMA StoredIsNat ==
    ASSUME StructureInv, NEW a \in Actors
    PROVE  StoredLocked(a) \in Nat
<1>1. \A r \in RowIds : HeldBy(a)[r] \in Nat
  BY HeldIsShare DEF RowsHold
<1> QED BY <1>1, SumNat, FiniteAssumption DEF StoredLocked

\* When one row changes, the stored column changes by what that row holds.
LEMMA StoredChange ==
    ASSUME StructureInv, StructureInv', NEW r \in RowIds,
           \A s \in RowIds \ {r} : pairs'[s] = pairs[s],
           NEW a \in Actors
    PROVE  StoredLocked(a)' = StoredLocked(a) + (HeldBy(a)'[r] - HeldBy(a)[r])
<1> DEFINE f == HeldBy(a)
           g == HeldBy(a)'
<1>1. \A s \in RowIds : f[s] \in Int
  BY HeldIsShare DEF RowsHold
<1>2. \A s \in RowIds : g[s] \in Int
  <2>1. RowsHold'
    BY HeldIsShare, PTL
  <2> QED BY <2>1 DEF RowsHold
<1>3. \A s \in RowIds \ {r} : g[s] = f[s]
  BY DEF HeldBy
<1>4. StoredLocked(a) = SumFunctionOnSet(f, RowIds) /\ StoredLocked(a)' = SumFunctionOnSet(g, RowIds)
  BY DEF StoredLocked
<1> HIDE DEF f, g
<1>5. SumFunctionOnSet(g, RowIds) = SumFunctionOnSet(f, RowIds) + (g[r] - f[r])
  BY <1>1, <1>2, <1>3, SumChange, FiniteAssumption
<1> QED BY <1>4, <1>5 DEF f, g

LEMMA StoredStays ==
    ASSUME UNCHANGED pairs, NEW a \in Actors
    PROVE  StoredLocked(a)' = StoredLocked(a)
BY DEF StoredLocked, HeldBy

\* A lock stores its two shares and an ending takes them away.
LEMMA LockStores ==
    ASSUME StructureInv, StructureInv', NEW r \in RowIds, NEW j \in Jobs, NEW o \in Offers,
           NEW t, Lock(r, j, o, t), NEW a \in Actors
    PROVE  StoredLocked(a)' = StoredLocked(a) + Share(o, a)
<1>1. /\ ~Open(r) /\ pairs'[r].offer = o /\ Open(r)'
      /\ \A s \in RowIds \ {r} : pairs'[s] = pairs[s]
  BY DEF Lock, Open, StructureInv, TypeOK
<1>2. StoredLocked(a)' = StoredLocked(a) + (HeldBy(a)'[r] - HeldBy(a)[r])
  BY <1>1, StoredChange
<1>3. HeldBy(a)[r] = 0
  BY <1>1, HeldIsShare DEF RowsHold
<1>4. HeldBy(a)'[r] = Share(o, a) /\ Share(o, a) \in Nat
  <2>1. RowsHold'
    BY HeldIsShare, PTL
  <2>2. HeldBy(a)'[r] = (IF Open(r)' THEN Share(pairs[r].offer, a)' ELSE 0)
    BY <2>1 DEF RowsHold
  <2> QED BY <1>1, <2>2, OfferFields DEF Share
<1> QED BY <1>2, <1>3, <1>4, StoredIsNat

LEMMA EndingReleases ==
    ASSUME StructureInv, StructureInv', NEW r \in RowIds, Open(r), Ends(r), NEW a \in Actors
    PROVE  StoredLocked(a)' = StoredLocked(a) - Share(pairs[r].offer, a)
<1> DEFINE o == pairs[r].offer
<1>0. OneOpenLock /\ TypeOK /\ pairs[r].cs # "none"
  BY DEF StructureInv, Open
<1>1. /\ \A s \in RowIds \ {r} : pairs'[s] = pairs[s]
      /\ ~Open(r)'
  <2>1. OpenOf(pairs[r].job)' = {} /\ pairs'[r].job = pairs[r].job
        /\ \A s \in RowIds \ {r} : pairs'[s] = pairs[s]
    BY <1>0, EndsEffect
  <2> QED BY <2>1 DEF OpenOf
<1>2. StoredLocked(a)' = StoredLocked(a) + (HeldBy(a)'[r] - HeldBy(a)[r])
  BY <1>1, StoredChange
<1>3. HeldBy(a)[r] = Share(o, a) /\ Share(o, a) \in Nat
  <2>1. o \in Offers
    BY <1>0, PairFields
  <2> QED BY <2>1, HeldIsShare, OfferFields DEF RowsHold, Share
<1>4. HeldBy(a)'[r] = 0
  <2>1. RowsHold'
    BY HeldIsShare, PTL
  <2> QED BY <1>1, <2>1 DEF RowsHold
<1> HIDE DEF o
<1>5. StoredLocked(a) \in Nat
  BY StoredIsNat
<1> QED BY <1>2, <1>3, <1>4, <1>5 DEF o

-----------------------------------------------------------------------------
(* The boot reconcile always agrees. *)

\* The locked columns of the two sides of reconcile() agree.
LockedAgrees == \A a \in Actors : StoredLocked(a) = LedgerLocked(a)

\* When one job's legs change, the ledger's column changes by its leg.
LEMMA LedgerChange ==
    ASSUME TypeOK, TypeOK', NEW j \in Jobs, \A k \in Jobs \ {j} : bookLocked'[k] = bookLocked[k],
           NEW a \in Actors
    PROVE  LedgerLocked(a)' = LedgerLocked(a) + (bookLocked'[j][a] - bookLocked[j][a])
<1> DEFINE f == [k \in Jobs |-> bookLocked[k][a]]
           g == [k \in Jobs |-> bookLocked'[k][a]]
<1>1. \A k \in Jobs : f[k] \in Int /\ g[k] \in Int
  BY DEF TypeOK
<1>2. \A k \in Jobs \ {j} : g[k] = f[k]
  OBVIOUS
<1>3. f[j] = bookLocked[j][a] /\ g[j] = bookLocked'[j][a]
  OBVIOUS
<1>4. LedgerLocked(a) = SumFunctionOnSet(f, Jobs) /\ LedgerLocked(a)' = SumFunctionOnSet(g, Jobs)
  BY DEF LedgerLocked
<1> HIDE DEF f, g
<1>5. SumFunctionOnSet(g, Jobs) = SumFunctionOnSet(f, Jobs) + (g[j] - f[j])
  BY <1>1, <1>2, SumChange, FiniteAssumption
<1> QED BY <1>3, <1>4, <1>5

LEMMA LockedAgreesStep ==
    ASSUME SerialInv, SerialInv', [SerialNext]_vars, LockedAgrees
    PROVE  LockedAgrees'
<1> USE DEF SerialInv
<1>0. TypeOK /\ TypeOK' /\ OneOpenLock /\ MoneyOK
  BY DEF StructureInv, TypeOK, MoneyOK
<1>1. CASE Quiet \/ Banks \/ Consents
  <2>1. UNCHANGED <<pairs, bookLocked>>
    BY <1>1 DEF Quiet, Banks, Credit, FundEscrow, Issue, Transfer, Consents, ProposeTerms,
                AcceptTerms, moneyVars, stakeVars
  <2>2. ASSUME NEW a \in Actors PROVE LedgerLocked(a)' = LedgerLocked(a)
    BY <2>1 DEF LedgerLocked
  <2> QED BY <2>1, <2>2, StoredStays DEF LockedAgrees
<1>2. ASSUME NEW r \in RowIds, NEW j \in Jobs, NEW o \in Offers, NEW t, Lock(r, j, o, t), NEW a \in Actors
      PROVE  StoredLocked(a)' = LedgerLocked(a)'
  <2>1. /\ OpenOf(j) = {} /\ OpenOf(j)' = {r} /\ pairs'[r].offer = o
    BY <1>0, <1>2, LockEffect
  <2>2. bookLocked[j][a] = 0 /\ bookLocked'[j][a] = Share(o, a)
    <3>1. bookLocked'[j][a] = Share(pairs[r].offer, a)'
      BY <2>1 DEF LedgerIsExact
    <3> QED BY <2>1, <3>1 DEF LedgerIsExact, Share
  <2>3. \A k \in Jobs \ {j} : bookLocked'[k] = bookLocked[k]
    BY <1>0, <1>2 DEF Lock, Post, TypeOK
  <2>4. LedgerLocked(a)' = LedgerLocked(a) + (bookLocked'[j][a] - bookLocked[j][a])
    BY <1>0, <2>3, LedgerChange
  <2>5. StoredLocked(a)' = StoredLocked(a) + Share(o, a)
    BY <1>2, LockStores
  <2>6. Share(o, a) \in Nat /\ StoredLocked(a) = LedgerLocked(a)
    BY OfferFields DEF Share, LockedAgrees
  <2> QED BY <2>2, <2>4, <2>5, <2>6
<1>3. ASSUME NEW r \in RowIds, Open(r), Ends(r), NEW a \in Actors
      PROVE  StoredLocked(a)' = LedgerLocked(a)'
  <2> DEFINE j == pairs[r].job
             o == pairs[r].offer
  <2>0. pairs[r].cs # "none" /\ j \in Jobs /\ o \in Offers
    BY <1>0, <1>3, PairFields DEF Open
  <2>1. OpenOf(j) = {r} /\ OpenOf(j)' = {} /\ pairs'[r].job = j
    BY <1>0, <1>3, EndsEffect
  <2>2. bookLocked[j][a] = Share(o, a) /\ bookLocked'[j][a] = 0
    <3>1. bookLocked[j][a] = Share(o, a)
      BY <2>0, <2>1 DEF LedgerIsExact
    <3>2. \A k \in Jobs : OpenOf(k)' = {} => bookLocked'[k][a] = 0
      BY DEF LedgerIsExact
    <3> QED BY <2>0, <2>1, <3>1, <3>2
  <2>3. \A k \in Jobs \ {j} : bookLocked'[k] = bookLocked[k]
    <3>1. PICK legs : Post(j, o, legs)
      BY <1>3 DEF Ends, Close
    <3> HIDE DEF j, o
    <3> QED BY <1>0, <3>1 DEF Post, TypeOK
  <2>5. StoredLocked(a)' = StoredLocked(a) - Share(o, a)
    BY <1>3, EndingReleases
  <2> HIDE DEF j, o
  <2>4. LedgerLocked(a)' = LedgerLocked(a) + (bookLocked'[j][a] - bookLocked[j][a])
    BY <1>0, <2>0, <2>3, LedgerChange
  <2>6. Share(o, a) \in Nat /\ StoredLocked(a) = LedgerLocked(a) /\ StoredLocked(a) \in Nat
    BY <2>0, OfferFields, StoredIsNat DEF Share, LockedAgrees
  <2> QED BY <2>2, <2>4, <2>5, <2>6
<1>4. CASE Locks
  BY <1>2, <1>4 DEF Locks, LockedAgrees
<1>5. CASE EndsOpen
  BY <1>3, <1>5 DEF EndsOpen, LockedAgrees
<1> QED BY <1>0, <1>1, <1>4, <1>5, SerialKinds

LEMMA LockedAgreesInit == Init => LockedAgrees
<1> SUFFICES ASSUME Init, NEW a \in Actors PROVE StoredLocked(a) = LedgerLocked(a)
  BY DEF LockedAgrees
<1> DEFINE f == [k \in Jobs |-> bookLocked[k][a]]
<1>1. \A r \in RowIds : HeldBy(a)[r] = 0
  BY DEF Init, NoPair, HeldBy
<1>2. \A k \in Jobs : f[k] = 0
  BY DEF Init
<1>3. LedgerLocked(a) = SumFunctionOnSet(f, Jobs)
  BY DEF LedgerLocked
<1> HIDE DEF f
<1>4. SumFunctionOnSet(f, Jobs) = 0
  BY <1>2, SumZero, FiniteAssumption
<1>5. StoredLocked(a) = 0
  BY <1>1, SumZero, FiniteAssumption DEF StoredLocked
<1> QED BY <1>3, <1>4, <1>5

\* The reconcile the bridge runs at every boot, and refuses to serve without,
\* finds nothing: balance by balance, the ledger's entries produce the tables.
THEOREM ReconcileAgrees == SerialSpec => []ReconcileOk
<1> DEFINE Inv == SerialInv /\ LockedAgrees
<1>1. Init => Inv
  BY SerialInvInit, LockedAgreesInit
<1>2. Inv /\ [SerialNext]_vars => Inv'
  BY SerialInvStep, LockedAgreesStep
<1>3. Inv => ReconcileOk
  BY DEF SerialInv, LedgerIsExact, LockedAgrees, ReconcileOk
<1> HIDE DEF Inv
<1> QED BY <1>1, <1>2, <1>3, PTL DEF SerialSpec

-----------------------------------------------------------------------------
(* ECU is conserved. *)

Holdings == [a \in Actors |-> escrow[a] + StoredLocked(a)]

HoldingsOK == \A a \in Actors : Holdings[a] \in Int

LEMMA HoldingsTyped == StructureInv => HoldingsOK
<1> SUFFICES ASSUME StructureInv, NEW a \in Actors PROVE escrow[a] + StoredLocked(a) \in Int
  BY DEF Holdings, HoldingsOK
<1> QED BY StoredIsNat DEF StructureInv, TypeOK

\* When two actors' holdings change, the total changes by both changes.
LEMMA TotalChange ==
    ASSUME StructureInv, StructureInv', NEW c \in Actors, NEW w \in Actors, c # w,
           \A a \in Actors \ {c, w} : Holdings'[a] = Holdings[a]
    PROVE  /\ EcuTotal' = EcuTotal + (Holdings'[c] - Holdings[c]) + (Holdings'[w] - Holdings[w])
           /\ EcuTotal \in Int
<1>1. \A a \in Actors : Holdings[a] \in Int
  BY HoldingsTyped DEF HoldingsOK
<1>2. \A a \in Actors : Holdings'[a] \in Int
  <2>1. HoldingsOK'
    BY HoldingsTyped, PTL
  <2> QED BY <2>1 DEF HoldingsOK
<1>3. EcuTotal = SumFunctionOnSet(Holdings, Actors) /\ EcuTotal' = SumFunctionOnSet(Holdings', Actors)
  BY DEF EcuTotal, Holdings
<1>4. EcuTotal \in Int
  BY <1>1, <1>3, SumInt, FiniteAssumption
<1> QED BY <1>1, <1>2, <1>3, <1>4, SumChangeTwo, FiniteAssumption

LEMMA TotalChangeOne ==
    ASSUME StructureInv, StructureInv', NEW c \in Actors,
           \A a \in Actors \ {c} : Holdings'[a] = Holdings[a]
    PROVE  EcuTotal' = EcuTotal + (Holdings'[c] - Holdings[c]) /\ EcuTotal \in Int
<1>1. \A a \in Actors : Holdings[a] \in Int
  BY HoldingsTyped DEF HoldingsOK
<1>2. \A a \in Actors : Holdings'[a] \in Int
  <2>1. HoldingsOK'
    BY HoldingsTyped, PTL
  <2> QED BY <2>1 DEF HoldingsOK
<1>3. EcuTotal = SumFunctionOnSet(Holdings, Actors) /\ EcuTotal' = SumFunctionOnSet(Holdings', Actors)
  BY DEF EcuTotal, Holdings
<1>4. EcuTotal \in Int
  BY <1>1, <1>3, SumInt, FiniteAssumption
<1> QED BY <1>1, <1>2, <1>3, <1>4, SumChange, FiniteAssumption

LEMMA TotalStays == Holdings' = Holdings => EcuTotal' = EcuTotal
BY DEF EcuTotal, Holdings

LEMMA BanksConserve ==
    ASSUME StructureInv, StructureInv', Banks, EcuConserved
    PROVE  EcuConserved'
<1>0. TypeOK /\ UNCHANGED pairs /\ SumFunctionOnSet(Opening, Actors) \in Int
  <2>1. SumFunctionOnSet(Opening, Actors) \in Int
    BY OpeningAssumption, SumInt, FiniteAssumption
  <2> QED BY <2>1 DEF StructureInv, Banks, Credit, FundEscrow, Issue, Transfer, stakeVars
<1>1. \A a \in Actors : /\ StoredLocked(a)' = StoredLocked(a) /\ StoredLocked(a) \in Nat
                        /\ Holdings[a] = escrow[a] + StoredLocked(a)
                        /\ Holdings'[a] = escrow'[a] + StoredLocked(a)
  BY <1>0, StoredStays, StoredIsNat DEF Holdings
<1>2. ASSUME NEW a \in Actors, NEW n \in CreditAmounts, Issue(a, n) PROVE EcuConserved'
  <2>1. n \in Nat /\ escrow' = [escrow EXCEPT ![a] = @ + n]
        /\ bookIssued' = bookIssued + n /\ bookBurned' = bookBurned
    BY <1>2, OpeningAssumption DEF Issue
  <2>2. \A b \in Actors \ {a} : Holdings'[b] = Holdings[b]
    BY <1>0, <1>1, <2>1 DEF TypeOK
  <2>3. Holdings'[a] - Holdings[a] = n
    BY <1>0, <1>1, <2>1 DEF TypeOK
  <2>4. EcuTotal' = EcuTotal + n /\ EcuTotal \in Int
    BY <2>2, <2>3, TotalChangeOne
  <2> QED BY <1>0, <2>1, <2>4 DEF EcuConserved, TypeOK
<1>3. ASSUME NEW a \in Actors, NEW b \in Actors, NEW n \in TransferAmounts, Transfer(a, b, n)
      PROVE  EcuConserved'
  <2>1. /\ n \in Nat /\ escrow' = [escrow EXCEPT ![a] = @ - n, ![b] = @ + n]
        /\ bookIssued' = bookIssued /\ bookBurned' = bookBurned
    BY <1>3, OpeningAssumption DEF Transfer
  <2>2. EcuTotal' = EcuTotal
    <3>1. CASE a = b
      <4>1. \A x \in Actors : escrow'[x] = escrow[x]
        BY <1>0, <2>1, <3>1 DEF TypeOK
      <4>2. Holdings' = Holdings
        BY <1>1, <4>1 DEF Holdings
      <4> QED BY <4>2, TotalStays
    <3>2. CASE a # b
      <4>1. /\ escrow'[a] = escrow[a] - n /\ escrow'[b] = escrow[b] + n
            /\ \A x \in Actors \ {a, b} : escrow'[x] = escrow[x]
        BY <1>0, <2>1, <3>2 DEF TypeOK
      <4>2. \A x \in Actors \ {a, b} : Holdings'[x] = Holdings[x]
        BY <1>1, <4>1
      <4>3. Holdings'[a] - Holdings[a] = -n /\ Holdings'[b] - Holdings[b] = n
        BY <1>0, <1>1, <2>1, <4>1 DEF TypeOK
      <4>4. EcuTotal' = EcuTotal + (-n) + n /\ EcuTotal \in Int
        BY <3>2, <4>2, <4>3, TotalChange
      <4> QED BY <2>1, <4>4
    <3> QED BY <3>1, <3>2
  <2> QED BY <2>1, <2>2 DEF EcuConserved
<1> QED BY <1>2, <1>3 DEF Banks, Credit, FundEscrow

LEMMA LockConserves ==
    ASSUME StructureInv, StructureInv', NEW r \in RowIds, NEW j \in Jobs, NEW o \in Offers,
           NEW t, Lock(r, j, o, t), EcuConserved
    PROVE  EcuConserved'
<1>0. TypeOK /\ o.c # o.w
  BY DEF StructureInv, Lock, AcceptedTerms, TermsDistinct
<1>1. /\ escrow' = [escrow EXCEPT ![o.c] = @ + LockLegs(o).ce, ![o.w] = @ + LockLegs(o).we]
      /\ bookIssued' = bookIssued /\ bookBurned' = bookBurned + 0
  <2>1. Post(j, o, LockLegs(o)) /\ LockLegs(o).burn = 0
    BY DEF Lock, LockLegs
  <2> QED BY <2>1 DEF Post
<1>2. ASSUME NEW a \in Actors PROVE Holdings'[a] = Holdings[a]
  <2>1. StoredLocked(a)' = StoredLocked(a) + Share(o, a) /\ StoredLocked(a) \in Nat
    BY LockStores, StoredIsNat
  <2>2. escrow'[a] = escrow[a] - Share(o, a)
    <3>1. LockLegs(o).ce = -(o.ca + o.fee) /\ LockLegs(o).we = -o.wa
      BY DEF LockLegs
    <3>2. escrow'[a] = CASE a = o.c -> escrow[a] + LockLegs(o).ce
                         [] a = o.w -> escrow[a] + LockLegs(o).we
                         [] OTHER -> escrow[a]
      BY <1>0, <1>1, OfferFields DEF TypeOK
    <3>3. escrow[a] \in Nat
      BY <1>0 DEF TypeOK
    <3> QED BY <1>0, <3>1, <3>2, <3>3, OfferFields DEF Share
  <2>3. Share(o, a) \in Nat /\ escrow[a] \in Nat
    BY <1>0, OfferFields DEF TypeOK, Share
  <2>4. Holdings[a] = escrow[a] + StoredLocked(a) /\ Holdings'[a] = escrow'[a] + StoredLocked(a)'
    BY DEF Holdings
  <2> QED BY <2>1, <2>2, <2>3, <2>4
<1>3. Holdings' = Holdings
  BY <1>2 DEF Holdings
<1>4. bookBurned' = bookBurned
  BY <1>0, <1>1 DEF TypeOK
<1> QED BY <1>1, <1>3, <1>4, TotalStays DEF EcuConserved

LEMMA EndsConserve ==
    ASSUME StructureInv, StructureInv', NEW r \in RowIds, Open(r), Ends(r), EcuConserved
    PROVE  EcuConserved'
<1> DEFINE o == pairs[r].offer
<1>0. TypeOK /\ o \in Offers /\ o.c # o.w
  <2>1. pairs[r].cs # "none"
    BY DEF Open
  <2> QED BY <2>1, PairFields DEF StructureInv, LockedOnConsent
<1>1. PICK legs \in Legs : /\ legs.cl = -(o.ca + o.fee) /\ legs.wl = -o.wa
                           /\ Post(pairs[r].job, o, legs)
  BY DEF Ends, Close
<1>2. \A a \in Actors : StoredLocked(a)' = StoredLocked(a) - Share(o, a)
  BY EndingReleases
<1> HIDE DEF o
<1>3. /\ escrow' = [escrow EXCEPT ![o.c] = @ + legs.ce, ![o.w] = @ + legs.we]
      /\ bookIssued' = bookIssued /\ bookBurned' = bookBurned + legs.burn
      /\ legs.ce + legs.we + legs.cl + legs.wl + legs.burn = 0
  BY <1>1 DEF Post, Balanced
<1>4. /\ legs.ce \in Int /\ legs.we \in Int /\ legs.burn \in Nat
      /\ o.c \in Actors /\ o.w \in Actors /\ o.ca \in Nat /\ o.wa \in Nat /\ o.fee \in Nat
  BY <1>0, OfferFields DEF Legs
<1>5. \A a \in Actors : /\ Holdings[a] = escrow[a] + StoredLocked(a)
                        /\ Holdings'[a] = escrow'[a] + StoredLocked(a)'
                        /\ StoredLocked(a) \in Nat /\ escrow[a] \in Nat
  BY <1>0, StoredIsNat DEF Holdings, TypeOK
<1>6. \A a \in Actors \ {o.c, o.w} : Holdings'[a] = Holdings[a]
  <2> SUFFICES ASSUME NEW a \in Actors \ {o.c, o.w} PROVE Holdings'[a] = Holdings[a]
    OBVIOUS
  <2>1. escrow'[a] = escrow[a] /\ Share(o, a) = 0
    BY <1>0, <1>3 DEF TypeOK, Share
  <2> QED BY <1>2, <1>5, <2>1
<1>7. Holdings'[o.c] - Holdings[o.c] = legs.ce - (o.ca + o.fee)
  <2>1. escrow'[o.c] = escrow[o.c] + legs.ce /\ Share(o, o.c) = o.ca + o.fee
    BY <1>0, <1>3, <1>4 DEF TypeOK, Share
  <2> QED BY <1>2, <1>4, <1>5, <2>1
<1>8. Holdings'[o.w] - Holdings[o.w] = legs.we - o.wa
  <2>1. escrow'[o.w] = escrow[o.w] + legs.we /\ Share(o, o.w) = o.wa
    BY <1>0, <1>3, <1>4 DEF TypeOK, Share
  <2> QED BY <1>2, <1>4, <1>5, <2>1
<1>9. /\ EcuTotal' = EcuTotal + (legs.ce - (o.ca + o.fee)) + (legs.we - o.wa)
      /\ EcuTotal \in Int
  BY <1>0, <1>4, <1>6, <1>7, <1>8, TotalChange
<1>10. EcuTotal' = EcuTotal - legs.burn
  BY <1>1, <1>3, <1>4, <1>9
<1>11. /\ EcuTotal = SumFunctionOnSet(Opening, Actors) + bookIssued - bookBurned
       /\ SumFunctionOnSet(Opening, Actors) \in Int /\ bookIssued \in Nat /\ bookBurned \in Nat
  BY <1>0, OpeningAssumption, SumInt, FiniteAssumption DEF EcuConserved, TypeOK
<1> QED BY <1>3, <1>4, <1>10, <1>11 DEF EcuConserved

LEMMA ConservedStep ==
    ASSUME SerialInv, SerialInv', [SerialNext]_vars, EcuConserved
    PROVE  EcuConserved'
<1> USE DEF SerialInv
<1>0. TypeOK
  BY DEF StructureInv
<1>1. CASE Quiet \/ Consents
  <2>1. UNCHANGED <<pairs, escrow, bookIssued, bookBurned>>
    BY <1>1 DEF Quiet, Consents, ProposeTerms, AcceptTerms, moneyVars
  <2>2. Holdings' = Holdings
    BY <2>1, StoredStays DEF Holdings
  <2> QED BY <2>1, <2>2, TotalStays DEF EcuConserved
<1>2. CASE Banks
  BY <1>2, BanksConserve
<1>3. CASE Locks
  BY <1>3, LockConserves DEF Locks
<1>4. CASE EndsOpen
  BY <1>4, EndsConserve DEF EndsOpen
<1> QED BY <1>0, <1>1, <1>2, <1>3, <1>4, SerialKinds

LEMMA ConservedInit == Init => EcuConserved
<1> SUFFICES ASSUME Init PROVE EcuConserved
  OBVIOUS
<1>1. ASSUME NEW a \in Actors PROVE StoredLocked(a) = 0
  <2>1. \A r \in RowIds : HeldBy(a)[r] = 0
    BY DEF Init, NoPair, HeldBy
  <2> QED BY <2>1, SumZero, FiniteAssumption DEF StoredLocked
<1>2. \A a \in Actors : Holdings[a] = Opening[a]
  BY <1>1, OpeningAssumption DEF Holdings, Init
<1>3. EcuTotal = SumFunctionOnSet(Holdings, Actors)
  BY DEF EcuTotal, Holdings
<1>4. EcuTotal = SumFunctionOnSet(Opening, Actors) /\ SumFunctionOnSet(Opening, Actors) \in Int
  BY <1>2, <1>3, SumEqual, SumInt, FiniteAssumption, OpeningAssumption
<1> QED BY <1>4 DEF Init, EcuConserved

\* What the tables hold, spendable or locked, is what the opening balances and the
\* issues brought, less what the slashes burned: locking, settling, unwinding,
\* expiring, slashing, transferring and restarting create and destroy nothing.
THEOREM EcuIsConserved == SerialSpec => []EcuConserved
<1> DEFINE Inv == SerialInv /\ EcuConserved
<1>1. Init => Inv
  BY SerialInvInit, ConservedInit
<1>2. Inv /\ [SerialNext]_vars => Inv'
  BY SerialInvStep, ConservedStep
<1>3. Inv => EcuConserved
  OBVIOUS
<1> HIDE DEF Inv
<1> QED BY <1>1, <1>2, <1>3, PTL DEF SerialSpec

-----------------------------------------------------------------------------
(* The burn account and slash_log agree with the stake rows. *)

SlashedStakes == [r \in RowIds |-> SlashedStake(r)]
SlashedRow(r) == "slashed" \in {pairs[r].cs, pairs[r].ws}

\* A row is marked, for the log or in it, only once it is slashed.
MarkedSlashed == \A r \in slashing \cup slashLog : SlashedRow(r)

StakesOK == \A r \in RowIds : SlashedStake(r) \in Nat

LEMMA SlashedStakeTyped == StructureInv => StakesOK
<1> SUFFICES ASSUME StructureInv, NEW r \in RowIds PROVE SlashedStake(r) \in Nat
  BY DEF StakesOK
<1>1. CASE pairs[r].cs = "none"
  <2>1. pairs[r].ws = "none"
    BY <1>1 DEF StructureInv, TypeOK, Pair, NoPair
  <2> QED BY <1>1, <2>1 DEF SlashedStake
<1>2. CASE pairs[r].cs # "none"
  BY <1>2, PairFields, OfferFields DEF SlashedStake, StructureInv
<1> QED BY <1>1, <1>2

\* When one row changes, the sum changes by what that row says was slashed.
LEMMA SlashedChange ==
    ASSUME StructureInv, StructureInv', NEW r \in RowIds,
           \A s \in RowIds \ {r} : pairs'[s] = pairs[s]
    PROVE  SumFunctionOnSet(SlashedStakes, RowIds)'
             = SumFunctionOnSet(SlashedStakes, RowIds) + (SlashedStake(r)' - SlashedStake(r))
<1> DEFINE f == SlashedStakes
           g == SlashedStakes'
<1>1. StakesOK /\ StakesOK'
  BY SlashedStakeTyped, PTL
<1>2. \A s \in RowIds : f[s] = SlashedStake(s) /\ g[s] = SlashedStake(s)'
  BY DEF SlashedStakes
<1>3. \A s \in RowIds : f[s] \in Int /\ g[s] \in Int
  BY <1>1, <1>2 DEF StakesOK
<1>4. \A s \in RowIds \ {r} : g[s] = f[s]
  BY <1>2 DEF SlashedStake
<1>5. SumFunctionOnSet(SlashedStakes, RowIds)' = SumFunctionOnSet(g, RowIds)
  OBVIOUS
<1> HIDE DEF f, g
<1>6. SumFunctionOnSet(g, RowIds) = SumFunctionOnSet(f, RowIds) + (g[r] - f[r])
  BY <1>3, <1>4, SumChange, FiniteAssumption
<1> QED BY <1>2, <1>5, <1>6 DEF f

LEMMA BalanceOfLegs ==
    ASSUME NEW ce \in Int, NEW we \in Int, NEW cl \in Int, NEW wl \in Int, NEW burn \in Int,
           NEW ca \in Int, NEW fee \in Int, NEW wa \in Int,
           ce + we + cl + wl + burn = 0, cl = -(ca + fee), wl = -wa
    PROVE  ce + we + burn = ca + fee + wa
OBVIOUS

\* An ending burns what its statuses say: the legs balance, and all of them but
\* the burn are the contract's.
LEMMA EndsBurn ==
    ASSUME StructureInv, NEW r \in RowIds, Open(r), Ends(r)
    PROVE  /\ bookBurned' = bookBurned + SlashedStake(r)'
           /\ SlashedStake(r) = 0
           /\ \A s \in RowIds \ {r} : pairs'[s] = pairs[s]
<1> DEFINE o == pairs[r].offer
<1>1. pairs[r] \in Pair /\ o \in Offers /\ TypeOK /\ pairs[r].cs = "locked" /\ pairs[r].ws = "locked"
  BY PairFields DEF Open, StructureInv
<1>2. PICK cs, ws \in Statuses \ {"none", "locked"}, feeTo \in Sides, legs \in Legs,
           outcome \in Contract!Outcomes :
        /\ ~(cs = "slashed" /\ ws = "slashed")
        /\ legs.cl = -(o.ca + o.fee) /\ legs.wl = -o.wa
        /\ legs.ce = Contract!ToConsumer(o, outcome)
        /\ legs.we = Contract!ToWorker(o, outcome)
        /\ outcome = CASE cs = "slashed" -> "consumer_faulted"
                       [] ws = "slashed" -> "worker_faulted"
                       [] OTHER -> IF feeTo = "worker" THEN "delivered" ELSE "unwound"
        /\ Close(r, cs, ws, feeTo, legs)
  BY DEF Ends
<1>3. /\ pairs'[r].cs = cs /\ pairs'[r].ws = ws /\ pairs'[r].offer = o
      /\ \A s \in RowIds \ {r} : pairs'[s] = pairs[s]
  BY <1>1, <1>2 DEF Close, TypeOK, Pair
<1>4. bookBurned' = bookBurned + legs.burn
      /\ legs.ce + legs.we + legs.cl + legs.wl + legs.burn = 0
  BY <1>2 DEF Close, Post, Balanced
<1>5. SlashedStake(r) = 0
  BY <1>1 DEF SlashedStake
<1>6. ~(cs = "slashed" /\ ws = "slashed")
  BY <1>2
<1>7. /\ o.ca \in Nat /\ o.wa \in Nat /\ o.fee \in Nat /\ legs.burn \in Nat
      /\ legs.ce \in Int /\ legs.we \in Int
  BY <1>1, OfferFields DEF Legs
<1> HIDE DEF o
<1>7s. legs.ce + legs.we + legs.burn = o.ca + o.fee + o.wa
  <2>1. legs.cl = -(o.ca + o.fee) /\ legs.wl = -o.wa /\ legs.cl \in Int /\ legs.wl \in Int
    BY <1>2 DEF Legs
  <2>2. legs.ce + legs.we + legs.cl + legs.wl + legs.burn = 0
    BY <1>4
  <2> QED BY <1>7, <2>1, <2>2, BalanceOfLegs
<1>8. SlashedStake(r)' = legs.burn
  <2>1. SlashedStake(r)' = (IF cs = "slashed" THEN o.ca ELSE 0) + (IF ws = "slashed" THEN o.wa ELSE 0)
    BY <1>3 DEF SlashedStake
  <2>2. CASE cs = "slashed"
    <3>1. legs.ce = 0 /\ legs.we = o.wa + o.fee
      BY <1>2, <2>2 DEF Contract!ToConsumer, Contract!ToWorker
    <3>2. legs.burn = o.ca
      BY <1>7, <1>7s, <3>1
    <3> QED BY <1>6, <1>7, <2>1, <2>2, <3>2
  <2>3. CASE cs # "slashed" /\ ws = "slashed"
    <3>1. legs.ce = o.ca + o.fee /\ legs.we = 0
      BY <1>2, <2>3 DEF Contract!ToConsumer, Contract!ToWorker
    <3>2. legs.burn = o.wa
      BY <1>7, <1>7s, <3>1
    <3> QED BY <1>7, <2>1, <2>3, <3>2
  <2>4. CASE cs # "slashed" /\ ws # "slashed"
    <3>1. \/ legs.ce = o.ca /\ legs.we = o.wa + o.fee
          \/ legs.ce = o.ca + o.fee /\ legs.we = o.wa
      BY <1>2, <2>4 DEF Contract!ToConsumer, Contract!ToWorker
    <3>2. legs.burn = 0
      BY <1>7, <1>7s, <3>1
    <3> QED BY <2>1, <2>4, <3>2
  <2> QED BY <2>2, <2>3, <2>4
<1> QED BY <1>3, <1>4, <1>5, <1>8

\* What a step does to the marks: a dispute marks the row it slashes, its second
\* transaction moves or drops the mark, a restart drops those not yet logged.
LEMMA MarkKinds ==
    ASSUME [SerialNext]_vars
    PROVE  \/ slashing' \cup slashLog' \subseteq slashing \cup slashLog
           \/ \E r \in RowIds : /\ slashing' \cup slashLog' = slashing \cup slashLog \cup {r}
                               /\ \E side \in Sides : DisputeSlash(r, side)
<1>1. ASSUME NEW r \in RowIds, LogSlash(r) \/ LogSlashFailed(r)
      PROVE  slashing' \cup slashLog' \subseteq slashing \cup slashLog
  BY <1>1 DEF LogSlash, LogSlashFailed
<1>2. ASSUME NEW r \in RowIds, NEW side \in Sides, DisputeSlash(r, side)
      PROVE  slashing' \cup slashLog' = slashing \cup slashLog \cup {r}
  BY <1>2 DEF DisputeSlash
<1>3. CASE StakeNext
  BY <1>1, <1>2, <1>3 DEF StakeNext, Credit, FundEscrow, Issue, Transfer, ProposeTerms,
     AcceptTerms, Lock, AbortUnstarted, SweepList, SweepSkip, SweepExpire, stakeVars
<1>4. CASE JobNext
  BY <1>4 DEF JobNext, JobRequest, CompleteRefused, CompleteCheck, CompleteMine, CompleteSettle,
     CompleteUnsettled, JobDone, Flush, FlushLost, stakeVars
<1>5. CASE ProcessNext \/ UNCHANGED vars
  BY <1>5 DEF ProcessNext, Crash, Boot, Tick, vars, stakeVars
<1> QED BY <1>3, <1>4, <1>5 DEF SerialNext

LEMMA MarkedStep ==
    ASSUME SerialInv, MarkedSlashed, [SerialNext]_vars
    PROVE  MarkedSlashed'
<1>0. TypeOK
  BY DEF SerialInv, StructureInv
<1>1. ASSUME NEW r \in RowIds, SlashedRow(r) PROVE SlashedRow(r)'
  <2>1. pairs[r].cs \notin {"none", "locked"}
    BY <1>0, <1>1 DEF SlashedRow, SerialInv, StructureInv, OneOpenLock, TypeOK, NoPair, Pair
  <2> QED BY <1>1, <2>1, FinalStep DEF SlashedRow
<1>2. ASSUME NEW r \in RowIds, NEW side \in Sides, DisputeSlash(r, side) PROVE SlashedRow(r)'
  <2>1. pairs[r] \in Pair
    BY <1>0, <1>2, PairFields DEF DisputeSlash, Open
  <2>2. \/ Close(r, "slashed", "released", "worker", SlashLegs(pairs[r].offer, side))
        \/ Close(r, "released", "slashed", "consumer", SlashLegs(pairs[r].offer, side))
    BY <1>2 DEF DisputeSlash
  <2> QED BY <1>0, <2>1, <2>2 DEF Close, TypeOK, Pair, SlashedRow
<1>3. slashing \subseteq RowIds /\ slashLog \subseteq RowIds
  BY <1>0 DEF TypeOK
<1> QED BY <1>1, <1>2, <1>3, MarkKinds DEF MarkedSlashed

LEMMA AccountedStep ==
    ASSUME SerialInv, SerialInv', MarkedSlashed, SlashesAccounted, [SerialNext]_vars
    PROVE  SlashesAccounted'
<1> USE DEF SerialInv
<1>1. \A r \in slashLog' : SlashedRow(r)'
  BY MarkedStep DEF MarkedSlashed
<1>2. /\ bookBurned = SumFunctionOnSet(SlashedStakes, RowIds)
      /\ TypeOK /\ bookBurned \in Nat
      /\ \A r \in RowIds : SlashedStake(r) \in Nat
  BY SlashedStakeTyped DEF SlashesAccounted, SlashedStakes, StakesOK, StructureInv, TypeOK
<1>3. CASE Quiet \/ Banks \/ Consents
  <2>1. UNCHANGED <<pairs, bookBurned>>
    BY <1>3 DEF Quiet, Banks, Credit, FundEscrow, Issue, Transfer, Consents, ProposeTerms,
                AcceptTerms, moneyVars, stakeVars
  <2>2. SlashedStakes' = SlashedStakes
    BY <2>1 DEF SlashedStakes, SlashedStake
  <2> QED BY <1>1, <1>2, <2>1, <2>2 DEF SlashesAccounted, SlashedStakes, SlashedRow
<1>4. ASSUME NEW r \in RowIds, NEW j \in Jobs, NEW o \in Offers, NEW t, Lock(r, j, o, t)
      PROVE  SlashesAccounted'
  <2>1. /\ pairs[r].cs = "none" /\ pairs[r].ws = "none"
        /\ pairs'[r].cs = "locked" /\ pairs'[r].ws = "locked"
        /\ \A s \in RowIds \ {r} : pairs'[s] = pairs[s]
    BY <1>2, <1>4 DEF Lock, TypeOK, Pair, NoPair
  <2>2. SlashedStake(r) = 0 /\ SlashedStake(r)' = 0
    BY <2>1 DEF SlashedStake
  <2>3. bookBurned' = bookBurned + 0
    BY <1>4 DEF Lock, Post, LockLegs
  <2>4. SumFunctionOnSet(SlashedStakes, RowIds)'
          = SumFunctionOnSet(SlashedStakes, RowIds) + (SlashedStake(r)' - SlashedStake(r))
    BY <2>1, SlashedChange
  <2>5. bookBurned' = SumFunctionOnSet(SlashedStakes, RowIds)'
    BY <1>2, <2>2, <2>3, <2>4
  <2> QED BY <1>1, <2>5 DEF SlashesAccounted, SlashedStakes, SlashedRow
<1>5. ASSUME NEW r \in RowIds, Open(r), Ends(r) PROVE SlashesAccounted'
  <2>1. /\ bookBurned' = bookBurned + SlashedStake(r)' /\ SlashedStake(r) = 0
        /\ \A s \in RowIds \ {r} : pairs'[s] = pairs[s]
    BY <1>5, EndsBurn
  <2>2. SumFunctionOnSet(SlashedStakes, RowIds)'
          = SumFunctionOnSet(SlashedStakes, RowIds) + (SlashedStake(r)' - SlashedStake(r))
    BY <2>1, SlashedChange
  <2>3. SlashedStake(r)' \in Nat
    <3>1. StakesOK'
      BY SlashedStakeTyped, PTL
    <3> QED BY <3>1 DEF StakesOK
  <2>4. bookBurned' = SumFunctionOnSet(SlashedStakes, RowIds)'
    BY <1>2, <2>1, <2>2, <2>3
  <2> QED BY <1>1, <2>4 DEF SlashesAccounted, SlashedStakes, SlashedRow
<1> QED BY <1>3, <1>4, <1>5, SerialKinds DEF Locks, EndsOpen, StructureInv

LEMMA AccountedInit == Init => SlashesAccounted /\ MarkedSlashed
<1> SUFFICES ASSUME Init PROVE SlashesAccounted /\ MarkedSlashed
  OBVIOUS
<1>1. \A r \in RowIds : SlashedStakes[r] = 0
  BY DEF Init, NoPair, SlashedStakes, SlashedStake
<1>2. SumFunctionOnSet(SlashedStakes, RowIds) = 0
  BY <1>1, SumZero, FiniteAssumption
<1> QED BY <1>2 DEF Init, SlashesAccounted, SlashedStakes, MarkedSlashed

\* The burn account is the sum of the stakes the rows say were slashed, and
\* slash_log names only slashed locks, whichever slash_log rows were never written.
THEOREM SlashesAreAccounted == SerialSpec => []SlashesAccounted
<1> DEFINE Inv == SerialInv /\ MarkedSlashed /\ SlashesAccounted
<1>1. Init => Inv
  BY SerialInvInit, AccountedInit
<1>2. Inv /\ [SerialNext]_vars => Inv'
  BY SerialInvStep, MarkedStep, AccountedStep
<1>3. Inv => SlashesAccounted
  OBVIOUS
<1> HIDE DEF Inv
<1> QED BY <1>1, <1>2, <1>3, PTL DEF SerialSpec

-----------------------------------------------------------------------------
(* A worker's fee is earned, a pair of actors is capped: two invariants of   *)
(* the code as it stands, the sweep's early read and all.                    *)

\* What an action does to the rows' statuses and fees.
RowsStay == pairs' = pairs
RowChanges(r, cs, ws, feeTo) ==
    pairs' = [pairs EXCEPT ![r].cs = cs, ![r].ws = ws, ![r].feeTo = feeTo]

LEMMA RowFields ==
    ASSUME TypeOK, NEW r \in RowIds, pairs[r].cs # "none", NEW cs, NEW ws, NEW feeTo,
           RowChanges(r, cs, ws, feeTo)
    PROVE  /\ pairs'[r].cs = cs /\ pairs'[r].ws = ws /\ pairs'[r].feeTo = feeTo
           /\ pairs'[r].job = pairs[r].job /\ pairs'[r].offer = pairs[r].offer
           /\ pairs'[r].at = pairs[r].at
           /\ \A s \in RowIds \ {r} : pairs'[s] = pairs[s]
<1>1. pairs[r] \in Pair
  BY PairFields
<1> QED BY <1>1 DEF RowChanges, TypeOK, Pair

\* What a step does to the rows: nothing, a new lock, or an ending by one of the
\* four calls and the sweep.
NewRow == \E r \in RowIds : \E j \in Jobs : \E o \in Offers : \E t \in 0 .. now : Lock(r, j, o, t)
Unwinds == \E r \in RowIds : /\ pairs[r].cs # "none"
                             /\ \E end \in {"aborted", "expired"} : RowChanges(r, end, end, "consumer")
Delivers ==
    \E r \in RowIds :
        /\ pairs[r].cs # "none"
        /\ \/ jobDb[pairs[r].job] = "completed" /\ RowChanges(r, "expired", "expired", "worker")
           \/ /\ completing.pc = "mined" /\ completing.job = pairs[r].job
              /\ RowChanges(r, "released", "released", "worker")
Slashes ==
    \E r \in RowIds :
        /\ pairs[r].cs # "none"
        /\ \/ RowChanges(r, "slashed", "released", "worker")
           \/ RowChanges(r, "released", "slashed", "consumer")
        /\ slashing' = slashing \cup {r} /\ slashLog' = slashLog /\ crashes' = crashes

LEMMA RowKinds ==
    ASSUME StructureInv, [Next]_vars
    PROVE  RowsStay \/ NewRow \/ Unwinds \/ Delivers \/ Slashes
<1> USE DEF StructureInv
<1>1. ASSUME NEW r \in RowIds, pairs[r].cs # "none", Expire(r) PROVE Unwinds \/ Delivers
  <2>1. CASE jobDb[pairs[r].job] = "completed"
    BY <1>1, <2>1 DEF Expire, Close, Delivers, RowChanges
  <2>2. CASE jobDb[pairs[r].job] # "completed"
    BY <1>1, <2>2 DEF Expire, Close, Unwinds, RowChanges
  <2> QED BY <2>1, <2>2
<1>2. CASE SweepExpireFirst
  <2>1. sweep.row \in RowIds /\ pairs[sweep.row].cs # "none" /\ Expire(sweep.row)
    BY <1>2 DEF SweepExpireFirst, SweepHoldsPair
  <2> QED BY <1>1, <2>1
<1>3. ASSUME NEW j \in Jobs, SweepExpire(j) PROVE Unwinds \/ Delivers
  BY <1>1, <1>3 DEF SweepExpire, OpenOf, Open
<1>4. ASSUME NEW r \in RowIds, AbortUnstarted(r) PROVE Unwinds
  BY <1>4 DEF AbortUnstarted, Open, Close, Unwinds, RowChanges
<1>5. ASSUME NEW r \in RowIds, NEW side \in Sides, DisputeSlash(r, side) PROVE Slashes
  <2>1. /\ pairs[r].cs # "none"
        /\ slashing' = slashing \cup {r} /\ slashLog' = slashLog /\ crashes' = crashes
    BY <1>5 DEF DisputeSlash, Open
  <2>2. \/ RowChanges(r, "slashed", "released", "worker")
        \/ RowChanges(r, "released", "slashed", "consumer")
    BY <1>5 DEF DisputeSlash, Close, RowChanges
  <2> QED BY <2>1, <2>2 DEF Slashes
<1>6. ASSUME NEW r \in RowIds, CompleteSettle(r) PROVE Delivers
  BY <1>6 DEF CompleteSettle, OpenOf, Open, Close, Delivers, RowChanges
<1>7. CASE StakeNext
  BY <1>7, <1>3, <1>4, <1>5 DEF StakeNext, Credit, FundEscrow, Issue, Transfer, ProposeTerms,
     AcceptTerms, LogSlash, LogSlashFailed, SweepList, SweepSkip, RowsStay, NewRow, stakeVars
<1>8. CASE JobNext
  BY <1>8, <1>6 DEF JobNext, JobRequest, CompleteRefused, CompleteCheck, CompleteMine,
     CompleteUnsettled, Flush, FlushLost, RowsStay, stakeVars
<1>9. CASE ProcessNext \/ UNCHANGED vars \/ \E j \in Jobs : SweepReadFirst(j)
  BY <1>9 DEF ProcessNext, Crash, Boot, Tick, vars, SweepReadFirst, RowsStay, stakeVars
<1> QED BY <1>2, <1>7, <1>8, <1>9 DEF Next, SerialNext

-----------------------------------------------------------------------------
\* Wherever a completion stands, on its way to the jobs table or in it, the HEXIS
\* of its job was mined.
CompletionsMined ==
    /\ \A j \in Jobs : jobDb[j] = "completed" => mined[j] > 0
    /\ \A i \in 1 .. Len(queue) : queue[i].status = "completed" => mined[queue[i].job] > 0
    /\ completing.pc = "mined" => mined[completing.job] > 0

LEMMA SubmittedMined ==
    ASSUME TypeOK, CompletionsMined, NEW j \in Jobs, NEW s \in JobStates,
           s = "completed" => mined[j] > 0, queue' = Submitted(j, s)
    PROVE  \A i \in 1 .. Len(queue') : queue'[i].status = "completed" => mined[queue'[i].job] > 0
<1> DEFINE new == [job |-> j, status |-> s]
<1>1. queue \in Seq(Write) /\ new \in Write
  BY DEF TypeOK, Write
<1>2. CASE queue' = queue
  BY <1>2 DEF CompletionsMined
<1>3. CASE queue' = Append(queue, new)
  <2> SUFFICES ASSUME NEW i \in 1 .. Len(queue'), queue'[i].status = "completed"
               PROVE  mined[queue'[i].job] > 0
    OBVIOUS
  <2>1. \/ i \in 1 .. Len(queue) /\ queue'[i] = queue[i]
        \/ queue'[i] = new
    BY <1>1, <1>3
  <2>2. CASE i \in 1 .. Len(queue) /\ queue'[i] = queue[i]
    BY <2>2 DEF CompletionsMined
  <2>3. CASE queue'[i] = new
    BY <2>3
  <2> QED BY <2>1, <2>2, <2>3
<1> QED BY <1>2, <1>3 DEF Submitted

LEMMA CompletionsStep ==
    ASSUME TypeOK, CompletionsMined, [Next]_vars
    PROVE  CompletionsMined' /\ \A j \in Jobs : mined[j] > 0 => mined'[j] > 0
<1>0. /\ queue \in Seq(Write) /\ mined \in [Jobs -> Nat] /\ jobDb \in [Jobs -> JobStates]
      /\ completing.pc # "idle" => completing.job \in Jobs
      /\ "pending" \in JobStates /\ "void" \in JobStates /\ "completed" \in JobStates
  BY DEF TypeOK, Idle, JobStates
<1>1. ASSUME UNCHANGED <<jobDb, queue, completing, mined>>
      PROVE  CompletionsMined' /\ \A j \in Jobs : mined[j] > 0 => mined'[j] > 0
  BY <1>1 DEF CompletionsMined
<1>2. CASE StakeNext
  BY <1>1, <1>2 DEF StakeNext, Credit, FundEscrow, Issue, Transfer, ProposeTerms, AcceptTerms,
     Lock, AbortUnstarted, DisputeSlash, LogSlash, LogSlashFailed,
     SweepList, SweepSkip, SweepExpire, jobVars
<1>3. ASSUME NEW j \in Jobs, JobRequest(j) \/ CompleteRefused(j)
      PROVE  CompletionsMined' /\ mined' = mined
  <2>1. queue' = Submitted(j, "pending") \/ queue' = Submitted(j, "void")
    BY <1>3 DEF JobRequest, CompleteRefused
  <2>2. UNCHANGED <<jobDb, completing, mined>>
    BY <1>3 DEF JobRequest, CompleteRefused
  <2>3. \A i \in 1 .. Len(queue') : queue'[i].status = "completed" => mined[queue'[i].job] > 0
    BY <1>0, <2>1, SubmittedMined
  <2> QED BY <2>2, <2>3 DEF CompletionsMined
<1>4. ASSUME NEW j \in Jobs, CompleteCheck(j) PROVE CompletionsMined' /\ mined' = mined
  BY <1>4 DEF CompleteCheck, CompletionsMined
<1>5. CASE CompleteMine
  <2>1. /\ completing.job \in Jobs /\ mined' = [mined EXCEPT ![completing.job] = @ + 1]
        /\ completing'.job = completing.job /\ UNCHANGED <<jobDb, queue>>
    BY <1>0, <1>5 DEF CompleteMine
  <2>2. \A j \in Jobs : mined'[j] >= mined[j] /\ mined'[completing.job] > 0 /\ mined'[j] \in Nat
    BY <1>0, <2>1
  <2>3. \A i \in 1 .. Len(queue) : queue[i].job \in Jobs
    <3>1. \A i \in 1 .. Len(queue) : queue[i] \in Write
      BY <1>0
    <3> QED BY <3>1 DEF Write
  <2>4. \A j \in Jobs : mined[j] > 0 => mined'[j] > 0
    BY <1>0, <2>2
  <2>5. CompletionsMined'
    BY <2>1, <2>2, <2>3, <2>4 DEF CompletionsMined
  <2> QED BY <2>4, <2>5
<1>6. CASE CompleteUnsettled \/ \E r \in RowIds : CompleteSettle(r)
  <2>1. completing.pc = "mined" /\ JobDone
    BY <1>6 DEF CompleteUnsettled, CompleteSettle
  <2>2. \A i \in 1 .. Len(queue') : queue'[i].status = "completed" => mined[queue'[i].job] > 0
    BY <1>0, <2>1, SubmittedMined DEF JobDone, CompletionsMined
  <2>3. completing'.pc = "idle" /\ UNCHANGED <<jobDb, mined>>
    BY <2>1 DEF JobDone, Idle
  <2> QED BY <2>2, <2>3 DEF CompletionsMined
<1>7. CASE Flush \/ FlushLost
  <2>1. queue # <<>> /\ queue' = Tail(queue) /\ UNCHANGED <<completing, mined>>
    BY <1>7 DEF Flush, FlushLost
  <2>2. \A i \in 1 .. Len(queue') : queue'[i].status = "completed" => mined[queue'[i].job] > 0
    <3>1. \A i \in 1 .. Len(queue') : i + 1 \in 1 .. Len(queue) /\ queue'[i] = queue[i + 1]
      BY <1>0, <2>1
    <3> QED BY <3>1 DEF CompletionsMined
  <2>3. \A j \in Jobs : jobDb'[j] = "completed" => mined[j] > 0
    <3>1. Head(queue) = queue[1] /\ 1 \in 1 .. Len(queue) /\ Head(queue).job \in Jobs
      <4>1. Head(queue) = queue[1] /\ 1 \in 1 .. Len(queue) /\ Head(queue) \in Write
        BY <1>0, <2>1
      <4> QED BY <4>1 DEF Write
    <3>2. CASE Flush
      <4>1. ASSUME NEW j \in Jobs, jobDb'[j] = "completed"
            PROVE  \/ jobDb[j] = "completed"
                   \/ j = Head(queue).job /\ Head(queue).status = "completed"
        BY <1>0, <3>1, <3>2, <4>1 DEF Flush
      <4> QED BY <3>1, <4>1 DEF CompletionsMined
    <3>3. CASE FlushLost
      BY <3>3 DEF FlushLost, CompletionsMined
    <3> QED BY <1>7, <3>2, <3>3
  <2> QED BY <2>1, <2>2, <2>3 DEF CompletionsMined
<1>8. CASE Crash
  <2>1. queue' = <<>> /\ completing'.pc = "idle" /\ UNCHANGED <<jobDb, mined>>
    BY <1>8 DEF Crash, Idle
  <2> QED BY <2>1 DEF CompletionsMined
<1>9. CASE \/ Boot \/ Tick \/ UNCHANGED vars \/ SweepExpireFirst
           \/ \E j \in Jobs : SweepReadFirst(j)
  BY <1>1, <1>9 DEF Boot, Tick, vars, SweepReadFirst, SweepExpireFirst, jobVars
<1> QED BY <1>2, <1>3, <1>4, <1>5, <1>6, <1>7, <1>8, <1>9 DEF Next, SerialNext, JobNext, ProcessNext

LEMMA FeeStep ==
    ASSUME StructureInv, CompletionsMined, FeeOnlyForMinedWork, [Next]_vars
    PROVE  FeeOnlyForMinedWork'
<1> USE DEF StructureInv
<1> SUFFICES ASSUME NEW r \in RowIds, pairs'[r].feeTo = "worker", pairs'[r].cs # "slashed"
             PROVE  mined'[pairs'[r].job] > 0
  BY DEF FeeOnlyForMinedWork
<1>1. \A j \in Jobs : mined[j] > 0 => mined'[j] > 0
  BY CompletionsStep
<1>2. CASE pairs'[r] = pairs[r]
  <2>1. pairs[r] \in Pair
    BY <1>2 DEF TypeOK, NoPair
  <2>2. mined[pairs[r].job] > 0
    BY <1>2 DEF FeeOnlyForMinedWork
  <2> QED BY <1>1, <1>2, <2>1, <2>2 DEF Pair
<1>3. CASE NewRow
  <2>1. PICK s \in RowIds, j \in Jobs, o \in Offers, t \in 0 .. now : Lock(s, j, o, t)
    BY <1>3 DEF NewRow
  <2>2. pairs'[s].feeTo = "nobody" /\ \A q \in RowIds \ {s} : pairs'[q] = pairs[q]
    BY <2>1 DEF Lock, TypeOK
  <2> QED BY <1>2, <2>2
<1>4. CASE Unwinds
  BY <1>2, <1>4, RowFields DEF Unwinds
<1>5. CASE Delivers
  <2>1. PICK s \in RowIds :
          /\ pairs[s].cs # "none"
          /\ \/ jobDb[pairs[s].job] = "completed" /\ RowChanges(s, "expired", "expired", "worker")
             \/ /\ completing.pc = "mined" /\ completing.job = pairs[s].job
                /\ RowChanges(s, "released", "released", "worker")
    BY <1>5 DEF Delivers
  <2>2. pairs[s].job \in Jobs /\ mined[pairs[s].job] > 0
    BY <2>1, PairFields DEF CompletionsMined
  <2>3. pairs'[s].job = pairs[s].job /\ \A q \in RowIds \ {s} : pairs'[q] = pairs[q]
    BY <2>1, RowFields
  <2>4. CASE r = s
    BY <1>1, <2>2, <2>3, <2>4
  <2> QED BY <1>2, <2>3, <2>4
<1>6. CASE Slashes
  BY <1>2, <1>6, RowFields DEF Slashes
<1> QED BY <1>2, <1>3, <1>4, <1>5, <1>6, RowKinds DEF RowsStay

\* Outside a dispute the fee reaches a worker only for a job whose HEXIS was mined,
\* even when the sweep pays by the status of an earlier lock of the same job.
THEOREM FeesEarned == Spec => []FeeOnlyForMinedWork
<1> DEFINE Inv == StructureInv /\ CompletionsMined /\ FeeOnlyForMinedWork
<1>1. Init => Inv
  <2> SUFFICES ASSUME Init PROVE CompletionsMined /\ FeeOnlyForMinedWork
    BY StructureInit
  <2>1. CompletionsMined
    BY DEF Init, Idle, CompletionsMined
  <2>2. FeeOnlyForMinedWork
    BY DEF Init, NoPair, FeeOnlyForMinedWork
  <2> QED BY <2>1, <2>2
<1>2. Inv /\ [Next]_vars => Inv'
  BY StructureStep, CompletionsStep, FeeStep DEF StructureInv
<1>3. Inv => FeeOnlyForMinedWork
  OBVIOUS
<1> HIDE DEF Inv
<1> QED BY <1>1, <1>2, <1>3, PTL DEF Spec

-----------------------------------------------------------------------------
\* The locks one pair of actors opened in the window that ends with r's.
WindowOf(r) ==
    {s \in RowIds : /\ pairs[s].cs # "none"
                    /\ pairs[s].offer.c = pairs[r].offer.c
                    /\ pairs[s].offer.w = pairs[r].offer.w
                    /\ pairs[s].at \in pairs[r].at - (PairWindow - LockWait) .. pairs[r].at}

\* A row keeps its parties, its time and its existence whatever ends it.
RowKept(r) ==
    /\ pairs[r].cs # "none" <=> pairs'[r].cs # "none"
    /\ pairs'[r].offer = pairs[r].offer /\ pairs'[r].at = pairs[r].at

LEMMA EndingsKeep ==
    ASSUME TypeOK, RowsStay \/ Unwinds \/ Delivers \/ Slashes
    PROVE  \A r \in RowIds : RowKept(r)
<1>1. ASSUME NEW r \in RowIds, pairs[r].cs # "none", NEW cs \in Statuses \ {"none"}, NEW ws,
             NEW feeTo, RowChanges(r, cs, ws, feeTo)
      PROVE  \A s \in RowIds : RowKept(s)
  BY <1>1, RowFields DEF RowKept
<1>2. {"released", "aborted", "expired", "slashed"} \subseteq Statuses \ {"none"}
  BY DEF Statuses
<1>3. CASE Unwinds
  BY <1>1, <1>2, <1>3 DEF Unwinds
<1>4. CASE Delivers
  BY <1>1, <1>2, <1>4 DEF Delivers
<1>5. CASE Slashes
  BY <1>1, <1>2, <1>5 DEF Slashes
<1>6. CASE RowsStay
  BY <1>6 DEF RowsStay, RowKept
<1> QED BY <1>3, <1>4, <1>5, <1>6

LEMMA CapStep ==
    ASSUME StructureInv, PairCapHolds, [Next]_vars
    PROVE  PairCapHolds'
<1> USE DEF StructureInv
<1>0. /\ \A r \in RowIds : pairs[r].cs # "none" => Cardinality(WindowOf(r)) <= PairCap
      /\ now \in Nat /\ PairCap \in Nat /\ PairWindow \in Nat
      /\ LockWait \in Nat /\ LockWait <= PairWindow
      /\ \A r \in RowIds : pairs[r].at \in Nat
  <2>1. \A r \in RowIds : pairs[r].at \in Nat
    BY DEF TypeOK, Pair, NoPair
  <2> QED BY <2>1, BoundsAssumption DEF PairCapHolds, WindowOf, TypeOK
<1>1. CASE RowsStay \/ Unwinds \/ Delivers \/ Slashes
  <2>1. \A r \in RowIds : RowKept(r)
    BY <1>1, EndingsKeep
  <2>2. \A r \in RowIds : WindowOf(r)' = WindowOf(r)
    BY <2>1 DEF WindowOf, RowKept
  <2>4. \A r \in RowIds : pairs'[r].cs # "none" => Cardinality(WindowOf(r)') <= PairCap
    BY <1>0, <2>1, <2>2 DEF RowKept
  <2> QED BY <2>4 DEF PairCapHolds, WindowOf
<1>2. ASSUME NEW n \in RowIds, NEW j \in Jobs, NEW o \in Offers, NEW t, Lock(n, j, o, t)
      PROVE  PairCapHolds'
  <2> DEFINE S == {s \in RowIds : /\ pairs[s].cs # "none"
                                  /\ pairs[s].offer.c = o.c
                                  /\ pairs[s].offer.w = o.w
                                  /\ pairs[s].at >= now - PairWindow}
  <2>1. /\ pairs[n].cs = "none" /\ pairs'[n].cs = "locked" /\ pairs'[n].offer = o
        /\ pairs'[n].at = t /\ t \in 0 .. now /\ now - t <= LockWait
        /\ \A s \in RowIds \ {n} : pairs'[s] = pairs[s]
    BY <1>2 DEF Lock, TypeOK
  <2>2. Cardinality(S) < PairCap
    BY <1>2 DEF Lock, PairCount
  <2>3. IsFiniteSet(S) /\ IsFiniteSet(S \cup {n}) /\ Cardinality(S \cup {n}) <= PairCap
    <3>1. IsFiniteSet(S)
      BY FiniteAssumption, FS_Subset
    <3>2. Cardinality(S) \in Nat /\ Cardinality(S \cup {n}) <= Cardinality(S) + 1
          /\ IsFiniteSet(S \cup {n}) /\ Cardinality(S \cup {n}) \in Nat
      <4>1. Cardinality(S) \in Nat
        BY <3>1, FS_CardinalityType
      <4>2. /\ IsFiniteSet(S \cup {n})
            /\ Cardinality(S \cup {n}) \in {Cardinality(S), Cardinality(S) + 1}
        BY <3>1, FS_AddElement, Zenon
      <4> QED BY <4>1, <4>2
    <3> QED BY <1>0, <2>2, <3>1, <3>2
  <2>5. ASSUME NEW r \in RowIds, pairs'[r].cs # "none"
        PROVE  Cardinality(WindowOf(r)') <= PairCap
    <3> DEFINE W == WindowOf(r)'
    <3>1. W = {s \in RowIds : /\ pairs'[s].cs # "none"
                              /\ pairs'[s].offer.c = pairs'[r].offer.c
                              /\ pairs'[s].offer.w = pairs'[r].offer.w
                              /\ pairs'[s].at \in pairs'[r].at - (PairWindow - LockWait) .. pairs'[r].at}
      BY DEF WindowOf
    <3> HIDE DEF W
    <3>2. CASE n \in W
      <4>0. pairs'[r].at \in Nat
        BY <1>0, <2>1
      <4>1. /\ now - LockWait <= pairs'[r].at
            /\ pairs'[r].offer.c = o.c /\ pairs'[r].offer.w = o.w
        BY <1>0, <2>1, <2>5, <3>1, <3>2, <4>0
      <4>2. W \subseteq S \cup {n}
        <5> SUFFICES ASSUME NEW s \in W, s # n PROVE s \in S
          OBVIOUS
        <5>1. s \in RowIds /\ pairs'[s] = pairs[s]
          BY <2>1, <3>1
        <5>2. /\ pairs[s].cs # "none" /\ pairs[s].offer.c = o.c /\ pairs[s].offer.w = o.w
              /\ pairs[s].at >= pairs'[r].at - (PairWindow - LockWait)
          BY <1>0, <3>1, <4>0, <4>1, <5>1
        <5>3. pairs[s].at >= now - PairWindow
          BY <1>0, <4>0, <4>1, <5>1, <5>2
        <5> QED BY <5>1, <5>2, <5>3
      <4>3. Cardinality(W) <= Cardinality(S \cup {n}) /\ Cardinality(W) \in Nat
            /\ Cardinality(S \cup {n}) \in Nat
        BY <2>3, <4>2, FS_Subset, FS_CardinalityType
      <4> QED BY <1>0, <2>3, <4>3 DEF W
    <3>3. CASE n \notin W
      <4>1. r # n
        BY <1>0, <2>1, <3>1, <3>3, t \in Nat
      <4>2. W = WindowOf(r)
        BY <2>1, <3>1, <3>3, <4>1 DEF WindowOf
      <4> QED BY <1>0, <2>1, <2>5, <4>1, <4>2 DEF W
    <3> QED BY <3>2, <3>3
  <2> QED BY <2>5 DEF PairCapHolds, WindowOf
<1> QED BY <1>1, <1>2, RowKinds DEF NewRow

\* No two actors have more than PairCap locks dated within PairWindow less the time
\* a lock may wait, a lock that has ended counting as much as one that is open: a
\* lock that finds the others dated so close counts them all, however long it waited.
THEOREM PairsCapped == Spec => []PairCapHolds
<1> DEFINE Inv == StructureInv /\ PairCapHolds
<1>1. Init => Inv
  BY StructureInit DEF Init, NoPair, PairCapHolds
<1>2. Inv /\ [Next]_vars => Inv'
  BY StructureStep, CapStep
<1>3. Inv => PairCapHolds
  OBVIOUS
<1> HIDE DEF Inv
<1> QED BY <1>1, <1>2, <1>3, PTL DEF Spec
=============================================================================
