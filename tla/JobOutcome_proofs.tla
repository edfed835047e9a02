------------------------- MODULE JobOutcome_proofs -------------------------
(***************************************************************************)
(* A job's gate, its mint and its selection, for every number of workers,  *)
(* jobs, tries, epochs and restarts, every floor, window and expiry.       *)
(*                                                                         *)
(* GateHolds alone is not inductive: a flag is raised from a queued write  *)
(* or by a submission the spot check has cleared, so both must already     *)
(* belong to a worker that earned it, and a submission under way must be   *)
(* one that was in time (EarnedOnTheWay).                                  *)
(*                                                                         *)
(* MintsCounted needs that no score is nothing (WorthIts): a mint of       *)
(* nothing would be in the index and never in the count.  That C lies      *)
(* between C_MIN and C_MAX is used there.                                  *)
(*                                                                         *)
(* SelectionProvable needs that epochs do not overlap (EpochsInOrder), so  *)
(* that the epoch a delivery's row falls into and the one its selection    *)
(* ran in are the same (RanRight), that every opening stands between its   *)
(* epoch's two rows in the chain (OpenedBetween), and that an audit and    *)
(* the row of its opening come together (AuditsOpened, OpeningsRan).       *)
(***************************************************************************)
EXTENDS JobOutcome, Sums_proofs, SequenceTheorems

Challenge == [at : Nat, status : {"pending", "passed", "failed"}]
Check == [worker : Workers, try : Nat, elapsed : Int, step : {"checking", "passed"}]
Job == [worker : Workers, step : {"pending", "completed"}]
FlagWrite == [worker : Workers, sets : {"no", "passed"}]

GateTypes ==
    /\ members \in [Workers -> Flags] /\ rows \in [Workers -> Flags]
    /\ writes \in Seq(FlagWrite)
    /\ registering \subseteq Workers
    /\ challenges \in [Workers -> Challenge \cup {None}]
    /\ verifying \subseteq Check
    /\ jobs \in [Jobs -> Job \cup {None}]
    /\ now \in Nat /\ boots \in Nat /\ tries \in Nat

CountTypes == calls \in Nat /\ uncounted \in Nat

\* Every flag, queued flag and cleared submission belongs to a worker that earned it.
EarnedOnTheWay ==
    /\ \A w \in Workers : members[w] = "passed" => w \in earned
    /\ \A w \in Workers : rows[w] = "passed" => w \in earned
    /\ \A i \in 1 .. Len(writes) : writes[i].sets = "passed" => writes[i].worker \in earned
    /\ \A v \in verifying : v.elapsed <= TMax /\ (v.step = "passed" => v.worker \in earned)

JobsEarned == \A j \in Jobs \ unread : jobs[j] # None => jobs[j].worker \in earned

GateInv == GateTypes /\ CountTypes /\ EarnedOnTheWay /\ JobsEarned

-----------------------------------------------------------------------------
(* What the steps of job_complete and of a stop do to the gate *)

\* A mint adds at most one entry.
LEMMA MintedLength ==
    ASSUME NEW w, NEW country, NEW energy, NEW raises
    PROVE  Len(Minted(w, country, energy, raises)) \in Nat
  <1>1. \/ Minted(w, country, energy, raises) = << >>
        \/ \E e : Minted(w, country, energy, raises) = <<e>>
    BY DEF Minted
  <1>2. Len(<< >>) = 0 /\ \A e : Len(<<e>>) = 1
    OBVIOUS
  <1> QED BY <1>1, <1>2

LEMMA MintCounts ==
    ASSUME CountTypes, NEW w, NEW country, NEW minted, NEW log, NEW upto,
           Len(minted) \in Nat, Mint(w, country, minted, log, upto)
    PROVE  CountTypes'
  <1>1. calls' = calls + 1
        /\ (uncounted' = uncounted \/ uncounted' = uncounted + Len(minted))
    BY DEF Mint
  <1> QED BY <1>1 DEF CountTypes

LEMMA MineCounts ==
    ASSUME CountTypes, NEW j \in Jobs, NEW upto, NEW raises, Mine(j, upto, raises)
    PROVE  CountTypes'
  <1>1. PICK w, country, energy, minted, log :
           /\ minted = IF Eligible(j, country) THEN Minted(w, country, energy, raises) ELSE << >>
           /\ Mint(w, country, minted, log, upto)
    BY DEF Mine
  <1>2. Len(minted) \in Nat
    <2>1. Len(Minted(w, country, energy, raises)) \in Nat
      BY MintedLength
    <2>2. Len(<< >>) = 0
      OBVIOUS
    <2> QED BY <1>1, <2>1, <2>2
  <1> QED BY <1>1, <1>2, MintCounts

LEMMA RewardCounts ==
    ASSUME CountTypes, NEW w \in Workers, Reward(w)
    PROVE  CountTypes'
  <1>1. PICK country, energy, minted, upto, raises :
           /\ minted = Minted(w, country, energy, raises)
           /\ Mint(w, country, minted, activity, upto)
    BY DEF Reward
  <1>2. Len(minted) \in Nat
    BY <1>1, MintedLength
  <1> QED BY <1>1, <1>2, MintCounts

\* A stop forgets the queue, the submissions and the jobs, and reads the flags back.
LEMMA StopKeepsGate ==
    ASSUME GateInv, NEW readable \in BOOLEAN, Stopped(readable), unread' = unread
    PROVE  GateTypes' /\ EarnedOnTheWay' /\ JobsEarned'
  <1> USE DEF GateInv
  <1>1. members' = [w \in Workers |-> IF readable THEN rows[w] ELSE "absent"]
    BY DEF Stopped, ReadBack
  <1>2. \A w \in Workers : members'[w] \in Flags /\ (members'[w] = "passed" => w \in earned)
    BY <1>1 DEF GateTypes, EarnedOnTheWay, Flags
  <1>3. /\ rows' = rows /\ challenges' = challenges /\ earned' = earned
        /\ jobs' = [j \in Jobs |-> None]
        /\ tries' = tries /\ now' = now
        /\ writes' = << >> /\ registering' = {} /\ verifying' = {}
        /\ boots' = boots + 1
    BY DEF Stopped
  <1>4. members' \in [Workers -> Flags]
    BY <1>1, <1>2
  <1>5. writes' \in Seq(FlagWrite) /\ Len(writes') = 0
    BY <1>3
  <1>6. GateTypes'
    BY <1>3, <1>4, <1>5 DEF GateTypes
  <1>7. EarnedOnTheWay'
    BY <1>2, <1>3, <1>5 DEF EarnedOnTheWay
  <1>8. JobsEarned'
    BY <1>3 DEF JobsEarned
  <1> QED BY <1>6, <1>7, <1>8

-----------------------------------------------------------------------------
(* The benchmark *)

LEMMA RegisterStep ==
    ASSUME GateInv, NEW w \in Workers, Register(w)
    PROVE  GateTypes' /\ EarnedOnTheWay' /\ JobsEarned'
  <1> USE DEF GateInv, Register
  <1>1. [worker |-> w, sets |-> "no"] \in FlagWrite /\ writes \in Seq(FlagWrite)
    BY DEF FlagWrite, GateTypes
  <1> DEFINE new == [worker |-> w, sets |-> "no"]
  <1>2. /\ writes' \in Seq(FlagWrite) /\ Len(writes') = Len(writes) + 1
        /\ \A i \in 1 .. Len(writes) : writes'[i] = writes[i]
        /\ writes'[Len(writes) + 1] = new
    BY <1>1, AppendProperties
  <1>3. members' \in [Workers -> Flags]
        /\ \A u \in Workers : members'[u] = "passed" => members[u] = "passed"
    BY DEF GateTypes, Flags
  <1>4. GateTypes'
    BY <1>2, <1>3 DEF GateTypes
  <1>5. \A i \in 1 .. Len(writes') : writes'[i].sets = "passed" => writes'[i].worker \in earned
    <2>1. Len(writes) \in Nat
      BY <1>1
    <2>2. \A i \in 1 .. Len(writes') : i \in 1 .. Len(writes) \/ i = Len(writes) + 1
      BY <1>2, <2>1
    <2>3. new.sets = "no"
      OBVIOUS
    <2> QED BY <1>2, <2>2, <2>3 DEF EarnedOnTheWay
  <1>6. EarnedOnTheWay'
    BY <1>3, <1>5 DEF EarnedOnTheWay
  <1>7. JobsEarned'
    BY DEF JobsEarned
  <1> QED BY <1>4, <1>6, <1>7

\* A status is set on the challenge that is there.
LEMMA SetStatusTyped ==
    ASSUME GateTypes, NEW w \in Workers, NEW status \in {"pending", "passed", "failed"}
    PROVE  SetStatus(w, status) \in [Workers -> Challenge \cup {None}]
  <1>1. CASE challenges[w] = None
    BY <1>1 DEF SetStatus, GateTypes
  <1>2. CASE challenges[w] # None
    <2>1. challenges[w] \in Challenge
      BY <1>2 DEF GateTypes
    <2>2. [challenges[w] EXCEPT !.status = status] \in Challenge
      BY <2>1 DEF Challenge
    <2>3. SetStatus(w, status) = [challenges EXCEPT ![w] = [challenges[w] EXCEPT !.status = status]]
      BY <1>2 DEF SetStatus
    <2> QED BY <2>2, <2>3 DEF GateTypes
  <1> QED BY <1>1, <1>2

LEMMA IssueStep ==
    ASSUME GateInv, NEW w \in Workers, Issue(w)
    PROVE  GateTypes' /\ EarnedOnTheWay' /\ JobsEarned'
  <1> USE DEF GateInv, Issue
  <1>1. [at |-> now, status |-> "pending"] \in Challenge
    BY DEF GateTypes, Challenge
  <1>2. GateTypes'
    BY <1>1 DEF GateTypes
  <1> QED BY <1>2 DEF EarnedOnTheWay, JobsEarned

LEMMA SubmitStep ==
    ASSUME GateInv, NEW w \in Workers, Submit(w)
    PROVE  GateTypes' /\ EarnedOnTheWay' /\ JobsEarned'
  <1> USE DEF GateInv
  <1> DEFINE elapsed == now - challenges[w].at
             check == [worker |-> w, try |-> tries, elapsed |-> elapsed, step |-> "checking"]
  <1>1. challenges[w] \in Challenge /\ now \in Nat /\ tries \in Nat
    BY DEF Submit, GateTypes
  <1>2. elapsed \in Int
    BY <1>1 DEF Challenge
  <1>3. check \in Check
    BY <1>1, <1>2 DEF Check
  <1>4. /\ tries' = tries + 1
        /\ UNCHANGED <<now, boots, members, rows, writes, registering, earned, jobs, unread>>
    BY DEF Submit
  <1>5. CASE InTime(elapsed)
    <2>1. verifying' = verifying \cup {check} /\ challenges' = challenges
      BY <1>5 DEF Submit
    <2>2. elapsed <= TMax
      BY <1>5 DEF InTime
    <2> HIDE DEF elapsed
    <2>3. GateTypes'
      BY <1>1, <1>3, <1>4, <2>1 DEF GateTypes
    <2>4. \A v \in verifying' : v.elapsed <= TMax /\ (v.step = "passed" => v.worker \in earned')
      BY <1>4, <2>1, <2>2 DEF EarnedOnTheWay
    <2>5. EarnedOnTheWay' /\ JobsEarned'
      BY <1>4, <2>4 DEF EarnedOnTheWay, JobsEarned
    <2> QED BY <2>3, <2>5
  <1>6. CASE ~InTime(elapsed)
    <2>1. verifying' = verifying /\ challenges' = SetStatus(w, "failed")
      BY <1>6 DEF Submit
    <2>2. GateTypes'
      BY <1>1, <1>4, <2>1, SetStatusTyped DEF GateTypes
    <2> QED BY <1>4, <2>1, <2>2 DEF EarnedOnTheWay, JobsEarned
  <1> QED BY <1>5, <1>6

LEMMA SpotCheckStep ==
    ASSUME GateInv, NEW v \in verifying, NEW right \in BOOLEAN, SpotCheck(v, right)
    PROVE  GateTypes' /\ EarnedOnTheWay' /\ JobsEarned'
  <1> USE DEF GateInv
  <1> DEFINE cleared == [v EXCEPT !.step = "passed"]
  <1>1. v \in Check /\ v.worker \in Workers /\ v.elapsed <= TMax
    BY DEF GateTypes, Check, EarnedOnTheWay
  <1>2. cleared \in Check /\ cleared.worker = v.worker /\ cleared.elapsed = v.elapsed
    BY <1>1 DEF Check
  <1>3. /\ UNCHANGED <<now, boots, members, rows, writes, registering, tries, jobs, unread>>
        /\ earned \subseteq earned'
        /\ verifying' \subseteq verifying \cup {cleared}
        /\ cleared \in verifying' => cleared \in verifying \/ v.worker \in earned'
    BY <1>1 DEF SpotCheck
  <1>4. challenges' \in [Workers -> Challenge \cup {None}]
    <2>1. SetStatus(v.worker, "passed") \in [Workers -> Challenge \cup {None}]
          /\ SetStatus(v.worker, "failed") \in [Workers -> Challenge \cup {None}]
      BY <1>1, SetStatusTyped
    <2> QED BY <2>1 DEF SpotCheck
  <1> HIDE DEF cleared
  <1>5. GateTypes'
    BY <1>2, <1>3, <1>4 DEF GateTypes
  <1>6. \A u \in verifying' : u.elapsed <= TMax /\ (u.step = "passed" => u.worker \in earned')
    <2> SUFFICES ASSUME NEW u \in verifying'
                 PROVE  u.elapsed <= TMax /\ (u.step = "passed" => u.worker \in earned')
      OBVIOUS
    <2>1. CASE u \in verifying
      BY <1>3, <2>1 DEF EarnedOnTheWay
    <2>2. CASE u = cleared /\ u \notin verifying
      BY <1>1, <1>2, <1>3, <2>2
    <2> QED BY <1>3, <2>1, <2>2
  <1>7. EarnedOnTheWay' /\ JobsEarned'
    BY <1>3, <1>6 DEF EarnedOnTheWay, JobsEarned
  <1> QED BY <1>5, <1>7

LEMMA ActivateStep ==
    ASSUME GateInv, NEW v \in verifying, Activate(v)
    PROVE  GateTypes' /\ EarnedOnTheWay' /\ JobsEarned'
  <1> USE DEF GateInv
  <1> DEFINE new == [worker |-> v.worker, sets |-> "passed"]
  <1>1. v.worker \in Workers /\ v.worker \in earned /\ writes \in Seq(FlagWrite)
    BY DEF Activate, GateTypes, Check, EarnedOnTheWay
  <1>2. new \in FlagWrite
    BY <1>1 DEF FlagWrite
  <1>3. /\ writes' = Append(writes, new)
        /\ members' = [members EXCEPT ![v.worker] = IF @ = "absent" THEN @ ELSE "passed"]
        /\ verifying' \subseteq verifying
        /\ UNCHANGED <<now, boots, rows, registering, challenges, tries, earned, jobs, unread>>
    BY DEF Activate
  <1>4. /\ writes' \in Seq(FlagWrite) /\ Len(writes') = Len(writes) + 1
        /\ \A i \in 1 .. Len(writes) : writes'[i] = writes[i]
        /\ writes'[Len(writes) + 1] = new
    BY <1>1, <1>2, <1>3, AppendProperties
  <1>5. \A i \in 1 .. Len(writes') : writes'[i].sets = "passed" => writes'[i].worker \in earned
    <2>1. Len(writes) \in Nat
      BY <1>1
    <2>2. \A i \in 1 .. Len(writes') : i \in 1 .. Len(writes) \/ i = Len(writes) + 1
      BY <1>4, <2>1
    <2> QED BY <1>1, <1>4, <2>2 DEF EarnedOnTheWay
  <1>6. /\ members' \in [Workers -> Flags]
        /\ \A u \in Workers : members'[u] = "passed" => u \in earned
    BY <1>1, <1>3 DEF GateTypes, Flags, EarnedOnTheWay
  <1>7. GateTypes'
    BY <1>3, <1>4, <1>6 DEF GateTypes
  <1>8. EarnedOnTheWay'
    BY <1>3, <1>5, <1>6 DEF EarnedOnTheWay
  <1> QED BY <1>3, <1>7, <1>8 DEF JobsEarned

LEMMA FlushStep ==
    ASSUME GateInv, Flush
    PROVE  GateTypes' /\ EarnedOnTheWay' /\ JobsEarned'
  <1> USE DEF GateInv
  <1>1. writes \in Seq(FlagWrite) /\ writes # << >>
    BY DEF Flush, GateTypes
  <1>2. 1 \in 1 .. Len(writes) /\ writes[1] \in FlagWrite
    BY <1>1, EmptySeq
  <1>3. /\ writes' = Tail(writes)
        /\ rows' = [rows EXCEPT ![writes[1].worker] =
                       IF writes[1].sets = "passed" /\ @ = "absent" THEN @ ELSE writes[1].sets]
        /\ UNCHANGED <<now, boots, members, registering, challenges, verifying, tries, earned,
                       jobs, unread>>
    BY DEF Flush
  <1>4. /\ writes' \in Seq(FlagWrite) /\ Len(writes') = Len(writes) - 1
        /\ \A i \in 1 .. Len(writes') : writes'[i] = writes[i + 1]
    BY <1>1, <1>3, HeadTailProperties
  <1>5. \A i \in 1 .. Len(writes') : i + 1 \in 1 .. Len(writes)
    BY <1>1, <1>4
  <1>6. \A i \in 1 .. Len(writes') : writes'[i].sets = "passed" => writes'[i].worker \in earned
    BY <1>4, <1>5 DEF EarnedOnTheWay
  <1>7. writes[1].worker \in Workers /\ writes[1].sets \in {"no", "passed"}
    BY <1>2 DEF FlagWrite
  <1>8. /\ rows' \in [Workers -> Flags]
        /\ \A w \in Workers : rows'[w] = "passed" => w \in earned
    BY <1>2, <1>3, <1>7 DEF GateTypes, Flags, EarnedOnTheWay
  <1>9. GateTypes'
    BY <1>3, <1>4, <1>8 DEF GateTypes
  <1>10. EarnedOnTheWay'
    BY <1>3, <1>6, <1>8 DEF EarnedOnTheWay
  <1> QED BY <1>3, <1>9, <1>10 DEF JobsEarned

\* A job is given to a worker that earned it, or counted among the unread.
LEMMA RequestStep ==
    ASSUME GateInv, NEW j \in Jobs, NEW w \in Workers, Request(j, w)
    PROVE  GateTypes' /\ EarnedOnTheWay' /\ JobsEarned'
  <1> USE DEF GateInv
  <1> DEFINE job == [worker |-> w, step |-> "pending"]
  <1>1. job \in Job
    BY DEF Job
  <1>2. /\ jobs' = [jobs EXCEPT ![j] = job]
        /\ unread' = IF members[w] = "absent" THEN unread \cup {j} ELSE unread \ {j}
        /\ members[w] # "no"
        /\ UNCHANGED <<now, boots, gateVars>>
    BY DEF Request
  <1>3. GateTypes' /\ EarnedOnTheWay'
    BY <1>1, <1>2 DEF GateTypes, EarnedOnTheWay, gateVars
  <1>4. members[w] = "passed" \/ members[w] = "absent"
    BY <1>2 DEF GateTypes, Flags
  <1>5. JobsEarned'
    BY <1>2, <1>4 DEF JobsEarned, EarnedOnTheWay, GateTypes, gateVars
  <1> QED BY <1>3, <1>5

\* A job is completed, and nothing of the gate changes.
LEMMA JobGoesOn ==
    ASSUME GateInv, NEW j \in Jobs, jobs[j] # None,
           jobs' = [jobs EXCEPT ![j].step = "completed"], UNCHANGED <<now, boots, gateVars, unread>>
    PROVE  GateTypes' /\ EarnedOnTheWay' /\ JobsEarned'
  <1> USE DEF GateInv
  <1>1. jobs[j] \in Job
    BY DEF GateTypes
  <1> DEFINE new == [jobs[j] EXCEPT !.step = "completed"]
  <1>2. new \in Job /\ new.worker = jobs[j].worker
    BY <1>1 DEF Job
  <1>3. jobs' = [jobs EXCEPT ![j] = new]
    OBVIOUS
  <1> HIDE DEF new
  <1>4. GateTypes' /\ EarnedOnTheWay'
    BY <1>2, <1>3 DEF GateTypes, EarnedOnTheWay, gateVars
  <1>5. JobsEarned'
    BY <1>2, <1>3 DEF JobsEarned, GateTypes, gateVars
  <1> QED BY <1>4, <1>5

-----------------------------------------------------------------------------
(* The invariant *)

LEMMA GateInit == Init => GateInv
  <1> SUFFICES ASSUME Init PROVE GateInv
    OBVIOUS
  <1> USE DEF Init, MintGateInit
  <1>1. \A w \in Workers : Recall(w) \in Flags /\ (Recall(w) = "passed" => w \in Veterans)
    BY DEF Recall, Flags
  <1>2. writes \in Seq(FlagWrite) /\ Len(writes) = 0
    OBVIOUS
  <1>3. GateTypes
    BY <1>1, <1>2 DEF GateTypes
  <1>4. EarnedOnTheWay
    BY <1>1, <1>2 DEF EarnedOnTheWay
  <1> QED BY <1>3, <1>4 DEF GateInv, CountTypes, JobsEarned

LEMMA GateStep == GateInv /\ [Next]_vars => GateInv'
  <1> SUFFICES ASSUME GateInv, [Next]_vars PROVE GateInv'
    OBVIOUS
  <1> DEFINE Kept == GateTypes' /\ EarnedOnTheWay' /\ JobsEarned'
  <1>1. ASSUME NEW w \in Workers, Register(w) \/ Issue(w) \/ Submit(w) PROVE GateInv'
    <2>1. Kept
      BY <1>1, RegisterStep, IssueStep, SubmitStep
    <2>2. CountTypes'
      BY <1>1 DEF Register, Issue, Submit, mintVars, CountTypes, GateInv
    <2> QED BY <2>1, <2>2 DEF GateInv
  <1>2. ASSUME NEW v \in verifying, Activate(v) \/ \E right \in BOOLEAN : SpotCheck(v, right)
        PROVE  GateInv'
    <2>1. Kept
      BY <1>2, ActivateStep, SpotCheckStep
    <2>2. CountTypes'
      BY <1>2 DEF Activate, SpotCheck, mintVars, CountTypes, GateInv
    <2> QED BY <2>1, <2>2 DEF GateInv
  <1>3. CASE Flush
    <2>1. Kept
      BY <1>3, FlushStep
    <2>2. CountTypes'
      BY <1>3 DEF Flush, mintVars, CountTypes, GateInv
    <2> QED BY <2>1, <2>2 DEF GateInv
  <1>4. ASSUME NEW j \in Jobs, NEW w \in Workers, Request(j, w) PROVE GateInv'
    <2>1. Kept
      BY <1>4, RequestStep
    <2>2. CountTypes'
      BY <1>4 DEF Request, mintVars, CountTypes, GateInv
    <2> QED BY <2>1, <2>2 DEF GateInv
  <1>5. ASSUME NEW w \in Workers, Reward(w) PROVE GateInv'
    <2>1. CountTypes'
      BY <1>5, RewardCounts DEF GateInv
    <2>2. Kept
      BY <1>5 DEF Reward, gateVars, GateInv, GateTypes, EarnedOnTheWay, JobsEarned
    <2> QED BY <2>1, <2>2 DEF GateInv
  <1>6. CASE Tick
    BY <1>6 DEF Tick, gateVars, mintVars, GateInv, GateTypes, CountTypes, EarnedOnTheWay, JobsEarned
  <1>7. ASSUME NEW j \in Jobs, Completed(j) \/ FailDelivery(j) PROVE GateInv'
    <2>1. PICK upto \in {"energy", "index", "count"}, raises \in Raised : Mine(j, upto, raises)
      BY <1>7 DEF Completed, Deliver, FailDelivery
    <2>2. CountTypes'
      BY <2>1, MineCounts DEF GateInv
    <2>3. CASE Completed(j)
      <3>1. Kept
        BY <2>1, <2>3, JobGoesOn DEF Completed, Deliver, Mine
      <3> QED BY <2>2, <3>1 DEF GateInv
    <2>4. CASE FailDelivery(j)
      <3>1. UNCHANGED <<now, boots, gateVars, jobs, unread>>
        BY <2>4 DEF FailDelivery
      <3>2. Kept
        BY <3>1 DEF gateVars, GateInv, GateTypes, EarnedOnTheWay, JobsEarned
      <3> QED BY <2>2, <3>2 DEF GateInv
    <2> QED BY <1>7, <2>3, <2>4
  <1>8. ASSUME UNCHANGED mintGateVars PROVE GateInv'
    BY <1>8 DEF mintGateVars, gateVars, mintVars, GateInv, GateTypes, CountTypes,
                EarnedOnTheWay, JobsEarned
  <1>9. ASSUME NEW readable \in BOOLEAN, Stopped(readable), UNCHANGED <<mintVars, unread>>
        PROVE  GateInv'
    <2>1. CountTypes'
      BY <1>9 DEF mintVars, CountTypes, GateInv
    <2>2. Kept
      BY <1>9, StopKeepsGate
    <2> QED BY <2>1, <2>2 DEF GateInv
  <1>10. CASE Crash \/ \E d \in delivering : CrashInSampling(d)
    BY <1>9, <1>10 DEF Crash, CrashInSampling
  <1>11. ASSUME NEW j \in Jobs, CrashInDelivery(j) PROVE GateInv'
    <2>1. PICK readable \in BOOLEAN : CutDelivery(j, readable)
      BY <1>11 DEF CrashInDelivery
    <2>2. PICK upto, raises : Mine(j, upto, raises)
      BY <2>1 DEF CutDelivery
    <2>3. CountTypes'
      BY <2>2, MineCounts DEF GateInv
    <2>4. Kept
      BY <2>1, StopKeepsGate DEF CutDelivery
    <2> QED BY <2>3, <2>4 DEF GateInv
  <1>12. CASE UNCHANGED vars
    BY <1>8, <1>12 DEF vars
  <1>13. CASE \E d \in delivering : Sampling(d) \/ FailSampling(d)
    BY <1>8, <1>13 DEF Sampling, FailSampling
  <1> QED
    BY <1>1, <1>2, <1>3, <1>4, <1>5, <1>6, <1>7, <1>10, <1>11, <1>12, <1>13 DEF Next, Before

-----------------------------------------------------------------------------
(* Theorem *)

\* Whatever overlaps, a worker counts as benchmarked only if it answered a challenge
\* rightly and fast enough, and only such a worker is given a job, but for those
\* accepted while the registry had not been read (verify, worker_benchmark, the
\* write queue, job_request).
THEOREM OnlyEarned == Spec => []GateHolds
  <1>1. GateInv => GateHolds
    <2> SUFFICES ASSUME GateInv PROVE GateHolds
      OBVIOUS
    <2> USE DEF GateInv
    <2>1. \A w \in Workers : challenges[w] # None => challenges[w] \in Challenge
      BY DEF GateTypes
    <2>2. \A j \in Jobs : jobs[j] # None => jobs[j] \in Job
      BY DEF GateTypes
    <2>3. MintGateTypeOK
      BY <2>1, <2>2 DEF MintGateTypeOK, GateTypes, CountTypes, Challenge, Job
    <2> QED BY <2>3 DEF GateHolds, EarnedOnTheWay, JobsEarned
  <1> QED BY <1>1, GateInit, GateStep, PTL DEF Spec

-----------------------------------------------------------------------------
(* What a mint is worth *)

Entry == [score : Nat, country : Countries, senior : BOOLEAN, damped : BOOLEAN]

\* No score exceeds its country's C or falls to nothing, none below 1 is softened, and a
\* boost falls under 1 only where seniority and damping meet.
WorthIts(entry) ==
    LET context == ContextOf[entry.country]
    IN  /\ 1 <= entry.score /\ entry.score <= context
        /\ context <= 100 => entry.score = context
        /\ context > 100 /\ ~(entry.senior /\ entry.damped) => entry.score >= 100

\* A scaled C: what is not above 1 stays, what is stays at or above 1.
Scaled(scaled, context) ==
    /\ scaled \in Nat /\ scaled <= context
    /\ context <= 100 => scaled = context
    /\ context > 100 => scaled >= 100

LEMMA Quotient ==
    ASSUME NEW x \in Nat, NEW y \in Nat \ {0}
    PROVE  /\ x \div y \in Nat /\ y * (x \div y) \in Nat
           /\ y * (x \div y) <= x /\ x < y * (x \div y) + y
  OBVIOUS

LEMMA QuotientSmall ==
    ASSUME NEW x \in Nat, NEW y \in Nat \ {0}, NEW m \in Nat, x <= y * m
    PROVE  x \div y \in Nat /\ x \div y <= m
  <1>1. PICK q \in Nat : q = x \div y /\ y * q <= x
    BY Quotient
  <1>2. q <= m
    <2> SUFFICES ASSUME q >= m + 1 PROVE FALSE
      OBVIOUS
    <2>1. y * q >= y * (m + 1)
      OBVIOUS
    <2>2. y * (m + 1) = y * m + y
      OBVIOUS
    <2> QED BY <1>1, <2>1, <2>2
  <1> QED BY <1>1, <1>2

LEMMA QuotientLarge ==
    ASSUME NEW x \in Nat, NEW y \in Nat \ {0}, NEW m \in Nat, y * m <= x
    PROVE  x \div y \in Nat /\ m <= x \div y
  <1>1. PICK q \in Nat : q = x \div y /\ x < y * q + y
    BY Quotient
  <1>2. m <= q
    <2> SUFFICES ASSUME m >= q + 1 PROVE FALSE
      OBVIOUS
    <2>1. y * m >= y * (q + 1)
      OBVIOUS
    <2>2. y * (q + 1) = y * q + y
      OBVIOUS
    <2> QED BY <1>1, <2>1, <2>2
  <1> QED BY <1>1, <1>2

\* A half-life halves: 2 ^ n is the number of subsets of n things.
LEMMA PowerPositive == ASSUME NEW n \in Nat PROVE 2 ^ n \in Nat \ {0}
  <1>1. IsFiniteSet(1 .. n) /\ Cardinality(1 .. n) = n
    BY FS_Interval
  <1>2. IsFiniteSet(SUBSET (1 .. n)) /\ Cardinality(SUBSET (1 .. n)) = 2 ^ n
    BY <1>1, FS_SUBSET
  <1>3. Cardinality(SUBSET (1 .. n)) \in Nat /\ Cardinality(SUBSET (1 .. n)) # 0
    <2>1. SUBSET (1 .. n) # {}
      OBVIOUS
    <2> QED BY <1>2, <2>1, FS_CardinalityType, FS_EmptySet
  <1> QED BY <1>2, <1>3

LEMMA DecayedScaled ==
    ASSUME NEW context \in 80 .. 125, NEW prior \in Nat
    PROVE  Scaled(Decayed(context, prior), context)
  <1>1. HalfLife \in Nat \ {0}
    BY MintGateAssumption
  <1>2. PICK n \in Nat : n = prior \div HalfLife
    BY <1>1, Quotient
  <1>3. PICK y \in Nat \ {0} : y = 2 ^ n
    BY PowerPositive
  <1>4. CASE context <= 100
    BY <1>4 DEF Decayed, Scaled
  <1>5. CASE context > 100
    <2>1. context - 100 \in Nat /\ context - 100 <= y * (context - 100)
      BY <1>5
    <2>2. PICK m \in Nat : m = context - 100
      BY <2>1
    <2>3. m \div y \in Nat /\ m \div y <= m
      BY <2>1, <2>2, QuotientSmall
    <2>4. Decayed(context, prior) = 100 + m \div y
      BY <1>2, <1>3, <1>5, <2>2 DEF Decayed
    <2>5. PICK q \in Nat : q = m \div y
      BY <2>3
    <2> QED BY <1>5, <2>2, <2>3, <2>4, <2>5 DEF Scaled
  <1> QED BY <1>4, <1>5

LEMMA DampedScaled ==
    ASSUME NEW context \in 80 .. 125, NEW country \in Countries, NEW energy \in [Countries -> Nat]
    PROVE  Scaled(Damped(context, country, energy), context)
  <1>1. DampingCap \in Nat \ {0} /\ IsFiniteSet(Countries)
    BY MintGateAssumption
  <1>2. PICK total \in Nat : total = SumFunctionOnSet(energy, Countries)
    BY <1>1, SumNat
  <1>3. PICK share \in Nat : share = 100 * energy[country]
    OBVIOUS
  <1>4. PICK kept \in Nat : kept = DampingCap * total
    BY <1>1
  <1>5. CASE context <= 100 \/ share <= kept
             \/ Cardinality({c \in Countries : energy[c] > 0}) < 2
    BY <1>2, <1>3, <1>4, <1>5 DEF Damped, Scaled
  <1>6. CASE context > 100 /\ share > kept
             /\ ~(Cardinality({c \in Countries : energy[c] > 0}) < 2)
    <2>1. PICK m \in Nat : m = context - 100
      BY <1>6
    <2>2. PICK x \in Nat : x = m * DampingCap * total /\ x = m * kept
      BY <1>1, <1>4
    <2>3. x <= share * m
      BY <1>6, <2>2
    <2>4. x \div share \in Nat /\ x \div share <= m
      BY <1>6, <2>3, QuotientSmall
    <2>5. Damped(context, country, energy) = 100 + x \div share
      BY <1>2, <1>3, <1>4, <1>6, <2>1, <2>2 DEF Damped
    <2>6. PICK q \in Nat : q = x \div share
      BY <2>4
    <2> QED BY <1>6, <2>1, <2>4, <2>5, <2>6 DEF Scaled
  <1> QED BY <1>5, <1>6

\* Two scales multiply to one between a half and C.
LEMMA ScoreWithin ==
    ASSUME NEW context \in 80 .. 125, NEW decayed, NEW damped,
           Scaled(decayed, context), Scaled(damped, context)
    PROVE  /\ Score(context, decayed, damped) \in Nat
           /\ 1 <= Score(context, decayed, damped)
           /\ Score(context, decayed, damped) <= context
           /\ context <= 100 => Score(context, decayed, damped) = context
           /\ context > 100 /\ (decayed = context \/ damped = context)
                 => Score(context, decayed, damped) >= 100
  <1>1. PICK x \in Nat : x = decayed * damped
    BY DEF Scaled
  <1>2. x <= context * context
    BY <1>1 DEF Scaled
  <1>3. CASE context <= 100
    <2>1. x = context * context
      BY <1>1, <1>3 DEF Scaled
    <2>2. x \div context \in Nat /\ x \div context <= context /\ context <= x \div context
      BY <2>1, QuotientSmall, QuotientLarge
    <2>3. PICK q \in Nat : q = x \div context
      BY <2>2
    <2>4. q = context
      BY <2>2, <2>3
    <2> QED BY <1>1, <1>3, <2>3, <2>4 DEF Score
  <1>4. CASE context > 100
    <2>1. /\ decayed \in Nat /\ 100 <= decayed /\ decayed <= context
          /\ damped \in Nat /\ 100 <= damped /\ damped <= context
      BY <1>4 DEF Scaled
    <2>2. context * 1 <= x
      <3>1. 100 * 100 <= x
        BY <1>1, <2>1
      <3> QED BY <3>1
    <2>3. x \div context \in Nat /\ x \div context <= context /\ 1 <= x \div context
      BY <1>2, <2>2, QuotientSmall, QuotientLarge
    <2>4. ASSUME decayed = context \/ damped = context PROVE 100 <= x \div context
      <3>1. context * 100 <= x
        BY <1>1, <2>1, <2>4
      <3> QED BY <3>1, QuotientLarge
    <2>5. PICK q \in Nat : q = x \div context
      BY <2>3
    <2>6. Score(context, decayed, damped) = q
      BY <1>1, <2>5 DEF Score
    <2> QED BY <1>4, <2>3, <2>4, <2>5, <2>6
  <1> QED BY <1>3, <1>4

-----------------------------------------------------------------------------
(* The index and the count *)

Act == [kind : {"energy", "mint"}, actor : Workers, country : Countries, amount : Nat, at : Nat]

MintTypes == index \in [Workers -> Seq(Entry)] /\ activity \in Seq(Act) /\ now \in Nat

Worthy == \A w \in Workers : \A k \in 1 .. Len(index[w]) : WorthIts(index[w][k])

\* A count of an entry of the index.
CountOf(entry, act) == entry.score = act.amount /\ entry.country = act.country

Backed ==
    \A w \in Workers : \A i \in Entries(w) :
        \E k \in 1 .. Len(index[w]) : CountOf(index[w][k], activity[i])

AllCounted == SumFunctionOnSet(Uncounted, Workers) = uncounted

CountInv == CountTypes /\ MintTypes /\ Worthy /\ Backed /\ AllCounted

\* What one mint adds: nothing, or an entry worth its country.
OneMint(minted, country) ==
    minted = << >> \/ \E e \in Entry : minted = <<e>> /\ WorthIts(e) /\ e.country = country

LEMMA AmountNat ==
    ASSUME MintTypes, NEW rowids \in SUBSET DOMAIN activity
    PROVE  AmountOf(rowids) \in Nat
  <1> DEFINE f == [i \in rowids |-> activity[i].amount]
  <1>1. \A i \in rowids : f[i] \in Nat
    <2> TAKE i \in rowids
    <2>1. activity[i] \in Act
      BY DEF MintTypes
    <2> QED BY <2>1 DEF Act
  <1>2. IsFiniteSet(rowids)
    <2>1. DOMAIN activity = 1 .. Len(activity) /\ Len(activity) \in Nat
      BY DEF MintTypes
    <2>2. IsFiniteSet(1 .. Len(activity))
      BY <2>1, FS_Interval
    <2> QED BY <2>1, <2>2, FS_Subset
  <1> HIDE DEF f
  <1>3. SumFunctionOnSet(f, rowids) \in Nat
    BY <1>1, <1>2, SumNat
  <1> QED BY <1>3 DEF AmountOf, f

LEMMA EnergyNat == ASSUME MintTypes, NEW c \in Countries PROVE Energy(c) \in Nat
  <1>1. Recent("energy", c) \in SUBSET DOMAIN activity
    BY DEF Recent
  <1> HIDE DEF Recent
  <1> QED BY <1>1, AmountNat DEF Energy

LEMMA MintedIsOne ==
    ASSUME MintTypes, NEW w \in Workers, NEW country \in Countries,
           NEW energy \in [Countries -> Nat], NEW raises
    PROVE  OneMint(Minted(w, country, energy, raises), country)
  <1>1. PICK context \in 80 .. 125 : context = ContextOf[country]
    BY MintGateAssumption
  <1>2. PICK prior \in Nat : prior = Len(index[w])
    BY DEF MintTypes
  <1>3. PICK decayed : decayed = Decayed(context, prior) /\ Scaled(decayed, context)
    BY DecayedScaled
  <1>4. PICK damped :
           /\ damped = IF "damping" \in raises THEN context ELSE Damped(context, country, energy)
           /\ Scaled(damped, context)
    <2>1. Scaled(context, context)
      BY DEF Scaled
    <2>2. Scaled(Damped(context, country, energy), context)
      BY DampedScaled
    <2> QED BY <2>1, <2>2
  <1>5. PICK score \in Nat :
           /\ score = Score(context, decayed, damped)
           /\ 1 <= score /\ score <= context
           /\ context <= 100 => score = context
           /\ context > 100 /\ (decayed = context \/ damped = context) => score >= 100
    BY <1>3, <1>4, ScoreWithin
  <1> DEFINE e == [score |-> score, country |-> country,
                   senior |-> decayed < context, damped |-> damped < context]
  <1>6. e \in Entry /\ e.country = country
    <2>1. (decayed < context) \in BOOLEAN /\ (damped < context) \in BOOLEAN
      OBVIOUS
    <2> QED BY <2>1 DEF Entry
  <1>7. WorthIts(e)
    <2>0. (e.senior <=> decayed < context) /\ (e.damped <=> damped < context)
      OBVIOUS
    <2>2. e.score = score /\ ContextOf[e.country] = context
      BY <1>1
    <2> HIDE DEF e
    <2>1. context > 100 /\ ~(e.senior /\ e.damped) => decayed = context \/ damped = context
      BY <1>3, <1>4, <2>0 DEF Scaled
    <2> QED BY <1>5, <2>1, <2>2 DEF WorthIts
  <1>8. \/ Minted(w, country, energy, raises) = << >>
        \/ Minted(w, country, energy, raises) = <<e>>
    BY <1>1, <1>2, <1>3, <1>4, <1>5 DEF Minted
  <1> HIDE DEF e
  <1> QED BY <1>6, <1>7, <1>8 DEF OneMint

\* What is written of a call before its mint is counted: energy at most.
OnlyEnergy(log) ==
    log = activity \/ \E a \in Act : a.kind = "energy" /\ log = Append(activity, a)

LEMMA OnlyEnergyTyped ==
    ASSUME MintTypes, NEW log, OnlyEnergy(log)
    PROVE  /\ log \in Seq(Act) /\ Len(log) >= Len(activity)
           /\ \A i \in 1 .. Len(activity) : log[i] = activity[i]
           /\ \A i \in 1 .. Len(log) : log[i].kind = "mint" => i <= Len(activity)
  <1>1. CASE log = activity
    BY <1>1 DEF MintTypes
  <1>2. CASE log # activity
    <2>1. PICK a \in Act : a.kind = "energy" /\ log = Append(activity, a)
      BY <1>2 DEF OnlyEnergy
    <2>2. activity \in Seq(Act) /\ a \in Act
      BY DEF MintTypes
    <2> HIDE DEF Act
    <2>3. /\ log \in Seq(Act) /\ Len(log) = Len(activity) + 1
          /\ \A i \in 1 .. Len(activity) : log[i] = activity[i]
          /\ log[Len(activity) + 1] = a
      BY <2>1, <2>2
    <2>4. ASSUME NEW i \in 1 .. Len(log), log[i].kind = "mint" PROVE i <= Len(activity)
      <3>1. Len(activity) \in Nat /\ (i <= Len(activity) \/ i = Len(activity) + 1)
        BY <2>2, <2>3
      <3>2. i # Len(activity) + 1
        BY <2>1, <2>3, <2>4
      <3> QED BY <3>1, <3>2
    <2> QED BY <2>2, <2>3, <2>4
  <1> QED BY <1>1, <1>2

\* The mint entries of a log.
MintsOf(log, w) == {i \in DOMAIN log : log[i].actor = w /\ log[i].kind = "mint"}

LEMMA EnergyAddsNoMint ==
    ASSUME MintTypes, NEW log, OnlyEnergy(log), NEW w
    PROVE  MintsOf(log, w) = Entries(w)
  <1>1. DOMAIN log = 1 .. Len(log) /\ DOMAIN activity = 1 .. Len(activity)
    BY OnlyEnergyTyped DEF MintTypes
  <1>2. Len(log) \in Nat /\ Len(activity) \in Nat
    BY OnlyEnergyTyped DEF MintTypes
  <1>3. \A i \in 1 .. Len(log) : log[i].kind = "mint" => i \in 1 .. Len(activity)
    BY <1>2, OnlyEnergyTyped
  <1>4. \A i \in 1 .. Len(activity) : i \in 1 .. Len(log) /\ log[i] = activity[i]
    BY <1>2, OnlyEnergyTyped
  <1> QED BY <1>1, <1>3, <1>4 DEF MintsOf, Entries

LEMMA EntriesFinite ==
    ASSUME MintTypes, NEW w
    PROVE  /\ IsFiniteSet(Entries(w)) /\ Cardinality(Entries(w)) \in Nat
           /\ Entries(w) \in SUBSET (1 .. Len(activity))
  <1>1. Entries(w) \in SUBSET (1 .. Len(activity)) /\ Len(activity) \in Nat
    BY DEF Entries, MintTypes
  <1>2. IsFiniteSet(1 .. Len(activity))
    BY <1>1, FS_Interval
  <1>3. IsFiniteSet(Entries(w))
    BY <1>1, <1>2, FS_Subset
  <1> QED BY <1>1, <1>3, FS_CardinalityType

-----------------------------------------------------------------------------
(* A mint keeps the two in step *)

\* The actions that do not mint.
LEMMA CountStays ==
    ASSUME CountInv, UNCHANGED <<index, activity, uncounted>>, calls' \in Nat, now' \in Nat
    PROVE  CountInv'
  <1>1. \A w : Entries(w)' = Entries(w)
    BY DEF Entries
  <1>2. Uncounted' = Uncounted
    BY <1>1 DEF Uncounted
  <1>3. CountTypes' /\ MintTypes' /\ Worthy'
    BY DEF CountInv, CountTypes, MintTypes, Worthy
  <1>4. Backed'
    BY <1>1 DEF CountInv, Backed
  <1>5. AllCounted'
    BY <1>2 DEF CountInv, AllCounted
  <1> QED BY <1>3, <1>4, <1>5 DEF CountInv

\* The terms of the count are integers.
LEMMA UncountedInt ==
    ASSUME MintTypes
    PROVE  \A w \in Workers : Uncounted[w] \in Int /\ Len(index[w]) \in Nat
  <1> TAKE w \in Workers
  <1>1. Len(index[w]) \in Nat
    BY DEF MintTypes
  <1>2. Cardinality(Entries(w)) \in Nat
    BY EntriesFinite
  <1> QED BY <1>1, <1>2 DEF Uncounted

\* Nothing was minted, or the call was cut before the index.
LEMMA NothingAdded ==
    ASSUME CountInv, NEW log, OnlyEnergy(log), index' = index, activity' = log,
           uncounted' = uncounted, now' = now, calls' \in Nat
    PROVE  CountInv'
  <1>1. MintTypes
    BY DEF CountInv
  <1>2. \A w : Entries(w)' = Entries(w)
    BY <1>1, EnergyAddsNoMint DEF Entries, MintsOf
  <1>3. Uncounted' = Uncounted
    BY <1>2 DEF Uncounted
  <1>4. CountTypes' /\ MintTypes' /\ Worthy'
    BY <1>1, OnlyEnergyTyped DEF CountInv, CountTypes, MintTypes, Worthy
  <1>5. Backed'
    <2> SUFFICES ASSUME NEW w \in Workers, NEW i \in Entries(w)
                 PROVE  \E k \in 1 .. Len(index[w]) : CountOf(index[w][k], log[i])
      BY <1>2 DEF Backed
    <2>1. i \in 1 .. Len(activity)
      BY <1>1, EntriesFinite
    <2>2. log[i] = activity[i]
      BY <1>1, <2>1, OnlyEnergyTyped
    <2> QED BY <2>2 DEF CountInv, Backed
  <1>6. AllCounted'
    BY <1>3 DEF CountInv, AllCounted
  <1> QED BY <1>4, <1>5, <1>6 DEF CountInv

\* The index grows by an entry worth its country.
LEMMA IndexGrows ==
    ASSUME MintTypes, Worthy, NEW w \in Workers, NEW e \in Entry, WorthIts(e),
           index' = [index EXCEPT ![w] = @ \o <<e>>]
    PROVE  /\ index' \in [Workers -> Seq(Entry)] /\ Worthy'
           /\ \A u \in Workers \ {w} : index'[u] = index[u]
           /\ Len(index[w]) \in Nat /\ Len(index'[w]) = Len(index[w]) + 1
           /\ index'[w][Len(index[w]) + 1] = e
           /\ \A u \in Workers : \A k \in 1 .. Len(index[u]) :
                 k \in 1 .. Len(index'[u]) /\ index'[u][k] = index[u][k]
  <1> HIDE DEF Entry
  <1>1. index[w] \in Seq(Entry) /\ Len(index[w]) \in Nat
    BY DEF MintTypes
  <1>2. PICK s : s = index[w] \o <<e>>
    OBVIOUS
  <1>3. /\ s \in Seq(Entry) /\ Len(s) = Len(index[w]) + 1
        /\ s[Len(index[w]) + 1] = e
        /\ \A k \in 1 .. Len(index[w]) : s[k] = index[w][k]
    BY <1>1, <1>2
  <1>4. index' = [index EXCEPT ![w] = s]
    BY <1>2
  <1>5. index' \in [Workers -> Seq(Entry)]
    BY <1>3, <1>4 DEF MintTypes
  <1>6. index'[w] = s /\ \A u \in Workers \ {w} : index'[u] = index[u]
    BY <1>4 DEF MintTypes
  <1>7. \A k \in 1 .. Len(s) : WorthIts(s[k])
    <2> TAKE k \in 1 .. Len(s)
    <2>1. k \in 1 .. Len(index[w]) \/ k = Len(index[w]) + 1
      BY <1>1, <1>3
    <2> QED BY <1>3, <2>1 DEF Worthy
  <1>8. Worthy'
    <2> SUFFICES ASSUME NEW u \in Workers, NEW k \in 1 .. Len(index'[u])
                 PROVE  WorthIts(index'[u][k])
      BY DEF Worthy, WorthIts
    <2> QED BY <1>6, <1>7 DEF Worthy
  <1>9. \A u \in Workers : \A k \in 1 .. Len(index[u]) :
           k \in 1 .. Len(index'[u]) /\ index'[u][k] = index[u][k]
    <2> TAKE u \in Workers
    <2> TAKE k \in 1 .. Len(index[u])
    <2>1. CASE u = w
      BY <1>1, <1>3, <1>6, <2>1
    <2>2. CASE u # w
      BY <1>6, <2>2
    <2> QED BY <2>1, <2>2
  <1> QED BY <1>1, <1>3, <1>5, <1>6, <1>8, <1>9

\* The call was cut between the index and the count.
LEMMA MintedUncounted ==
    ASSUME CountInv, NEW log, OnlyEnergy(log), NEW w \in Workers, NEW e \in Entry, WorthIts(e),
           index' = [index EXCEPT ![w] = @ \o <<e>>], activity' = log,
           uncounted' = uncounted + 1, now' = now, calls' \in Nat
    PROVE  CountInv'
  <1>1. MintTypes /\ Worthy
    BY DEF CountInv
  <1>2. \A u : Entries(u)' = Entries(u)
    BY <1>1, EnergyAddsNoMint DEF Entries, MintsOf
  <1>a. CountTypes'
    BY DEF CountInv, CountTypes
  <1>b. index' \in [Workers -> Seq(Entry)] /\ Worthy'
    BY <1>1, IndexGrows
  <1>c. log \in Seq(Act)
    BY <1>1, OnlyEnergyTyped
  <1>3. CountTypes' /\ MintTypes' /\ Worthy'
    BY <1>1, <1>a, <1>b, <1>c DEF MintTypes
  <1>4. Backed'
    <2> SUFFICES ASSUME NEW u \in Workers, NEW i \in Entries(u)
                 PROVE  \E k \in 1 .. Len(index'[u]) : CountOf(index'[u][k], log[i])
      BY <1>2 DEF Backed, CountOf
    <2>1. i \in 1 .. Len(activity)
      BY <1>1, EntriesFinite
    <2>2. log[i] = activity[i]
      BY <1>1, <2>1, OnlyEnergyTyped
    <2>3. PICK k \in 1 .. Len(index[u]) : CountOf(index[u][k], activity[i])
      BY DEF CountInv, Backed
    <2>4. k \in 1 .. Len(index'[u]) /\ index'[u][k] = index[u][k]
      BY <1>1, IndexGrows
    <2> QED BY <2>2, <2>3, <2>4
  <1>5. AllCounted'
    <2>1. \A u \in Workers \ {w} : Uncounted'[u] = Uncounted[u]
      BY <1>1, <1>2, IndexGrows DEF Uncounted
    <2>2. Uncounted'[w] = Uncounted[w] + 1
      <3>1. Len(index'[w]) = Len(index[w]) + 1 /\ Len(index[w]) \in Nat
        BY <1>1, IndexGrows
      <3>2. Cardinality(Entries(w)) \in Nat
        BY <1>1, EntriesFinite
      <3> QED BY <1>2, <3>1, <3>2 DEF Uncounted
    <2>3. \A u \in Workers : Uncounted[u] \in Int /\ Uncounted'[u] \in Int
      BY <1>1, <1>3, <2>1, <2>2, UncountedInt
    <2>4. IsFiniteSet(Workers)
      BY MintGateAssumption
    <2> HIDE DEF Uncounted
    <2>5. SumFunctionOnSet(Uncounted', Workers)
             = SumFunctionOnSet(Uncounted, Workers) + (Uncounted'[w] - Uncounted[w])
      BY <2>1, <2>3, <2>4, SumChange
    <2> QED BY <2>2, <2>3, <2>5 DEF CountInv, AllCounted
  <1> QED BY <1>3, <1>4, <1>5 DEF CountInv

\* A whole mint: its entry in the index and its row in the count.
LEMMA MintedCounted ==
    ASSUME CountInv, NEW log, OnlyEnergy(log), NEW w \in Workers, NEW e \in Entry, WorthIts(e),
           NEW row \in Act, row.kind = "mint", row.actor = w, CountOf(e, row),
           index' = [index EXCEPT ![w] = @ \o <<e>>], activity' = Append(log, row),
           uncounted' = uncounted, now' = now, calls' \in Nat
    PROVE  CountInv'
  <1>1. MintTypes /\ Worthy
    BY DEF CountInv
  <1>a. /\ log \in Seq(Act) /\ Len(log) \in Nat /\ Len(activity) \in Nat
        /\ Len(activity) <= Len(log)
    <2> HIDE DEF Act
    <2>1. log \in Seq(Act) /\ activity \in Seq(Act) /\ Len(activity) <= Len(log)
      BY <1>1, OnlyEnergyTyped DEF MintTypes
    <2> QED BY <2>1
  <1> DEFINE n == Len(log) + 1
  <1>b. /\ activity' \in Seq(Act) /\ DOMAIN activity' = 1 .. n
        /\ activity'[n] = row
        /\ \A i \in 1 .. Len(log) : activity'[i] = log[i]
    <2> HIDE DEF Act
    <2> QED BY <1>a
  <1>c. /\ DOMAIN log = 1 .. Len(log) /\ 1 .. n = 1 .. Len(log) \cup {n} /\ n \notin 1 .. Len(log)
        /\ n \in Nat /\ n \notin 1 .. Len(activity)
    <2>1. DOMAIN log = 1 .. Len(log)
      <3> HIDE DEF Act
      <3> QED BY <1>a
    <2> QED BY <1>a, <2>1
  <1>2. /\ n \notin Entries(w)
        /\ Entries(w)' = Entries(w) \cup {n}
        /\ \A u \in Workers \ {w} : Entries(u)' = Entries(u)
    <2>1. \A u : MintsOf(log, u) = Entries(u)
      BY <1>1, EnergyAddsNoMint
    <2>2. n \notin Entries(w)
      BY <1>1, <1>c, EntriesFinite
    <2>3. Entries(w)' = MintsOf(log, w) \cup {n}
      BY <1>b, <1>c DEF Entries, MintsOf
    <2>4. \A u \in Workers \ {w} : Entries(u)' = MintsOf(log, u)
      BY <1>b, <1>c DEF Entries, MintsOf
    <2> QED BY <2>1, <2>2, <2>3, <2>4
  <1>d. CountTypes'
    BY DEF CountInv, CountTypes
  <1>e. index' \in [Workers -> Seq(Entry)] /\ Worthy'
    BY <1>1, IndexGrows
  <1>3. CountTypes' /\ MintTypes' /\ Worthy'
    BY <1>1, <1>b, <1>d, <1>e DEF MintTypes
  <1>4. Backed'
    <2> SUFFICES ASSUME NEW u \in Workers, NEW i \in Entries(u)'
                 PROVE  \E k \in 1 .. Len(index'[u]) : CountOf(index'[u][k], activity'[i])
      BY DEF Backed, CountOf
    <2>1. CASE i \in Entries(u)
      <3>1. i \in 1 .. Len(activity) /\ i \in 1 .. Len(log)
        BY <1>1, <1>a, <2>1, EntriesFinite
      <3>2. activity'[i] = activity[i]
        BY <1>1, <1>b, <3>1, OnlyEnergyTyped
      <3>3. PICK k \in 1 .. Len(index[u]) : CountOf(index[u][k], activity[i])
        BY <2>1 DEF CountInv, Backed
      <3>4. k \in 1 .. Len(index'[u]) /\ index'[u][k] = index[u][k]
        BY <1>1, IndexGrows
      <3> QED BY <3>2, <3>3, <3>4
    <2>2. CASE i \notin Entries(u)
      <3>1. u = w /\ i = n
        BY <1>2, <2>2
      <3>2. /\ Len(index[w]) \in Nat /\ Len(index'[w]) = Len(index[w]) + 1
            /\ index'[w][Len(index[w]) + 1] = e
        BY <1>1, IndexGrows
      <3>3. Len(index[w]) + 1 \in 1 .. Len(index'[w])
        BY <3>2
      <3> QED BY <1>b, <3>1, <3>2, <3>3
    <2> QED BY <2>1, <2>2
  <1>5. AllCounted'
    <2>1. \A u \in Workers \ {w} : Uncounted'[u] = Uncounted[u]
      BY <1>1, <1>2, IndexGrows DEF Uncounted
    <2>2. Uncounted'[w] = Uncounted[w]
      <3>1. Len(index'[w]) = Len(index[w]) + 1 /\ Len(index[w]) \in Nat
        BY <1>1, IndexGrows
      <3>2. IsFiniteSet(Entries(w)) /\ Cardinality(Entries(w)) \in Nat
        BY <1>1, EntriesFinite
      <3>3. Cardinality(Entries(w) \cup {n}) = Cardinality(Entries(w)) + 1
        BY <1>2, <3>2, FS_AddElement
      <3>4. Cardinality(Entries(w))' = Cardinality(Entries(w)) + 1
        BY <1>2, <3>3
      <3> QED BY <3>1, <3>2, <3>4 DEF Uncounted
    <2>3. \A u \in Workers : Uncounted[u] \in Int /\ Uncounted'[u] = Uncounted[u]
      BY <1>1, <2>1, <2>2, UncountedInt
    <2>4. IsFiniteSet(Workers)
      BY MintGateAssumption
    <2> HIDE DEF Uncounted
    <2>5. SumFunctionOnSet(Uncounted', Workers) = SumFunctionOnSet(Uncounted, Workers)
      BY <2>3, <2>4, SumEqual
    <2> QED BY <2>5 DEF CountInv, AllCounted
  <1> QED BY <1>3, <1>4, <1>5 DEF CountInv

\* Whatever a mint comes to, and wherever its call is cut.
LEMMA MintStep ==
    ASSUME CountInv, NEW w \in Workers, NEW country \in Countries, NEW minted,
           OneMint(minted, country), NEW log, OnlyEnergy(log),
           NEW upto \in {"energy", "index", "count"},
           Mint(w, country, minted, log, upto), now' = now, calls' \in Nat
    PROVE  CountInv'
  <1>1. index \in [Workers -> Seq(Entry)] /\ index[w] \in Seq(Entry)
    BY DEF CountInv, MintTypes
  <1>2. uncounted \in Nat
    BY DEF CountInv, CountTypes
  <1>3. CASE upto = "energy"
    <2>1. index' = index /\ activity' = log /\ uncounted' = uncounted
      BY <1>3 DEF Mint
    <2> QED BY <2>1, NothingAdded
  <1>4. CASE upto # "energy" /\ minted = << >>
    <2>1. index[w] \o << >> = index[w] /\ Len(<< >>) = 0
      <3> HIDE DEF Entry
      <3> QED BY <1>1
    <2>2. index' = index
      BY <1>1, <1>4, <2>1 DEF Mint
    <2>3. activity' = log
      BY <1>4 DEF Mint, Noted, Counted
    <2>4. uncounted' = uncounted
      BY <1>2, <1>4, <2>1 DEF Mint
    <2> QED BY <2>2, <2>3, <2>4, NothingAdded
  <1>5. CASE upto # "energy" /\ minted # << >>
    <2>1. PICK e \in Entry : minted = <<e>> /\ WorthIts(e) /\ e.country = country
      BY <1>5 DEF OneMint
    <2>2. index' = [index EXCEPT ![w] = @ \o <<e>>]
      BY <1>5, <2>1 DEF Mint
    <2>3. CASE upto = "index"
      <3>1. activity' = log
        BY <2>3 DEF Mint
      <3>2. uncounted' = uncounted + Len(<<e>>) /\ Len(<<e>>) = 1
        BY <2>1, <2>3 DEF Mint
      <3>3. uncounted' = uncounted + 1
        BY <3>2
      <3> QED BY <2>1, <2>2, <3>1, <3>3, MintedUncounted
    <2>4. CASE upto = "count"
      <3> DEFINE row == [kind |-> "mint", actor |-> w, country |-> country,
                         amount |-> e.score, at |-> now]
      <3>1. Counted(minted) = e.score
        <4>1. <<e>> # << >> /\ <<e>>[1] = e
          OBVIOUS
        <4> QED BY <2>1, <4>1 DEF Counted
      <3>2. e.score \in Nat /\ 1 <= e.score
        BY <2>1 DEF Entry, WorthIts
      <3>3. activity' = Append(log, row)
        BY <2>4, <3>1, <3>2 DEF Mint, Noted
      <3>4. row \in Act /\ row.kind = "mint" /\ row.actor = w /\ CountOf(e, row)
        BY <2>1, <3>2 DEF Act, CountOf, CountInv, MintTypes
      <3>5. uncounted' = uncounted
        BY <2>4 DEF Mint
      <3> HIDE DEF row
      <3> QED BY <2>1, <2>2, <3>3, <3>4, <3>5, MintedCounted
    <2> QED BY <1>5, <2>3, <2>4
  <1> QED BY <1>3, <1>4, <1>5

LEMMA EnergyIsLogged ==
    ASSUME MintTypes, NEW w \in Workers, NEW country \in Countries, NEW burnt \in {0, 1}
    PROVE  OnlyEnergy(Noted(activity, "energy", w, country, burnt))
  <1> DEFINE a == [kind |-> "energy", actor |-> w, country |-> country, amount |-> burnt,
                   at |-> now]
  <1>1. a \in Act /\ a.kind = "energy"
    BY DEF Act, MintTypes
  <1>2. Noted(activity, "energy", w, country, burnt) \in {activity, Append(activity, a)}
    BY DEF Noted
  <1> HIDE DEF a
  <1> QED BY <1>1, <1>2 DEF OnlyEnergy

LEMMA WhereTyped ==
    ASSUME NEW w \in Workers, NEW otherwise \in Countries
    PROVE  Where(w, otherwise) \in Countries
  BY MintGateAssumption DEF Where

\* job_complete's mint.
LEMMA MineCounted ==
    ASSUME CountInv, NEW j \in Jobs, jobs[j].worker \in Workers,
           NEW upto \in {"energy", "index", "count"}, NEW raises, Mine(j, upto, raises), now' = now
    PROVE  CountInv'
  <1>1. MintTypes
    BY DEF CountInv
  <1>2. PICK w \in Workers : w = jobs[j].worker
    OBVIOUS
  <1>3. PICK country \in Countries : country = Where(w, DefaultCountry)
    BY WhereTyped, MintGateAssumption
  <1>4. PICK burnt \in {0, 1} : burnt = IF "energy" \in raises THEN 0 ELSE 1
    OBVIOUS
  <1> DEFINE energy == [c \in Countries |-> Energy(c) + (IF c = country THEN burnt ELSE 0)]
  <1>5. energy \in [Countries -> Nat]
    BY <1>1, EnergyNat
  <1> HIDE DEF energy
  <1> DEFINE minted == IF Eligible(j, country) THEN Minted(w, country, energy, raises) ELSE << >>
  <1>6. OneMint(minted, country)
    BY <1>1, <1>5, MintedIsOne DEF OneMint
  <1>7. Mint(w, country, minted, Noted(activity, "energy", w, country, burnt), upto)
    BY <1>2, <1>3, <1>4 DEF Mine, energy
  <1>8. calls' \in Nat
    BY <1>7 DEF Mint, CountInv, CountTypes
  <1>9. OnlyEnergy(Noted(activity, "energy", w, country, burnt))
    BY <1>1, EnergyIsLogged
  <1> HIDE DEF minted
  <1> QED BY <1>6, <1>7, <1>8, <1>9, MintStep

\* _posp_reward's mint.
LEMMA RewardCounted ==
    ASSUME CountInv, NEW w \in Workers, Reward(w)
    PROVE  CountInv'
  <1>1. MintTypes
    BY DEF CountInv
  <1>2. PICK country \in Countries : country = Where(w, UnknownCountry)
    BY WhereTyped, MintGateAssumption
  <1> DEFINE energy == [c \in Countries |-> Energy(c)]
  <1>3. energy \in [Countries -> Nat]
    BY <1>1, EnergyNat
  <1> HIDE DEF energy
  <1>3a. PICK upto \in {"energy", "index", "count"} :
            \E raises : Mint(w, country, Minted(w, country, energy, raises), activity, upto)
    BY <1>2 DEF Reward, energy
  <1>4. PICK raises : Mint(w, country, Minted(w, country, energy, raises), activity, upto)
    BY <1>3a
  <1> DEFINE minted == Minted(w, country, energy, raises)
  <1>5. OneMint(minted, country)
    BY <1>1, <1>3, MintedIsOne
  <1>6. calls' \in Nat /\ now' = now
    BY <1>4 DEF Reward, Mint, CountInv, CountTypes
  <1>7. OnlyEnergy(activity)
    BY DEF OnlyEnergy
  <1> HIDE DEF minted
  <1>8. Mint(w, country, minted, activity, upto)
    BY <1>4 DEF minted
  <1> QED BY <1>5, <1>6, <1>7, <1>8, MintStep

LEMMA CountInit == Init => CountInv
  <1> SUFFICES ASSUME Init PROVE CountInv
    OBVIOUS
  <1>1. /\ index = [w \in Workers |-> << >>] /\ activity = << >>
        /\ now = 0 /\ calls = 0 /\ uncounted = 0
    BY DEF Init, MintGateInit
  <1>2. CountTypes /\ MintTypes
    BY <1>1 DEF CountTypes, MintTypes
  <1>3. \A w : Entries(w) = {}
    BY <1>1 DEF Entries
  <1>4. Worthy
    <2>1. \A w \in Workers : Len(index[w]) = 0
      BY <1>1
    <2> QED BY <2>1 DEF Worthy
  <1>5. Backed
    BY <1>3 DEF Backed
  <1>6. AllCounted
    <2>1. Cardinality({}) = 0
      BY FS_EmptySet
    <2>2. \A w \in Workers : Uncounted[w] = 0
      <3> TAKE w \in Workers
      <3>1. Len(index[w]) = 0
        BY <1>1
      <3> QED BY <1>3, <2>1, <3>1 DEF Uncounted
    <2>3. IsFiniteSet(Workers)
      BY MintGateAssumption
    <2> HIDE DEF Uncounted
    <2>4. SumFunctionOnSet(Uncounted, Workers) = 0
      BY <2>2, <2>3, SumZero
    <2> QED BY <1>1, <2>4 DEF AllCounted
  <1> QED BY <1>2, <1>4, <1>5, <1>6 DEF CountInv

LEMMA CountStep == GateInv /\ CountInv /\ [Next]_vars => CountInv'
  <1> SUFFICES ASSUME GateInv, CountInv, [Next]_vars PROVE CountInv'
    OBVIOUS
  <1>0. now \in Nat /\ calls \in Nat
    BY DEF CountInv, CountTypes, MintTypes
  <1> DEFINE Idle == UNCHANGED <<index, activity, uncounted, calls>>
                     /\ (now' = now \/ now' = now + 1)
  <1>1. CASE Idle
    <2>1. UNCHANGED <<index, activity, uncounted>> /\ calls' \in Nat /\ now' \in Nat
      BY <1>0, <1>1
    <2> QED BY <2>1, CountStays
  <1>2. ASSUME NEW w \in Workers, Register(w) \/ Issue(w) \/ Submit(w) PROVE Idle
    BY <1>2 DEF Register, Issue, Submit, mintVars
  <1>3. ASSUME NEW v \in verifying, Activate(v) \/ \E right \in BOOLEAN : SpotCheck(v, right)
        PROVE  Idle
    BY <1>3 DEF Activate, SpotCheck, mintVars
  <1>4. ASSUME Flush \/ Tick \/ \E j \in Jobs, w \in Workers : Request(j, w) PROVE Idle
    BY <1>4 DEF Flush, Tick, Request, mintVars
  <1>5. ASSUME \/ Crash
               \/ \E d \in delivering : Sampling(d) \/ FailSampling(d) \/ CrashInSampling(d)
        PROVE  Idle
    BY <1>5 DEF Crash, CrashInSampling, Sampling, FailSampling, Stopped, mintGateVars, mintVars
  <1>6. ASSUME NEW j \in Jobs, jobs[j] # None PROVE jobs[j].worker \in Workers
    <2>1. jobs[j] \in Job
      BY <1>6 DEF GateInv, GateTypes
    <2> QED BY <2>1 DEF Job
  <1>7. ASSUME NEW j \in Jobs, Completed(j) \/ FailDelivery(j) PROVE CountInv'
    <2>1. PICK upto \in {"energy", "index", "count"}, raises \in Raised :
             Mine(j, upto, raises) /\ jobs[j] # None /\ now' = now
      BY <1>7 DEF Completed, Deliver, FailDelivery, Mine
    <2> QED BY <1>6, <2>1, MineCounted
  <1>8. ASSUME NEW j \in Jobs, CrashInDelivery(j) PROVE CountInv'
    <2>1. PICK upto \in {"energy", "index", "count"}, raises \in Raised, readable \in BOOLEAN :
             Mine(j, upto, raises) /\ Stopped(readable) /\ jobs[j] # None
      BY <1>8 DEF CrashInDelivery, CutDelivery, Mine
    <2>2. now' = now
      BY <2>1 DEF Stopped
    <2> QED BY <1>6, <2>1, <2>2, MineCounted
  <1>9. ASSUME UNCHANGED vars PROVE Idle
    BY <1>9 DEF vars, mintGateVars, mintVars
  <1> HIDE DEF Idle
  <1> QED
    BY <1>1, <1>2, <1>3, <1>4, <1>5, <1>7, <1>8, <1>9, RewardCounted DEF Next, Before

LEMMA CountIsMintsCounted == CountInv => MintsCounted
  <1> SUFFICES ASSUME CountInv PROVE MintsCounted
    OBVIOUS
  <1>1. \A w \in Workers : DOMAIN index[w] = 1 .. Len(index[w])
    BY DEF CountInv, MintTypes
  <1>2. SumFunctionOnSet(Uncounted, Workers) = uncounted
    BY DEF CountInv, AllCounted
  <1>3. ASSUME NEW w \in Workers, NEW i \in Entries(w)
        PROVE  \E k \in DOMAIN index[w] : /\ index[w][k].score = activity[i].amount
                                          /\ index[w][k].country = activity[i].country
    BY <1>1 DEF CountInv, Backed, CountOf
  <1>4. ASSUME NEW w \in Workers, NEW k \in DOMAIN index[w] PROVE WorthIts(index[w][k])
    BY <1>1 DEF CountInv, Worthy
  <1> QED BY <1>2, <1>3, <1>4 DEF MintsCounted, WorthIts

\* Every entry of the index is counted once, for its own score, but for those whose call
\* was cut, or whose index or count raised, between the two, however many deliveries of
\* however many jobs, rewards, restarts and failures of the geo engine; no score
\* exceeds its country's C, none below 1 is softened, and a boost falls under 1 only where
\* seniority and damping meet (mine_hexis_for_job, c_scale, record_mint).
THEOREM CountedOnce == Spec => []MintsCounted
  <1>1. Init => GateInv /\ CountInv
    BY GateInit, CountInit
  <1>2. GateInv /\ CountInv /\ [Next]_vars => (GateInv /\ CountInv)'
    BY GateStep, CountStep
  <1> QED BY <1>1, <1>2, CountIsMintsCounted, PTL DEF Spec

-----------------------------------------------------------------------------
(* The epochs and their rows in the chain *)

Epoch == [started : Nat, ends : Nat, revealed : BOOLEAN]
RunRecord == [job : Jobs, row : Nat, epoch : Nat, at : Nat, opens : BOOLEAN]
ChainRow ==
    [type : {"job_complete"}, job : Jobs, at : Nat]
    \cup [type : {"sampling_epoch", "sampling_epoch_reveal"}, epoch : Nat]
    \cup [type : {"sampling_open"}, job : Jobs]

EpochTypes ==
    /\ epochs \in Seq(Epoch) /\ chain \in Seq(ChainRow) /\ ran \in Seq(RunRecord)
    /\ audits \subseteq Jobs

\* The epochs follow one another, and only the last is not revealed.
EpochsInOrder ==
    /\ \A e \in 1 .. Len(epochs) :
          /\ epochs[e].started < epochs[e].ends /\ epochs[e].started <= now
          /\ epochs[e].revealed <=> e < Len(epochs)
    /\ \A e, f \in 1 .. Len(epochs) : e < f => epochs[e].ends <= epochs[f].started

\* What each row of the chain stands for has happened.
RowTrue(row, audited, n) ==
    /\ row.type = "sampling_open" => row.job \in audited
    /\ row.type = "sampling_epoch" => row.epoch \in 1 .. n
    /\ row.type = "sampling_epoch_reveal" => row.epoch \in 1 .. n - 1
RowsTrue == \A k \in 1 .. Len(chain) : RowTrue(chain[k], audits, Len(epochs))

\* A row of the chain tells of a delivery of the job, no later than a time.
Tells(rows_, k, j, time) ==
    /\ k \in 1 .. Len(rows_) /\ rows_[k].type = "job_complete" /\ rows_[k].job = j
    /\ rows_[k].at <= time

\* A delivery under way has its row in the chain.
DeliveriesTold == \A d \in delivering : d.job \in Jobs /\ Tells(chain, d.row, d.job, now)

\* A selection ran after its delivery, within the epoch that decided it, and a job
\* that was drawn has been audited.
RunRight(r, eps, rows_, audited) ==
    /\ r.epoch \in 1 .. Len(eps)
    /\ eps[r.epoch].started <= r.at /\ r.at < eps[r.epoch].ends
    /\ Tells(rows_, r.row, r.job, r.at)
    /\ r.opens => <<r.epoch, r.job>> \in Drawn /\ r.job \in audited
    /\ <<r.epoch, r.job>> \in Drawn /\ r.job \in Sampled => r.job \in audited
RanRight == \A i \in 1 .. Len(ran) : RunRight(ran[i], epochs, chain, audits)

Committed ==
    \A e \in 1 .. Len(epochs) :
        CommitRow(e) \in missing \/ \E k \in 1 .. Len(chain) : chain[k] = CommitRow(e)

\* An opening stands between the commitment and the reveal of the epoch that drew it.
Between(r, rows_) ==
    \A k, l \in 1 .. Len(rows_) :
        r.opens /\ rows_[k] = OpenRow(r.job) => /\ rows_[l] = RevealRow(r.epoch) => k < l
                                                /\ rows_[l] = CommitRow(r.epoch) => l < k
OpenedBetween == \A i \in 1 .. Len(ran) : Between(ran[i], chain)

\* An audit has the row of its opening, or it was not written; and a run wrote it.
AuditsOpened ==
    \A j \in audits : OpenRow(j) \in missing \/ \E k \in 1 .. Len(chain) : chain[k] = OpenRow(j)
OpeningsRan ==
    \A j \in Jobs, k \in 1 .. Len(chain) : chain[k] = OpenRow(j) =>
        \E i \in 1 .. Len(ran) : ran[i].job = j /\ ran[i].opens

EpochInv ==
    EpochTypes /\ EpochsInOrder /\ RowsTrue /\ DeliveriesTold /\ RanRight /\ Committed
    /\ OpenedBetween /\ AuditsOpened /\ OpeningsRan

LEMMA RowsTyped ==
    /\ \A j \in Jobs, t \in Nat : JobRow(j, t) \in ChainRow
    /\ \A e \in Nat : CommitRow(e) \in ChainRow /\ RevealRow(e) \in ChainRow
    /\ \A j \in Jobs : OpenRow(j) \in ChainRow
  BY DEF ChainRow, JobRow, CommitRow, RevealRow, OpenRow

LEMMA RowKinds ==
    /\ \A j, t : JobRow(j, t).type = "job_complete" /\ JobRow(j, t).job = j
                 /\ JobRow(j, t).at = t
    /\ \A e : CommitRow(e).type = "sampling_epoch" /\ CommitRow(e).epoch = e
    /\ \A e : RevealRow(e).type = "sampling_epoch_reveal" /\ RevealRow(e).epoch = e
    /\ \A j : OpenRow(j).type = "sampling_open" /\ OpenRow(j).job = j
  BY DEF JobRow, CommitRow, RevealRow, OpenRow

LEMMA JobsTyped ==
    ASSUME EpochTypes
    PROVE  /\ \A i \in 1 .. Len(ran) : /\ ran[i].job \in Jobs /\ ran[i].at \in Nat
                                        /\ ran[i].epoch \in Nat /\ ran[i].opens \in BOOLEAN
           /\ \A k \in 1 .. Len(chain) :
                 /\ chain[k].type \in {"job_complete", "sampling_open"} => chain[k].job \in Jobs
                 /\ chain[k].type = "job_complete" => chain[k].at \in Nat
           /\ \A e \in 1 .. Len(epochs) : epochs[e].started \in Nat /\ epochs[e].ends \in Nat
  <1>1. \A i \in 1 .. Len(ran) : ran[i] \in RunRecord
    <2> HIDE DEF RunRecord
    <2> QED BY DEF EpochTypes
  <1>2. \A k \in 1 .. Len(chain) : chain[k] \in ChainRow
    <2> HIDE DEF ChainRow
    <2> QED BY DEF EpochTypes
  <1>3. \A e \in 1 .. Len(epochs) : epochs[e] \in Epoch
    <2> HIDE DEF Epoch
    <2> QED BY DEF EpochTypes
  <1>4. ASSUME NEW k \in 1 .. Len(chain)
        PROVE /\ chain[k].type \in {"job_complete", "sampling_open"} => chain[k].job \in Jobs
              /\ chain[k].type = "job_complete" => chain[k].at \in Nat
    <2>1. chain[k] \in ChainRow
      BY <1>2
    <2> QED BY <2>1 DEF ChainRow
  <1> QED BY <1>1, <1>3, <1>4 DEF RunRecord, Epoch

\* From the invariant to what a reader finds.
LEMMA InChainAt ==
    ASSUME EpochTypes, NEW row
    PROVE  /\ InChain(row) <=> \E k \in 1 .. Len(chain) : chain[k] = row
           /\ InChain(row) => Position(row) \in 1 .. Len(chain) /\ chain[Position(row)] = row
  <1>1. DOMAIN chain = 1 .. Len(chain)
    BY DEF EpochTypes
  <1> QED BY <1>1 DEF InChain, Position

LEMMA OneEpochAtATime ==
    ASSUME EpochTypes, EpochsInOrder, NEW e \in 1 .. Len(epochs), NEW d \in 1 .. Len(epochs),
           NEW t \in Nat,
           epochs[e].started <= t, t < epochs[e].ends, epochs[d].started <= t, t < epochs[d].ends
    PROVE  e = d
  <1>1. epochs[e] \in Epoch /\ epochs[d] \in Epoch
    <2> HIDE DEF Epoch
    <2> QED BY DEF EpochTypes
  <1>2. /\ epochs[e].started \in Nat /\ epochs[e].ends \in Nat
        /\ epochs[d].started \in Nat /\ epochs[d].ends \in Nat
    BY <1>1 DEF Epoch
  <1>3. (e < d => epochs[e].ends <= epochs[d].started)
        /\ (d < e => epochs[d].ends <= epochs[e].started)
    BY DEF EpochsInOrder
  <1>4. ~(e < d) /\ ~(d < e)
    BY <1>2, <1>3
  <1>5. e \in Nat /\ d \in Nat
    OBVIOUS
  <1> QED BY <1>4, <1>5

LEMMA SecretsKept == EpochInv => SecretsHold
  <1> SUFFICES ASSUME EpochInv PROVE SecretsHold
    OBVIOUS
  <1> USE DEF EpochInv
  <1>1. DOMAIN ran = 1 .. Len(ran)
    BY DEF EpochTypes
  <1> SUFFICES ASSUME NEW i \in 1 .. Len(ran), ran[i].opens, InChain(OpenRow(ran[i].job))
               PROVE  LET e == ran[i].epoch  open == OpenRow(ran[i].job) IN
                      /\ InChain(RevealRow(e)) => Position(open) < Position(RevealRow(e))
                      /\ CommitRow(e) \notin missing => Position(CommitRow(e)) < Position(open)
    BY <1>1 DEF SecretsHold
  <1> DEFINE e == ran[i].epoch
             k == Position(OpenRow(ran[i].job))
  <1>2. k \in 1 .. Len(chain) /\ chain[k] = OpenRow(ran[i].job)
    BY InChainAt
  <1> HIDE DEF k
  <1>3. \A l \in 1 .. Len(chain) : /\ chain[l] = RevealRow(e) => k < l
                                   /\ chain[l] = CommitRow(e) => l < k
    BY <1>2 DEF OpenedBetween, Between
  <1>4. InChain(RevealRow(e)) => k < Position(RevealRow(e))
    BY <1>3, InChainAt
  <1>5. CommitRow(e) \notin missing => Position(CommitRow(e)) < k
    <2>1. e \in 1 .. Len(epochs)
      BY DEF RanRight, RunRight
    <2>2. CommitRow(e) \notin missing => InChain(CommitRow(e))
      BY <2>1, InChainAt DEF Committed
    <2> QED BY <1>3, <2>2, InChainAt
  <1> QED BY <1>4, <1>5 DEF k

LEMMA ReaderKept == EpochInv => ReaderIsRight
  <1> SUFFICES ASSUME EpochInv PROVE ReaderIsRight
    OBVIOUS
  <1> USE DEF EpochInv
  <1>1. DOMAIN ran = 1 .. Len(ran) /\ DOMAIN epochs = 1 .. Len(epochs)
        /\ DOMAIN chain = 1 .. Len(chain)
    BY DEF EpochTypes
  <1> SUFFICES ASSUME NEW e \in 1 .. Len(epochs), NEW k \in Within(e), NEW j, j = chain[k].job,
                      ~(\A i \in 1 .. Len(ran) : ran[i].row = k => ran[i].at >= epochs[e].ends),
                      ~(\E i \in 1 .. Len(ran) : ran[i].job = j /\ ran[i].opens
                                                 /\ ran[i].epoch # e),
                      j \in Sampled, OpenRow(j) \notin missing
               PROVE  (<<e, j>> \in Drawn) = InChain(OpenRow(j))
    BY <1>1 DEF ReaderIsRight
  <1>2. PICK i \in 1 .. Len(ran) : ran[i].row = k /\ ~(ran[i].at >= epochs[e].ends)
    OBVIOUS
  <1>3. /\ k \in 1 .. Len(chain) /\ chain[k].type = "job_complete"
        /\ epochs[e].started <= chain[k].at
    BY <1>1 DEF Within
  <1>4. /\ j \in Jobs /\ chain[k].at \in Nat /\ ran[i].at \in Nat
        /\ epochs[e].started \in Nat /\ epochs[e].ends \in Nat
    BY <1>3, JobsTyped
  <1> DEFINE d == ran[i].epoch
  <1>5. /\ ran[i].job = j /\ chain[k].at <= ran[i].at /\ d \in 1 .. Len(epochs)
        /\ epochs[d].started <= ran[i].at /\ ran[i].at < epochs[d].ends
        /\ <<d, j>> \in Drawn /\ j \in Sampled => j \in audits
    BY <1>2 DEF RanRight, RunRight, Tells
  <1>6. epochs[e].started <= ran[i].at /\ ran[i].at < epochs[e].ends
    <2>1. epochs[e].started <= chain[k].at /\ chain[k].at <= ran[i].at
      BY <1>3, <1>5
    <2>2. ran[i].at < epochs[e].ends
      BY <1>2, <1>4
    <2> QED BY <1>4, <2>1, <2>2
  <1>7. e = d
    BY <1>4, <1>5, <1>6, OneEpochAtATime
  <1>8. <<e, j>> \in Drawn => InChain(OpenRow(j))
    BY <1>5, <1>7, InChainAt DEF AuditsOpened
  <1>9. ASSUME InChain(OpenRow(j)) PROVE <<e, j>> \in Drawn
    <2>1. PICK l \in 1 .. Len(chain) : chain[l] = OpenRow(j)
      BY <1>9, InChainAt
    <2>2. PICK x \in 1 .. Len(ran) : ran[x].job = j /\ ran[x].opens
      BY <1>4, <2>1 DEF OpeningsRan
    <2>3. ran[x].epoch = e /\ RunRight(ran[x], epochs, chain, audits)
      BY <2>2 DEF RanRight
    <2> QED BY <2>2, <2>3 DEF RunRight
  <1>10. InChain(OpenRow(j)) \in BOOLEAN
    BY DEF InChain
  <1> QED BY <1>8, <1>9, <1>10

LEMMA EpochIsProvable == EpochInv => SelectionProvable
  <1> SUFFICES ASSUME EpochInv PROVE EpochsTypeOK
    BY SecretsKept, ReaderKept DEF SelectionProvable
  <1> USE DEF EpochInv
  <1>1. DOMAIN ran = 1 .. Len(ran) /\ DOMAIN epochs = 1 .. Len(epochs)
    BY DEF EpochTypes
  <1>2. \A x \in 1 .. Len(epochs) : epochs[x].revealed \in BOOLEAN
    <2> TAKE x \in 1 .. Len(epochs)
    <2>1. epochs[x] \in Epoch
      <3> HIDE DEF Epoch
      <3> QED BY DEF EpochTypes
    <2> QED BY <2>1 DEF Epoch
  <1> QED BY <1>1, <1>2 DEF EpochsTypeOK, EpochsInOrder, RanRight, RunRight

LEMMA EpochInit == Init => EpochInv
  <1> SUFFICES ASSUME Init PROVE EpochInv
    OBVIOUS
  <1>1. epochs = << >> /\ audits = {} /\ chain = << >> /\ ran = << >> /\ delivering = {}
    BY DEF Init, EpochsInit
  <1>2. Len(epochs) = 0 /\ Len(chain) = 0 /\ Len(ran) = 0
    BY <1>1
  <1>3. EpochTypes
    BY <1>1 DEF EpochTypes
  <1>4. EpochsInOrder /\ RowsTrue /\ DeliveriesTold
    BY <1>1, <1>2 DEF EpochsInOrder, RowsTrue, DeliveriesTold
  <1>5. RanRight /\ Committed /\ OpenedBetween /\ AuditsOpened /\ OpeningsRan
    BY <1>1, <1>2 DEF RanRight, Committed, OpenedBetween, AuditsOpened, OpeningsRan
  <1> QED BY <1>3, <1>4, <1>5 DEF EpochInv

\* Time goes on, and deliveries end.
LEMMA EpochsStay ==
    ASSUME EpochInv, UNCHANGED epochVars, delivering' \subseteq delivering,
           now \in Nat, now' \in Nat, now <= now'
    PROVE  EpochInv'
  <1> USE DEF EpochInv
  <1>1. /\ epochs' = epochs /\ audits' = audits /\ chain' = chain
        /\ ran' = ran /\ missing' = missing
    BY DEF epochVars
  <1>2. EpochTypes'
    BY <1>1 DEF EpochTypes
  <1>3. EpochsInOrder'
    <2>1. \A e \in 1 .. Len(epochs) : epochs[e].started <= now'
      BY JobsTyped DEF EpochsInOrder
    <2> QED BY <1>1, <2>1 DEF EpochsInOrder
  <1>4. RowsTrue' /\ RanRight' /\ Committed' /\ OpenedBetween' /\ AuditsOpened' /\ OpeningsRan'
    BY <1>1 DEF RowsTrue, RanRight, Committed, OpenedBetween, AuditsOpened, OpeningsRan
  <1>5. DeliveriesTold'
    <2>1. \A d \in delivering : d.job \in Jobs /\ Tells(chain, d.row, d.job, now')
      BY JobsTyped DEF DeliveriesTold, Tells
    <2> QED BY <1>1, <2>1 DEF DeliveriesTold
  <1> QED BY <1>2, <1>3, <1>4, <1>5

\* A delivery and its row.
LEMMA CompletedKeeps ==
    ASSUME EpochInv, NEW j \in Jobs, Completed(j), now \in Nat
    PROVE  EpochInv'
  <1> USE DEF EpochInv
  <1> DEFINE n == Len(chain) + 1
  <1>1. /\ chain' = Append(chain, JobRow(j, now))
        /\ epochs' = epochs /\ audits' = audits /\ ran' = ran /\ missing' = missing
        /\ now' = now /\ delivering' = delivering \cup {[job |-> j, row |-> n]}
    BY DEF Completed, Deliver
  <1>2. /\ chain' \in Seq(ChainRow) /\ Len(chain') = n /\ Len(chain) \in Nat
        /\ \A k \in 1 .. Len(chain) : k \in 1 .. n /\ chain'[k] = chain[k]
        /\ chain'[n] = JobRow(j, now)
        /\ \A k \in 1 .. n : k \in 1 .. Len(chain) \/ k = n
        /\ n \notin 1 .. Len(chain) /\ n \in 1 .. n
    <2>1. JobRow(j, now) \in ChainRow
      BY RowsTyped
    <2> HIDE DEF ChainRow
    <2>2. chain \in Seq(ChainRow)
      BY DEF EpochTypes
    <2> QED BY <1>1, <2>1, <2>2
  <1>3. /\ JobRow(j, now).type = "job_complete" /\ JobRow(j, now).job = j
        /\ JobRow(j, now).at = now
    BY RowKinds
  <1>4. (\A e : CommitRow(e).type # "job_complete" /\ RevealRow(e).type # "job_complete")
        /\ \A i : OpenRow(i).type # "job_complete"
    BY RowKinds
  <1>5. \A k \in 1 .. n : /\ \A e : /\ chain'[k] = CommitRow(e) => k \in 1 .. Len(chain)
                                    /\ chain'[k] = RevealRow(e) => k \in 1 .. Len(chain)
                          /\ \A i : chain'[k] = OpenRow(i) => k \in 1 .. Len(chain)
    BY <1>2, <1>3, <1>4
  <1>6. EpochTypes'
    BY <1>1, <1>2 DEF EpochTypes
  <1>7. EpochsInOrder'
    BY <1>1 DEF EpochsInOrder
  <1>8. RowsTrue'
    <2>1. RowTrue(chain'[n], audits, Len(epochs))
      BY <1>2, <1>3 DEF RowTrue
    <2>2. \A k \in 1 .. Len(chain) : RowTrue(chain[k], audits, Len(epochs))
      BY DEF RowsTrue
    <2> QED BY <1>1, <1>2, <2>1, <2>2 DEF RowsTrue
  <1>9. \A k, i, t : Tells(chain, k, i, t) => Tells(chain', k, i, t)
    BY <1>2 DEF Tells
  <1>10. RanRight'
    <2>1. \A i \in 1 .. Len(ran) : RunRight(ran[i], epochs, chain', audits)
      BY <1>9 DEF RanRight, RunRight
    <2> QED BY <1>1, <2>1 DEF RanRight
  <1>11. DeliveriesTold'
    <2> SUFFICES ASSUME NEW d \in delivering' PROVE d.job \in Jobs /\ Tells(chain', d.row, d.job, now)
      BY <1>1 DEF DeliveriesTold
    <2>1. CASE d \in delivering
      BY <1>9, <2>1 DEF DeliveriesTold
    <2>2. CASE d = [job |-> j, row |-> n]
      <3>1. d.job = j /\ d.row = n
        BY <2>2
      <3> HIDE DEF n
      <3> QED BY <1>2, <1>3, <3>1 DEF Tells
    <2> QED BY <1>1, <2>1, <2>2
  <1>12. Committed'
    BY <1>1, <1>2 DEF Committed
  <1>13. OpenedBetween'
    <2> SUFFICES ASSUME NEW i \in 1 .. Len(ran), NEW k \in 1 .. n, NEW l \in 1 .. n,
                        ran[i].opens, chain'[k] = OpenRow(ran[i].job)
                 PROVE  /\ chain'[l] = RevealRow(ran[i].epoch) => k < l
                        /\ chain'[l] = CommitRow(ran[i].epoch) => l < k
      BY <1>1, <1>2 DEF OpenedBetween, Between
    <2>1. k \in 1 .. Len(chain) /\ chain[k] = OpenRow(ran[i].job)
      BY <1>2, <1>5
    <2>2. ASSUME l \in 1 .. Len(chain)
          PROVE  /\ chain'[l] = RevealRow(ran[i].epoch) => k < l
                 /\ chain'[l] = CommitRow(ran[i].epoch) => l < k
      BY <1>2, <2>1, <2>2 DEF OpenedBetween, Between
    <2> QED BY <1>5, <2>2
  <1>14. AuditsOpened'
    BY <1>1, <1>2 DEF AuditsOpened
  <1>15. OpeningsRan'
    <2> SUFFICES ASSUME NEW i \in Jobs, NEW k \in 1 .. n, chain'[k] = OpenRow(i)
                 PROVE  \E x \in 1 .. Len(ran) : ran[x].job = i /\ ran[x].opens
      BY <1>1, <1>2 DEF OpeningsRan
    <2>1. k \in 1 .. Len(chain) /\ chain[k] = OpenRow(i)
      BY <1>2, <1>5
    <2> QED BY <2>1 DEF OpeningsRan
  <1> QED BY <1>6, <1>7, <1>8, <1>10, <1>11, <1>12, <1>13, <1>14, <1>15

-----------------------------------------------------------------------------
(* What maybe_open writes *)

Rank(row) ==
    IF row.type = "sampling_epoch_reveal" THEN 1 ELSE IF row.type = "sampling_epoch" THEN 2 ELSE 3

\* Rows of one maybe_open, in its order.
Due(row, j) ==
    \/ row = RevealRow(Len(epochs)) /\ Ended(now) /\ Len(epochs) > 0
    \/ row = CommitRow(Len(epochs) + 1) /\ Ended(now)
    \/ row = OpenRow(j) /\ Opens(j, now)

Fits(w, j) ==
    /\ w \in Seq(ChainRow)
    /\ \A x \in 1 .. Len(w) : Due(w[x], j)
    /\ \A x, y \in 1 .. Len(w) : x < y => Rank(w[x]) < Rank(w[y])

LEMMA Ranks ==
    /\ \A e : Rank(RevealRow(e)) = 1 /\ Rank(CommitRow(e)) = 2
    /\ \A j : Rank(OpenRow(j)) = 3
  BY RowKinds DEF Rank

LEMMA RowAdds ==
    ASSUME NEW j, NEW w, Fits(w, j), NEW due \in BOOLEAN, NEW row \in ChainRow, NEW failed,
           due => Due(row, j), \A x \in 1 .. Len(w) : Rank(w[x]) < Rank(row),
           Rank(row) \in Nat
    PROVE  LET v == w \o Row(due, row, failed) IN
           /\ Fits(v, j)
           /\ \A x \in 1 .. Len(w) : x \in 1 .. Len(v) /\ v[x] = w[x]
           /\ \A x \in 1 .. Len(v) : x \in 1 .. Len(w) \/ v[x] = row
           /\ due /\ row \notin failed => \E x \in 1 .. Len(v) : v[x] = row
  <1>1. w \in Seq(ChainRow)
    BY DEF Fits
  <1>2. CASE due /\ row \notin failed
    <2>1. Row(due, row, failed) = <<row>>
      BY <1>2 DEF Row
    <2>2. PICK v : v = w \o <<row>>
      OBVIOUS
    <2>3. /\ v \in Seq(ChainRow) /\ Len(v) = Len(w) + 1 /\ Len(w) \in Nat
          /\ v[Len(w) + 1] = row
          /\ \A x \in 1 .. Len(w) : v[x] = w[x]
      <3> HIDE DEF ChainRow
      <3> QED BY <1>1, <2>2
    <2>4. \A x \in 1 .. Len(v) : x \in 1 .. Len(w) \/ x = Len(v)
      BY <2>3
    <2>5. \A x \in 1 .. Len(w) : x \in 1 .. Len(v) /\ v[x] = w[x]
      BY <2>3
    <2>6. Len(v) \in 1 .. Len(v) /\ v[Len(v)] = row /\ Len(v) \notin 1 .. Len(w)
      BY <2>3
    <2>7. \A x \in 1 .. Len(v) : Due(v[x], j)
      BY <1>2, <2>4, <2>5, <2>6 DEF Fits
    <2>8. ASSUME NEW x \in 1 .. Len(v), NEW y \in 1 .. Len(v), x < y
          PROVE  Rank(v[x]) < Rank(v[y])
      <3>1. x \in 1 .. Len(w)
        BY <2>3, <2>8
      <3>2. CASE y = Len(v)
        BY <2>5, <2>6, <3>1, <3>2
      <3>3. CASE y \in 1 .. Len(w)
        BY <2>5, <2>8, <3>1, <3>3 DEF Fits
      <3> QED BY <2>4, <3>2, <3>3
    <2>9. Fits(v, j)
      BY <2>3, <2>7, <2>8 DEF Fits
    <2> QED BY <2>1, <2>2, <2>4, <2>5, <2>6, <2>9
  <1>3. CASE ~(due /\ row \notin failed)
    <2>1. Row(due, row, failed) = << >>
      BY <1>3 DEF Row
    <2>2. w \o << >> = w
      <3> HIDE DEF ChainRow
      <3> QED BY <1>1
    <2> QED BY <1>3, <2>1, <2>2
  <1> QED BY <1>2, <1>3

\* What is due is written, in order, or fails.
LEMMA WrittenFits ==
    ASSUME EpochTypes, EpochsInOrder, NEW j \in Jobs, NEW failed
    PROVE  LET w == Written(j, now, failed) IN
           /\ Fits(w, j)
           /\ Ended(now) /\ CommitRow(Len(epochs) + 1) \notin failed
                 => \E x \in 1 .. Len(w) : w[x] = CommitRow(Len(epochs) + 1)
           /\ Opens(j, now) /\ OpenRow(j) \notin failed
                 => (\E x \in 1 .. Len(w) : w[x] = OpenRow(j)) /\ w # Queued(now, failed)
  <1> DEFINE reveals == Ended(now) /\ epochs # << >> /\ ~Last(epochs).revealed
             reveal == RevealRow(Len(epochs))
             commit == CommitRow(Len(epochs) + 1)
             open == OpenRow(j)
  <1>1. Len(epochs) \in Nat /\ (epochs # << >> => Len(epochs) > 0)
    <2> HIDE DEF Epoch
    <2>1. epochs \in Seq(Epoch)
      BY DEF EpochTypes
    <2> QED BY <2>1
  <1>2. reveal \in ChainRow /\ commit \in ChainRow /\ open \in ChainRow
    BY <1>1, RowsTyped
  <1>3. Rank(reveal) = 1 /\ Rank(commit) = 2 /\ Rank(open) = 3
    BY Ranks
  <1>4. /\ reveals => Due(reveal, j)
        /\ Ended(now) => Due(commit, j)
        /\ Opens(j, now) => Due(open, j)
    BY <1>1 DEF Due
  <1>5. reveals \in BOOLEAN /\ Ended(now) \in BOOLEAN /\ Opens(j, now) \in BOOLEAN
    BY DEF Ended, Opens
  <1>6. PICK r : r = Row(reveals, reveal, failed)
    OBVIOUS
  <1>7. PICK c : c = r \o Row(Ended(now), commit, failed)
    OBVIOUS
  <1>8. PICK w : w = c \o Row(Opens(j, now), open, failed)
    OBVIOUS
  <1>9. Written(j, now, failed) = w /\ Queued(now, failed) = c
    BY <1>6, <1>7, <1>8 DEF Written, Queued
  <1> HIDE DEF reveals, reveal, commit, open
  <1>10. Fits(r, j) /\ \A x \in 1 .. Len(r) : r[x] = reveal
    <2>1. r = << >> \/ (r = <<reveal>> /\ reveals)
      BY <1>6 DEF Row
    <2>2. CASE r = << >>
      <3>1. r \in Seq(ChainRow) /\ Len(r) = 0
        BY <2>2
      <3> QED BY <3>1 DEF Fits
    <2>3. CASE r = <<reveal>> /\ reveals
      <3>1. r \in Seq(ChainRow) /\ Len(r) = 1 /\ r[1] = reveal
        <4> HIDE DEF ChainRow
        <4> QED BY <1>2, <2>3
      <3>2. \A x \in 1 .. Len(r) : x = 1
        BY <3>1
      <3> QED BY <1>4, <2>3, <3>1, <3>2 DEF Fits
    <2> QED BY <2>1, <2>2, <2>3
  <1>11. /\ Fits(c, j)
         /\ \A x \in 1 .. Len(c) : x \in 1 .. Len(r) \/ c[x] = commit
         /\ \A x \in 1 .. Len(r) : c[x] = r[x]
         /\ Ended(now) /\ commit \notin failed => \E x \in 1 .. Len(c) : c[x] = commit
    <2>1. \A x \in 1 .. Len(r) : Rank(r[x]) < Rank(commit)
      BY <1>3, <1>10
    <2>2. Fits(r, j) /\ (Ended(now) => Due(commit, j)) /\ Rank(commit) \in Nat
      BY <1>3, <1>4, <1>10
    <2>3. LET v == r \o Row(Ended(now), commit, failed) IN
          /\ Fits(v, j)
          /\ \A x \in 1 .. Len(r) : x \in 1 .. Len(v) /\ v[x] = r[x]
          /\ \A x \in 1 .. Len(v) : x \in 1 .. Len(r) \/ v[x] = commit
          /\ Ended(now) /\ commit \notin failed => \E x \in 1 .. Len(v) : v[x] = commit
      BY <1>2, <1>5, <2>1, <2>2, RowAdds
    <2> QED BY <1>7, <2>3
  <1>12. \A x \in 1 .. Len(c) : Rank(c[x]) < Rank(open)
    BY <1>3, <1>10, <1>11
  <1>13. /\ Fits(w, j)
         /\ \A x \in 1 .. Len(c) : x \in 1 .. Len(w) /\ w[x] = c[x]
         /\ Opens(j, now) /\ open \notin failed => \E x \in 1 .. Len(w) : w[x] = open
    BY <1>2, <1>3, <1>4, <1>5, <1>8, <1>11, <1>12, RowAdds
  <1>14. Ended(now) /\ commit \notin failed => \E x \in 1 .. Len(w) : w[x] = commit
    BY <1>11, <1>13
  <1>15. Opens(j, now) /\ open \notin failed => w # c
    <2>1. ~(Rank(open) < Rank(open))
      BY <1>3
    <2> QED BY <1>12, <1>13, <2>1
  <1> QED BY <1>9, <1>13, <1>14, <1>15 DEF commit, open

\* The opening comes last.
LEMMA OpeningIsLast ==
    ASSUME NEW j, NEW w, Fits(w, j), NEW x \in 1 .. Len(w), w[x] = OpenRow(j)
    PROVE  x = Len(w) /\ Opens(j, now)
  <1>1. Len(w) \in Nat
    BY DEF Fits
  <1>2. Rank(w[x]) = 3 /\ \A y \in 1 .. Len(w) : ~(3 < Rank(w[y]))
    BY Ranks DEF Rank
  <1>3. ~(x < Len(w))
    <2> SUFFICES ASSUME x < Len(w) PROVE FALSE
      OBVIOUS
    <2>1. Len(w) \in 1 .. Len(w)
      BY <1>1
    <2> QED BY <1>2, <2>1 DEF Fits
  <1>4. Due(OpenRow(j), j)
    BY DEF Fits
  <1> QED BY <1>1, <1>3, <1>4, RowKinds DEF Due

\* The rows written before a stop are in order too.
LEMMA PrefixFits ==
    ASSUME NEW j, NEW w, Fits(w, j), NEW n \in 0 .. Len(w)
    PROVE  LET v == SubSeq(w, 1, n) IN
           /\ Fits(v, j) /\ Len(v) = n
           /\ \A x \in 1 .. n : v[x] = w[x]
  <1>1. w \in Seq(ChainRow) /\ Len(w) \in Nat
    BY DEF Fits
  <1>2. PICK v : v = SubSeq(w, 1, n)
    OBVIOUS
  <1>3. v \in Seq(ChainRow) /\ Len(v) = n /\ \A x \in 1 .. n : v[x] = w[x]
    <2> HIDE DEF ChainRow
    <2> QED BY <1>1, <1>2
  <1>4. \A x \in 1 .. Len(v) : x \in 1 .. Len(w) /\ v[x] = w[x]
    BY <1>1, <1>3
  <1>5. Fits(v, j)
    BY <1>3, <1>4 DEF Fits
  <1> QED BY <1>2, <1>3, <1>5

\* The rollover: the old epochs keep their windows, and the last one is the one in force.
LEMMA RolledOver ==
    ASSUME EpochTypes, EpochsInOrder, now \in Nat, epochs' = Rolled(now), now' = now
    PROVE  /\ epochs' \in Seq(Epoch) /\ EpochsInOrder'
           /\ Decides(now) = Len(epochs') /\ Len(epochs) \in Nat /\ Len(epochs') \in Nat \ {0}
           /\ Ended(now) => Len(epochs') = Len(epochs) + 1
           /\ ~Ended(now) => Len(epochs') = Len(epochs)
           /\ \A e \in 1 .. Len(epochs) : /\ epochs'[e].started = epochs[e].started
                                          /\ epochs'[e].ends = epochs[e].ends
           /\ epochs'[Len(epochs')].started <= now /\ now < epochs'[Len(epochs')].ends
  <1> DEFINE N == Len(epochs)
  <1>1. epochs \in Seq(Epoch) /\ N \in Nat /\ DOMAIN epochs = 1 .. N
        /\ (epochs # << >> <=> N > 0)
    <2> HIDE DEF Epoch
    <2>1. epochs \in Seq(Epoch)
      BY DEF EpochTypes
    <2> QED BY <2>1
  <1>2. \A e \in 1 .. N : epochs[e] \in Epoch
    <2> HIDE DEF Epoch
    <2> QED BY <1>1
  <1>3. \A e \in 1 .. N : epochs[e].started \in Nat /\ epochs[e].ends \in Nat
    BY <1>2 DEF Epoch
  <1>4. Decides(now) = Len(epochs')
    BY DEF Decides
  <1>5. CASE ~Ended(now)
    <2>1. epochs' = epochs /\ N > 0 /\ now < epochs[N].ends
      BY <1>1, <1>3, <1>5 DEF Rolled, Ended, Last
    <2>2. EpochsInOrder'
      BY <2>1 DEF EpochsInOrder
    <2>3. N \in 1 .. N
      BY <1>1, <2>1
    <2>4. epochs[N].started <= now
      BY <2>3 DEF EpochsInOrder
    <2>5. epochs' \in Seq(Epoch) /\ Len(epochs') \in Nat \ {0} /\ Len(epochs') = N
      BY <1>1, <2>1
    <2>6. epochs'[Len(epochs')].started <= now /\ now < epochs'[Len(epochs')].ends
      BY <2>1, <2>4
    <2> QED BY <1>1, <1>4, <1>5, <2>1, <2>2, <2>5, <2>6
  <1>6. CASE Ended(now)
    <2> DEFINE old == [e \in 1 .. N |-> [epochs[e] EXCEPT !.revealed = TRUE]]
               next == [started |-> now, ends |-> now + EpochLength, revealed |-> FALSE]
    <2>1. epochs' = Append(old, next)
      BY <1>1, <1>6 DEF Rolled
    <2>2. next \in Epoch /\ next.started = now /\ now < next.ends /\ next.revealed = FALSE
      BY JobOutcomeAssumption DEF Epoch
    <2>3. \A e \in 1 .. N : /\ old[e] \in Epoch /\ old[e].revealed = TRUE
                            /\ old[e].started = epochs[e].started
                            /\ old[e].ends = epochs[e].ends
      BY <1>2 DEF Epoch
    <2>4. old \in Seq(Epoch) /\ Len(old) = N
      <3>1. old \in [1 .. N -> Epoch]
        BY <2>3
      <3> HIDE DEF Epoch, old
      <3> QED BY <1>1, <3>1
    <2> HIDE DEF old, next
    <2>5. /\ epochs' \in Seq(Epoch) /\ Len(epochs') = N + 1
          /\ epochs'[N + 1] = next
          /\ \A e \in 1 .. N : epochs'[e] = old[e]
      <3> HIDE DEF Epoch
      <3> QED BY <1>1, <2>1, <2>2, <2>4
    <2>6. \A e \in 1 .. N : epochs[e].ends <= now
      <3> TAKE e \in 1 .. N
      <3>1. N \in 1 .. N /\ epochs # << >>
        BY <1>1
      <3>2. epochs[N].ends <= now
        BY <1>3, <1>6, <3>1 DEF Ended, Last
      <3>3. CASE e = N
        BY <3>2, <3>3
      <3>4. CASE e < N
        <4>1. epochs[e].ends <= epochs[N].started
          BY <3>1, <3>4 DEF EpochsInOrder
        <4>2. epochs[N].started < epochs[N].ends
          BY <3>1 DEF EpochsInOrder
        <4>3. /\ epochs[e].ends \in Nat
              /\ epochs[N].started \in Nat /\ epochs[N].ends \in Nat
          BY <1>3, <3>1
        <4> QED BY <3>2, <4>1, <4>2, <4>3
      <3>0. N \in Nat
        BY <1>1
      <3> HIDE DEF N
      <3>5. e = N \/ e < N
        BY <3>0
      <3> QED BY <3>3, <3>4, <3>5
    <2>7. ASSUME NEW e \in 1 .. N + 1
          PROVE  /\ epochs'[e].started < epochs'[e].ends /\ epochs'[e].started <= now
                 /\ epochs'[e].revealed <=> e < N + 1
      <3>1. CASE e = N + 1
        <4>1. epochs'[e] = next
          BY <2>5, <3>1
        <4>2. ~(e < N + 1)
          BY <1>1, <3>1
        <4> QED BY <2>2, <4>1, <4>2
      <3>2. CASE e # N + 1
        <4>1. e \in 1 .. N
          BY <1>1, <3>2
        <4> QED BY <1>1, <2>3, <2>5, <4>1 DEF EpochsInOrder
      <3> QED BY <3>1, <3>2
    <2>8. ASSUME NEW e \in 1 .. N + 1, NEW f \in 1 .. N + 1, e < f
          PROVE  epochs'[e].ends <= epochs'[f].started
      <3>1. e \in 1 .. N
        BY <1>1, <2>8
      <3>2. CASE f = N + 1
        BY <2>2, <2>3, <2>5, <2>6, <3>1, <3>2
      <3>3. CASE f # N + 1
        <4>1. f \in 1 .. N
          BY <1>1, <3>3
        <4> QED BY <2>3, <2>5, <2>8, <3>1, <4>1 DEF EpochsInOrder
      <3> QED BY <3>2, <3>3
    <2>9. EpochsInOrder'
      BY <2>5, <2>7, <2>8 DEF EpochsInOrder
    <2> QED BY <1>1, <1>4, <1>6, <2>2, <2>3, <2>5, <2>9
  <1> QED BY <1>5, <1>6

\* One maybe_open of a delivered job, however far it gets: w is what it wrote.
Opening(j, w) ==
    /\ now' = now /\ delivering' \subseteq delivering
    /\ Fits(w, j)
    /\ epochs' = Rolled(now) /\ chain' = chain \o w
    /\ audits \subseteq audits' /\ audits' \subseteq audits \cup {j} /\ missing \subseteq missing'
    /\ Ended(now) => LET row == CommitRow(Len(epochs) + 1) IN
                        row \in missing' \/ \E x \in 1 .. Len(w) : w[x] = row
    /\ j \in audits' => \/ j \in audits
                        \/ OpenRow(j) \in missing' \/ \E x \in 1 .. Len(w) : w[x] = OpenRow(j)
    /\ (\E x \in 1 .. Len(w) : w[x] = OpenRow(j)) => j \in audits'

\* Its entry in the history, if it got that far; it wrote no opening if it did not.
RunEntry(j, row) ==
    /\ ran' = Append(ran, [job |-> j, row |-> row, epoch |-> Decides(now), at |-> now,
                           opens |-> Opens(j, now)])
    /\ row \in Nat /\ Tells(chain, row, j, now)
    /\ Opens(j, now) => j \in audits'
NoEntry(j, w) == ran' = ran /\ \A x \in 1 .. Len(w) : w[x] # OpenRow(j)

\* The chain's rows after an opening: the old ones, then the new ones.
LEMMA ChainSplit ==
    ASSUME EpochTypes, NEW j, NEW w, Fits(w, j), chain' = chain \o w
    PROVE  /\ chain' \in Seq(ChainRow) /\ Len(chain) \in Nat /\ Len(w) \in Nat
           /\ Len(chain') = Len(chain) + Len(w)
           /\ \A k \in 1 .. Len(chain) : k \in 1 .. Len(chain') /\ chain'[k] = chain[k]
           /\ \A x \in 1 .. Len(w) : Len(chain) + x \in 1 .. Len(chain')
                                     /\ chain'[Len(chain) + x] = w[x]
           /\ \A k \in 1 .. Len(chain') : k \notin 1 .. Len(chain)
                 => k > Len(chain) /\ k - Len(chain) \in 1 .. Len(w)
                    /\ chain'[k] = w[k - Len(chain)]
  <1> HIDE DEF ChainRow
  <1>1. chain \in Seq(ChainRow) /\ w \in Seq(ChainRow)
    BY DEF EpochTypes, Fits
  <1>2. PICK m \in Nat : m = Len(chain)
    BY <1>1
  <1>3. PICK n \in Nat : n = Len(w)
    BY <1>1
  <1>4. chain' \in Seq(ChainRow) /\ Len(chain') = m + n
    BY <1>1, <1>2, <1>3
  <1>5. \A k \in 1 .. m + n : chain'[k] = IF k <= m THEN chain[k] ELSE w[k - m]
    BY <1>1, <1>2, <1>3
  <1>6. \A k \in 1 .. m : k \in 1 .. m + n /\ chain'[k] = chain[k]
    <2> TAKE k \in 1 .. m
    <2>1. k \in 1 .. m + n /\ k <= m
      OBVIOUS
    <2> QED BY <1>5, <2>1
  <1>7. \A x \in 1 .. n : m + x \in 1 .. m + n /\ chain'[m + x] = w[x]
    <2> TAKE x \in 1 .. n
    <2>1. m + x \in 1 .. m + n /\ ~(m + x <= m) /\ (m + x) - m = x
      OBVIOUS
    <2> QED BY <1>5, <2>1
  <1>8. \A k \in 1 .. m + n : k \notin 1 .. m =>
            k > m /\ k - m \in 1 .. n /\ chain'[k] = w[k - m]
    <2> SUFFICES ASSUME NEW k \in 1 .. m + n, k \notin 1 .. m
                 PROVE  k > m /\ k - m \in 1 .. n /\ chain'[k] = w[k - m]
      OBVIOUS
    <2>1. k > m /\ k - m \in 1 .. n /\ ~(k <= m)
      OBVIOUS
    <2> QED BY <1>5, <2>1
  <1> QED BY <1>2, <1>3, <1>4, <1>6, <1>7, <1>8

\* What the new rows are, and what the old ones are not.
LEMMA NewRows ==
    ASSUME EpochInv, NEW j \in Jobs, NEW w, Opening(j, w), now \in Nat
    PROVE  /\ \A k \in 1 .. Len(chain') : k \notin 1 .. Len(chain) => Due(chain'[k], j)
           /\ \A k \in 1 .. Len(chain) : ~Due(chain[k], j)
           /\ \A k, l \in 1 .. Len(chain') : k \notin 1 .. Len(chain) /\ l \notin 1 .. Len(chain)
                 /\ k < l => Rank(chain'[k]) < Rank(chain'[l])
  <1> USE DEF EpochInv, Opening
  <1>1. Fits(w, j) /\ chain' = chain \o w
    OBVIOUS
  <1>2. \A k \in 1 .. Len(chain') : k \notin 1 .. Len(chain)
           => k > Len(chain) /\ k - Len(chain) \in 1 .. Len(w) /\ chain'[k] = w[k - Len(chain)]
    BY <1>1, ChainSplit
  <1>3. \A k \in 1 .. Len(chain') : k \notin 1 .. Len(chain) => Due(chain'[k], j)
    BY <1>1, <1>2 DEF Fits
  <1>4. ASSUME NEW k \in 1 .. Len(chain), Due(chain[k], j) PROVE FALSE
    <2>1. Len(epochs) \in Nat /\ ~(Len(epochs) + 1 \in 1 .. Len(epochs))
          /\ ~(Len(epochs) \in 1 .. Len(epochs) - 1)
      BY RolledOver
    <2>2. RowTrue(chain[k], audits, Len(epochs))
      BY DEF RowsTrue
    <2>3. CASE chain[k] = RevealRow(Len(epochs))
      BY <2>1, <2>2, <2>3, RowKinds DEF RowTrue
    <2>4. CASE chain[k] = CommitRow(Len(epochs) + 1)
      BY <2>1, <2>2, <2>4, RowKinds DEF RowTrue
    <2>5. CASE chain[k] = OpenRow(j) /\ Opens(j, now)
      <3>1. j \notin audits
        BY <2>5 DEF Opens
      <3> QED BY <2>2, <2>5, <3>1, RowKinds DEF RowTrue
    <2> QED BY <1>4, <2>3, <2>4, <2>5 DEF Due
  <1>5. ASSUME NEW k \in 1 .. Len(chain'), NEW l \in 1 .. Len(chain'),
               k \notin 1 .. Len(chain), l \notin 1 .. Len(chain), k < l
        PROVE  Rank(chain'[k]) < Rank(chain'[l])
    <2>1. Len(chain) \in Nat
      BY <1>1, ChainSplit
    <2>2. PICK x \in 1 .. Len(w) : x = k - Len(chain) /\ chain'[k] = w[x]
      BY <1>2, <1>5
    <2>3. PICK y \in 1 .. Len(w) : y = l - Len(chain) /\ chain'[l] = w[y]
      BY <1>2, <1>5
    <2>4. x < y
      BY <1>5, <2>1, <2>2, <2>3
    <2> QED BY <1>1, <2>2, <2>3, <2>4 DEF Fits
  <1> QED BY <1>3, <1>4, <1>5

\* An opening keeps what the rows, the windows and the audits say.
LEMMA OpeningKeepsRows ==
    ASSUME EpochInv, NEW j \in Jobs, NEW w, Opening(j, w), now \in Nat
    PROVE  EpochsInOrder' /\ RowsTrue' /\ DeliveriesTold' /\ Committed' /\ AuditsOpened'
  <1> USE DEF EpochInv
  <1>1. /\ Fits(w, j) /\ chain' = chain \o w /\ epochs' = Rolled(now) /\ now' = now
        /\ audits \subseteq audits' /\ missing \subseteq missing'
        /\ delivering' \subseteq delivering
    BY DEF Opening
  <1>2. /\ \A k \in 1 .. Len(chain) : k \in 1 .. Len(chain') /\ chain'[k] = chain[k]
        /\ \A x \in 1 .. Len(w) : Len(chain) + x \in 1 .. Len(chain')
                                  /\ chain'[Len(chain) + x] = w[x]
        /\ chain' \in Seq(ChainRow) /\ Len(chain') \in Nat
    BY <1>1, ChainSplit
  <1>3. Len(epochs) \in Nat /\ Len(epochs') \in Nat /\ Len(epochs) <= Len(epochs')
        /\ (Ended(now) => Len(epochs') = Len(epochs) + 1)
        /\ (~Ended(now) => Len(epochs') = Len(epochs))
    BY <1>1, RolledOver
  <1>4. EpochsInOrder'
    BY <1>1, RolledOver
  <1>5. RowsTrue'
    <2> SUFFICES ASSUME NEW k \in 1 .. Len(chain')
                 PROVE  RowTrue(chain'[k], audits', Len(epochs'))
      BY DEF RowsTrue
    <2>1. CASE k \in 1 .. Len(chain)
      <3>1. RowTrue(chain[k], audits, Len(epochs)) /\ chain'[k] = chain[k]
        BY <1>2, <2>1 DEF RowsTrue
      <3>2. chain[k].type = "sampling_open" => chain[k].job \in audits'
        BY <1>1, <3>1 DEF RowTrue
      <3>3. chain[k].type = "sampling_epoch" => chain[k].epoch \in 1 .. Len(epochs')
        BY <1>3, <3>1 DEF RowTrue
      <3>4. chain[k].type = "sampling_epoch_reveal" => chain[k].epoch \in 1 .. Len(epochs') - 1
        BY <1>3, <3>1 DEF RowTrue
      <3> QED BY <3>1, <3>2, <3>3, <3>4 DEF RowTrue
    <2>2. CASE k \notin 1 .. Len(chain)
      <3>1. Due(chain'[k], j)
        BY <2>2, NewRows
      <3>2. CASE chain'[k] = RevealRow(Len(epochs)) /\ Ended(now) /\ Len(epochs) > 0
        <4>1. Len(epochs) \in 1 .. Len(epochs') - 1
          BY <1>3, <3>2
        <4>2. RevealRow(Len(epochs)).type = "sampling_epoch_reveal"
              /\ RevealRow(Len(epochs)).epoch = Len(epochs)
          BY RowKinds
        <4> QED BY <3>2, <4>1, <4>2 DEF RowTrue
      <3>3. CASE chain'[k] = CommitRow(Len(epochs) + 1) /\ Ended(now)
        <4>1. Len(epochs) + 1 \in 1 .. Len(epochs')
          BY <1>3, <3>3
        <4>2. CommitRow(Len(epochs) + 1).type = "sampling_epoch"
              /\ CommitRow(Len(epochs) + 1).epoch = Len(epochs) + 1
          BY RowKinds
        <4> QED BY <3>3, <4>1, <4>2 DEF RowTrue
      <3>4. CASE chain'[k] = OpenRow(j)
        <4>1. OpenRow(j).type = "sampling_open" /\ OpenRow(j).job = j
          BY RowKinds
        <4>2. PICK x \in 1 .. Len(w) : w[x] = OpenRow(j)
          BY <1>1, <2>2, <3>4, ChainSplit
        <4>3. j \in audits'
          BY <4>2 DEF Opening
        <4> QED BY <3>4, <4>1, <4>3 DEF RowTrue
      <3> QED BY <3>1, <3>2, <3>3, <3>4 DEF Due
    <2> QED BY <2>1, <2>2
  <1>6. DeliveriesTold'
    <2>1. \A d \in delivering' : d.job \in Jobs /\ Tells(chain', d.row, d.job, now)
      BY <1>1, <1>2 DEF DeliveriesTold, Tells
    <2> QED BY <1>1, <2>1 DEF DeliveriesTold
  <1>7. Committed'
    <2> SUFFICES ASSUME NEW e \in 1 .. Len(epochs'), CommitRow(e) \notin missing'
                 PROVE  \E k \in 1 .. Len(chain') : chain'[k] = CommitRow(e)
      BY DEF Committed
    <2>1. CASE e \in 1 .. Len(epochs)
      <3>1. PICK k \in 1 .. Len(chain) : chain[k] = CommitRow(e)
        BY <1>1, <2>1 DEF Committed
      <3> QED BY <1>2, <3>1
    <2>2. CASE e \notin 1 .. Len(epochs)
      <3>1. Ended(now) /\ e = Len(epochs) + 1
        BY <1>3, <2>2
      <3>2. PICK x \in 1 .. Len(w) : w[x] = CommitRow(e)
        BY <3>1 DEF Opening
      <3> QED BY <1>2, <3>2
    <2> QED BY <2>1, <2>2
  <1>8. AuditsOpened'
    <2> SUFFICES ASSUME NEW i \in audits', OpenRow(i) \notin missing'
                 PROVE  \E k \in 1 .. Len(chain') : chain'[k] = OpenRow(i)
      BY DEF AuditsOpened
    <2>1. CASE i \in audits
      <3>1. PICK k \in 1 .. Len(chain) : chain[k] = OpenRow(i)
        BY <1>1, <2>1 DEF AuditsOpened
      <3> QED BY <1>2, <3>1
    <2>2. CASE i \notin audits
      <3>1. i = j
        BY <2>2 DEF Opening
      <3>2. PICK x \in 1 .. Len(w) : w[x] = OpenRow(j)
        BY <2>2, <3>1 DEF Opening
      <3> QED BY <1>2, <3>1, <3>2
    <2> QED BY <2>1, <2>2
  <1> QED BY <1>4, <1>5, <1>6, <1>7, <1>8

\* What an earlier run found out stays true.
LEMMA OpeningKeepsRun ==
    ASSUME EpochInv, NEW j \in Jobs, NEW w, Opening(j, w), now \in Nat,
           NEW i \in 1 .. Len(ran)
    PROVE  RunRight(ran[i], epochs', chain', audits') /\ Between(ran[i], chain')
  <1> USE DEF EpochInv
  <1> DEFINE r == ran[i]
             e == ran[i].epoch
  <1>1. /\ Fits(w, j) /\ chain' = chain \o w /\ epochs' = Rolled(now) /\ now' = now
        /\ audits \subseteq audits'
    BY DEF Opening
  <1>2. /\ \A k \in 1 .. Len(chain) : k \in 1 .. Len(chain') /\ chain'[k] = chain[k]
        /\ \A k \in 1 .. Len(chain') : k \notin 1 .. Len(chain) => k > Len(chain)
        /\ Len(chain) \in Nat /\ Len(chain') \in Nat
    BY <1>1, ChainSplit
  <1>3. RunRight(r, epochs, chain, audits)
    BY DEF RanRight
  <1>4. e \in 1 .. Len(epochs)
    BY <1>3 DEF RunRight
  <1>5. /\ Len(epochs) \in Nat /\ Len(epochs') \in Nat /\ Len(epochs) <= Len(epochs')
        /\ epochs'[e].started = epochs[e].started /\ epochs'[e].ends = epochs[e].ends
    BY <1>1, <1>4, RolledOver
  <1>6. e \in 1 .. Len(epochs') /\ e # Len(epochs) + 1
    BY <1>4, <1>5
  <1>7. RunRight(r, epochs', chain', audits')
    <2>1. Tells(chain', r.row, r.job, r.at)
      BY <1>2, <1>3 DEF RunRight, Tells
    <2> QED BY <1>1, <1>3, <1>5, <1>6, <2>1 DEF RunRight
  <1>8. ASSUME r.opens, NEW k \in 1 .. Len(chain'), k \notin 1 .. Len(chain)
        PROVE  chain'[k] # OpenRow(r.job) /\ chain'[k] # CommitRow(e)
    <2>1. Due(chain'[k], j)
      BY <1>8, NewRows
    <2>2. CASE chain'[k] = RevealRow(Len(epochs))
      BY <2>2, RowKinds
    <2>3. CASE chain'[k] = CommitRow(Len(epochs) + 1)
      BY <1>6, <2>3, RowKinds
    <2>4. CASE chain'[k] = OpenRow(j) /\ Opens(j, now)
      <3>1. r.job # j
        BY <1>3, <1>8, <2>4 DEF RunRight, Opens
      <3> QED BY <2>4, <3>1, RowKinds
    <2> QED BY <2>1, <2>2, <2>3, <2>4 DEF Due
  <1>9. Between(r, chain')
    <2> SUFFICES ASSUME NEW k \in 1 .. Len(chain'), NEW l \in 1 .. Len(chain'),
                        r.opens, chain'[k] = OpenRow(r.job)
                 PROVE  /\ chain'[l] = RevealRow(e) => k < l
                        /\ chain'[l] = CommitRow(e) => l < k
      BY DEF Between
    <2>1. k \in 1 .. Len(chain) /\ chain[k] = OpenRow(r.job)
      BY <1>2, <1>8
    <2>2. CASE l \in 1 .. Len(chain)
      <3>1. Between(r, chain)
        BY DEF OpenedBetween
      <3> QED BY <1>2, <2>1, <2>2, <3>1 DEF Between
    <2>3. CASE l \notin 1 .. Len(chain)
      <3>1. k < l
        BY <1>2, <2>1, <2>3
      <3> QED BY <1>8, <2>3, <3>1
    <2> QED BY <2>2, <2>3
  <1> QED BY <1>7, <1>9

\* No row yet reveals the epoch in force, and what it opens comes after its commitment.
LEMMA OpensBetween ==
    ASSUME EpochInv, NEW j \in Jobs, NEW w, Opening(j, w), now \in Nat, Opens(j, now),
           NEW r, r.job = j, r.epoch = Decides(now)
    PROVE  Between(r, chain')
  <1> USE DEF EpochInv
  <1>1. Fits(w, j) /\ chain' = chain \o w /\ epochs' = Rolled(now) /\ now' = now
    BY DEF Opening
  <1>2. /\ \A k \in 1 .. Len(chain) : k \in 1 .. Len(chain') /\ chain'[k] = chain[k]
        /\ \A k \in 1 .. Len(chain') : k \notin 1 .. Len(chain) => k > Len(chain)
        /\ Len(chain) \in Nat /\ Len(chain') \in Nat
    BY <1>1, ChainSplit
  <1>3. PICK n : n = Len(epochs')
    OBVIOUS
  <1>4. /\ r.epoch = n /\ Len(epochs) \in Nat /\ n \in Nat \ {0}
        /\ (Ended(now) => n = Len(epochs) + 1) /\ (~Ended(now) => n = Len(epochs))
    BY <1>1, <1>3, RolledOver
  <1>5. \A k \in 1 .. Len(chain) : chain[k] # OpenRow(j) /\ chain[k] # RevealRow(n)
    <2> TAKE k \in 1 .. Len(chain)
    <2>1. RowTrue(chain[k], audits, Len(epochs)) /\ j \notin audits
      BY DEF RowsTrue, Opens
    <2>2. n \notin 1 .. Len(epochs) - 1
      BY <1>4
    <2> QED BY <2>1, <2>2, RowKinds DEF RowTrue
  <1>6. \A k \in 1 .. Len(chain') : chain'[k] # RevealRow(n)
    <2> SUFFICES ASSUME NEW k \in 1 .. Len(chain'), chain'[k] = RevealRow(n) PROVE FALSE
      OBVIOUS
    <2>1. k \notin 1 .. Len(chain)
      BY <1>2, <1>5
    <2>2. Due(RevealRow(n), j)
      BY <2>1, NewRows
    <2>3. Ended(now) /\ n = Len(epochs)
      BY <2>2, RowKinds DEF Due
    <2> QED BY <1>4, <2>3
  <1>7. ASSUME NEW k \in 1 .. Len(chain'), NEW l \in 1 .. Len(chain'),
               chain'[k] = OpenRow(j), chain'[l] = CommitRow(n)
        PROVE  l < k
    <2>1. k \notin 1 .. Len(chain)
      BY <1>2, <1>5, <1>7
    <2>2. CASE l \in 1 .. Len(chain)
      BY <1>2, <2>1, <2>2
    <2>3. CASE l \notin 1 .. Len(chain)
      <3>1. Rank(chain'[l]) = 2 /\ Rank(chain'[k]) = 3
        BY <1>7, Ranks
      <3>2. ~(k < l) /\ k # l
        BY <2>1, <2>3, <3>1, NewRows
      <3> QED BY <1>2, <3>2
    <2> QED BY <2>2, <2>3
  <1> QED BY <1>4, <1>6, <1>7 DEF Between

\* A new run is right.
LEMMA NewRunRight ==
    ASSUME EpochInv, NEW j \in Jobs, NEW w, Opening(j, w), now \in Nat, NEW row,
           RunEntry(j, row),
           NEW r, r = [job |-> j, row |-> row, epoch |-> Decides(now), at |-> now,
                       opens |-> Opens(j, now)]
    PROVE  RunRight(r, epochs', chain', audits') /\ Between(r, chain') /\ r \in RunRecord
  <1>1. /\ r.job = j /\ r.row = row /\ r.epoch = Decides(now) /\ r.at = now
        /\ r.opens = Opens(j, now)
    OBVIOUS
  <1>2. /\ Fits(w, j) /\ chain' = chain \o w /\ epochs' = Rolled(now) /\ now' = now
        /\ EpochTypes /\ EpochsInOrder /\ audits \subseteq audits'
    BY DEF Opening, EpochInv
  <1>3. /\ Decides(now) = Len(epochs') /\ Len(epochs') \in Nat \ {0}
        /\ epochs'[Len(epochs')].started <= now /\ now < epochs'[Len(epochs')].ends
    BY <1>2, RolledOver
  <1>4. Tells(chain, row, j, now) /\ row \in Nat /\ (Opens(j, now) => j \in audits')
    BY DEF RunEntry
  <1>5. Tells(chain', row, j, now)
    <2>1. \A k \in 1 .. Len(chain) : k \in 1 .. Len(chain') /\ chain'[k] = chain[k]
      BY <1>2, ChainSplit
    <2> QED BY <1>4, <2>1 DEF Tells
  <1>6. r.opens => <<r.epoch, r.job>> \in Drawn /\ r.job \in audits'
    BY <1>1, <1>4 DEF Opens, Draws
  <1>7. <<r.epoch, r.job>> \in Drawn /\ r.job \in Sampled => r.job \in audits'
    BY <1>1, <1>2, <1>4 DEF Opens, Draws
  <1>8. r.epoch \in 1 .. Len(epochs')
    BY <1>1, <1>3
  <1>9. RunRight(r, epochs', chain', audits')
    BY <1>1, <1>3, <1>5, <1>6, <1>7, <1>8 DEF RunRight
  <1>10. Between(r, chain')
    <2>1. CASE Opens(j, now)
      BY <1>1, <2>1, OpensBetween
    <2>2. CASE ~Opens(j, now)
      BY <1>1, <2>2 DEF Between
    <2> QED BY <2>1, <2>2
  <1>11. r \in RunRecord
    <2>1. Decides(now) \in Nat /\ Opens(j, now) \in BOOLEAN
      BY <1>3 DEF Opens
    <2> QED BY <1>4, <2>1 DEF RunRecord
  <1> QED BY <1>9, <1>10, <1>11

LEMMA OpeningKeeps ==
    ASSUME EpochInv, NEW j \in Jobs, NEW w, Opening(j, w), now \in Nat, NEW row,
           NoEntry(j, w) \/ RunEntry(j, row)
    PROVE  EpochInv'
  <1>1. /\ Fits(w, j) /\ chain' = chain \o w /\ epochs' = Rolled(now) /\ now' = now
        /\ EpochTypes /\ EpochsInOrder /\ audits' \subseteq audits \cup {j}
    BY DEF Opening, EpochInv
  <1>2. EpochsInOrder' /\ RowsTrue' /\ DeliveriesTold' /\ Committed' /\ AuditsOpened'
    BY OpeningKeepsRows
  <1>3. epochs' \in Seq(Epoch)
    BY <1>1, RolledOver
  <1>4. chain' \in Seq(ChainRow)
    BY <1>1, ChainSplit
  <1>5. audits' \subseteq Jobs
    BY <1>1 DEF EpochTypes
  <1>6. ran \in Seq(RunRecord) /\ Len(ran) \in Nat
    <2> HIDE DEF RunRecord
    <2> QED BY <1>1 DEF EpochTypes
  <1>7. \A i \in 1 .. Len(ran) : RunRight(ran[i], epochs', chain', audits')
                                 /\ Between(ran[i], chain')
    BY OpeningKeepsRun
  <1>8. ASSUME NEW i \in Jobs, NEW k \in 1 .. Len(chain'), chain'[k] = OpenRow(i)
        PROVE  \/ \E x \in 1 .. Len(ran) : ran[x].job = i /\ ran[x].opens
               \/ i = j /\ Opens(j, now) /\ \E x \in 1 .. Len(w) : w[x] = OpenRow(j)
    <2>1. CASE k \in 1 .. Len(chain)
      <3>1. chain[k] = OpenRow(i)
        BY <1>1, <1>8, <2>1, ChainSplit
      <3> QED BY <2>1, <3>1 DEF EpochInv, OpeningsRan
    <2>2. CASE k \notin 1 .. Len(chain)
      <3>1. Due(OpenRow(i), j)
        BY <1>8, <2>2, NewRows
      <3>2. i = j /\ Opens(j, now)
        BY <3>1, RowKinds DEF Due
      <3>3. k - Len(chain) \in 1 .. Len(w) /\ chain'[k] = w[k - Len(chain)]
        BY <1>1, <2>2, ChainSplit
      <3> QED BY <1>8, <3>2, <3>3
    <2> QED BY <2>1, <2>2
  <1>9. CASE NoEntry(j, w)
    <2>1. ran' = ran
      BY <1>9 DEF NoEntry
    <2>2. EpochTypes'
      BY <1>3, <1>4, <1>5, <1>6, <2>1 DEF EpochTypes
    <2>3. RanRight' /\ OpenedBetween'
      BY <1>7, <2>1 DEF RanRight, OpenedBetween
    <2>4. OpeningsRan'
      <3>1. \A i \in Jobs, k \in 1 .. Len(chain') : chain'[k] = OpenRow(i) =>
               \E x \in 1 .. Len(ran) : ran[x].job = i /\ ran[x].opens
        BY <1>8, <1>9 DEF NoEntry
      <3> QED BY <2>1, <3>1 DEF OpeningsRan
    <2> QED BY <1>2, <2>2, <2>3, <2>4 DEF EpochInv
  <1>10. CASE RunEntry(j, row)
    <2> DEFINE n == Len(ran) + 1
    <2>1. PICK r : r = [job |-> j, row |-> row, epoch |-> Decides(now), at |-> now,
                        opens |-> Opens(j, now)]
      OBVIOUS
    <2>2. RunRight(r, epochs', chain', audits') /\ Between(r, chain') /\ r \in RunRecord
      BY <1>10, <2>1, NewRunRight
    <2>3. ran' = Append(ran, r)
      BY <1>10, <2>1 DEF RunEntry
    <2>4. /\ ran' \in Seq(RunRecord) /\ Len(ran') = n
          /\ ran'[n] = r /\ n \in 1 .. n
          /\ \A i \in 1 .. Len(ran) : i \in 1 .. n /\ ran'[i] = ran[i]
          /\ \A i \in 1 .. n : i \in 1 .. Len(ran) \/ i = n
      <3> HIDE DEF RunRecord
      <3> QED BY <1>6, <2>2, <2>3
    <2> HIDE DEF n
    <2>5. EpochTypes'
      BY <1>3, <1>4, <1>5, <2>4 DEF EpochTypes
    <2>6. \A i \in 1 .. n : RunRight(ran'[i], epochs', chain', audits') /\ Between(ran'[i], chain')
      BY <1>7, <2>2, <2>4
    <2>7. RanRight' /\ OpenedBetween'
      BY <2>4, <2>6 DEF RanRight, OpenedBetween
    <2>8. OpeningsRan'
      <3> SUFFICES ASSUME NEW i \in Jobs, NEW k \in 1 .. Len(chain'), chain'[k] = OpenRow(i)
                   PROVE  \E x \in 1 .. n : ran'[x].job = i /\ ran'[x].opens
        BY <2>4 DEF OpeningsRan
      <3>1. CASE \E x \in 1 .. Len(ran) : ran[x].job = i /\ ran[x].opens
        BY <2>4, <3>1
      <3>2. CASE i = j /\ Opens(j, now)
        <4>1. r.job = i /\ r.opens
          BY <2>1, <3>2
        <4> QED BY <2>4, <4>1
      <3> QED BY <1>8, <3>1, <3>2
    <2> QED BY <1>2, <2>5, <2>7, <2>8 DEF EpochInv
  <1> QED BY <1>9, <1>10

\* job_complete's maybe_open, to its end.
LEMMA MaybeOpenOpens ==
    ASSUME EpochInv, now \in Nat, now' = now, delivering' \subseteq delivering,
           NEW j \in Jobs, NEW row, Tells(chain, row, j, now), NEW failed,
           MaybeOpen(j, row, now, failed)
    PROVE  EpochInv'
  <1>1. PICK w : w = Written(j, now, failed)
    OBVIOUS
  <1>2. /\ Fits(w, j)
        /\ Ended(now) /\ CommitRow(Len(epochs) + 1) \notin failed
              => \E x \in 1 .. Len(w) : w[x] = CommitRow(Len(epochs) + 1)
        /\ Opens(j, now) /\ OpenRow(j) \notin failed => \E x \in 1 .. Len(w) : w[x] = OpenRow(j)
    BY <1>1, WrittenFits DEF EpochInv
  <1>3. /\ epochs' = Rolled(now) /\ chain' = chain \o w
        /\ audits' = IF Opens(j, now) THEN audits \cup {j} ELSE audits
        /\ missing' = missing \cup failed
        /\ ran' = Append(ran, [job |-> j, row |-> row, epoch |-> Decides(now), at |-> now,
                               opens |-> Opens(j, now)])
    BY <1>1 DEF MaybeOpen
  <1>4. (\E x \in 1 .. Len(w) : w[x] = OpenRow(j)) => Opens(j, now)
    BY <1>2, OpeningIsLast
  <1>5. Opening(j, w)
    BY <1>2, <1>3, <1>4 DEF Opening
  <1>6. row \in Nat
    BY DEF Tells
  <1>7. RunEntry(j, row)
    BY <1>3, <1>6 DEF RunEntry
  <1> QED BY <1>5, <1>7, OpeningKeeps

\* The same, ended inside.
LEMMA CutOpeningOpens ==
    ASSUME EpochInv, now \in Nat, now' = now, delivering' \subseteq delivering,
           NEW j \in Jobs, NEW n, NEW opened \in BOOLEAN, CutOpening(j, now, n, opened)
    PROVE  EpochInv'
  <1>1. PICK all : all = Events(j, now)
    OBVIOUS
  <1>2. /\ Fits(all, j)
        /\ Ended(now) => \E x \in 1 .. Len(all) : all[x] = CommitRow(Len(epochs) + 1)
        /\ Opens(j, now) => (\E x \in 1 .. Len(all) : all[x] = OpenRow(j))
                            /\ all # Queued(now, {})
    BY <1>1, WrittenFits DEF EpochInv, Events
  <1>3. /\ n \in 0 .. Len(all) /\ Len(all) \in Nat
        /\ opened => Opens(j, now) /\ n = Len(all) - 1
        /\ opened \/ n < Len(all) \/ all = Queued(now, {})
    BY <1>1, <1>2 DEF CutOpening, Fits
  <1>4. PICK w : w = SubSeq(all, 1, n)
    OBVIOUS
  <1>5. Fits(w, j) /\ Len(w) = n /\ \A x \in 1 .. n : w[x] = all[x]
    BY <1>2, <1>3, <1>4, PrefixFits
  <1>6. /\ epochs' = Rolled(now) /\ chain' = chain \o w /\ ran' = ran
        /\ audits' = IF opened THEN audits \cup {j} ELSE audits
        /\ missing' = missing \cup {all[i] : i \in n + 1 .. Len(all)}
    BY <1>1, <1>4 DEF CutOpening
  <1>7. ASSUME Ended(now)
        PROVE  LET row == CommitRow(Len(epochs) + 1) IN
               row \in missing' \/ \E x \in 1 .. Len(w) : w[x] = row
    <2>1. PICK x \in 1 .. Len(all) : all[x] = CommitRow(Len(epochs) + 1)
      BY <1>2, <1>7
    <2>2. x \in 1 .. n \/ x \in n + 1 .. Len(all)
      BY <1>3
    <2> QED BY <1>5, <1>6, <2>1, <2>2
  <1>8. \A x \in 1 .. Len(w) : w[x] # OpenRow(j)
    <2> SUFFICES ASSUME NEW x \in 1 .. Len(w), w[x] = OpenRow(j) PROVE FALSE
      OBVIOUS
    <2>1. x \in 1 .. Len(all) /\ all[x] = OpenRow(j)
      BY <1>3, <1>5
    <2>2. x = Len(all) /\ Opens(j, now)
      BY <1>2, <2>1, OpeningIsLast
    <2>3. n = Len(all)
      BY <1>3, <1>5, <2>2
    <2> QED BY <1>2, <1>3, <2>2, <2>3
  <1>9. opened => OpenRow(j) \in missing'
    <2> SUFFICES ASSUME opened PROVE OpenRow(j) \in missing'
      OBVIOUS
    <2>1. PICK x \in 1 .. Len(all) : all[x] = OpenRow(j)
      BY <1>2, <1>3
    <2>2. x = Len(all)
      BY <1>2, <2>1, OpeningIsLast
    <2>3. x \in n + 1 .. Len(all)
      BY <1>3, <2>2
    <2> QED BY <1>6, <2>1, <2>3
  <1>10. Opening(j, w)
    BY <1>5, <1>6, <1>7, <1>8, <1>9 DEF Opening
  <1>11. NoEntry(j, w)
    BY <1>6, <1>8 DEF NoEntry
  <1> QED BY <1>10, <1>11, OpeningKeeps

LEMMA CutKeeps ==
    ASSUME EpochInv, now \in Nat, now' = now, delivering' \subseteq delivering,
           NEW d \in delivering, Cut(d)
    PROVE  EpochInv'
  <1>1. d.job \in Jobs
    BY DEF EpochInv, DeliveriesTold
  <1>2. PICK n \in 0 .. Len(Events(d.job, now)), opened \in BOOLEAN :
           CutOpening(d.job, now, n, opened)
    BY DEF Cut
  <1> QED BY <1>1, <1>2, CutOpeningOpens

LEMMA EpochStep == GateInv /\ EpochInv /\ [Next]_vars => EpochInv'
  <1> SUFFICES ASSUME GateInv, EpochInv, [Next]_vars PROVE EpochInv'
    OBVIOUS
  <1>0. now \in Nat
    BY DEF GateInv, GateTypes
  <1>1. ASSUME UNCHANGED epochVars, delivering' \subseteq delivering,
               now' = now \/ now' = now + 1
        PROVE  EpochInv'
    <2>1. now' \in Nat /\ now <= now'
      BY <1>0, <1>1
    <2> QED BY <1>0, <1>1, <2>1, EpochsStay
  <1>2. CASE Before
    <2>1. UNCHANGED epochVars /\ delivering' = delivering
      BY <1>2 DEF Before
    <2>2. ASSUME NEW w \in Workers, Register(w) \/ Issue(w) \/ Submit(w) \/ Reward(w)
          PROVE  now' = now
      BY <2>2 DEF Register, Issue, Submit, Reward
    <2>3. ASSUME NEW v \in verifying, Activate(v) \/ \E right \in BOOLEAN : SpotCheck(v, right)
          PROVE  now' = now
      BY <2>3 DEF Activate, SpotCheck
    <2>4. ASSUME Flush \/ Tick PROVE now' = now \/ now' = now + 1
      BY <2>4 DEF Flush, Tick
    <2>5. ASSUME NEW j \in Jobs, FailDelivery(j) \/ \E w \in Workers : Request(j, w)
          PROVE  now' = now
      BY <2>5 DEF FailDelivery, Request
    <2>6. now' = now \/ now' = now + 1
      BY <1>2, <2>2, <2>3, <2>4, <2>5 DEF Before
    <2> QED BY <1>1, <2>1, <2>6
  <1>3. ASSUME NEW j \in Jobs, Completed(j) PROVE EpochInv'
    BY <1>0, <1>3, CompletedKeeps
  <1>4. ASSUME NEW d \in delivering, Sampling(d) PROVE EpochInv'
    <2>1. d.job \in Jobs /\ Tells(chain, d.row, d.job, now)
      BY DEF EpochInv, DeliveriesTold
    <2>2. now' = now /\ delivering' \subseteq delivering
      BY <1>4 DEF Sampling, mintGateVars
    <2>3. PICK failed : MaybeOpen(d.job, d.row, now, failed)
      BY <1>4 DEF Sampling
    <2> QED BY <1>0, <2>1, <2>2, <2>3, MaybeOpenOpens
  <1>5. ASSUME NEW d \in delivering, FailSampling(d) PROVE EpochInv'
    <2>1. now' = now /\ delivering' \subseteq delivering
      BY <1>5 DEF FailSampling, mintGateVars
    <2>2. UNCHANGED epochVars \/ Cut(d)
      BY <1>5 DEF FailSampling
    <2> QED BY <1>0, <1>1, <2>1, <2>2, CutKeeps
  <1>6. CASE Crash
    BY <1>1, <1>6 DEF Crash, Stopped
  <1>7. ASSUME NEW j \in Jobs, CrashInDelivery(j) PROVE EpochInv'
    BY <1>1, <1>7 DEF CrashInDelivery, CutDelivery, Stopped
  <1>8. ASSUME NEW d \in delivering, CrashInSampling(d) PROVE EpochInv'
    <2>1. now' = now /\ delivering' \subseteq delivering /\ Cut(d)
      BY <1>8 DEF CrashInSampling, Stopped
    <2> QED BY <1>0, <2>1, CutKeeps
  <1>9. CASE UNCHANGED vars
    BY <1>1, <1>9 DEF vars, mintGateVars
  <1> QED BY <1>2, <1>3, <1>4, <1>5, <1>6, <1>7, <1>8, <1>9 DEF Next

\* No secret opens an audit after the chain has revealed it, or before the chain has its
\* commitment unless that row failed; and whoever recomputes an epoch from its revealed
\* secret calls no delivery misconduct but one that was selected late or never, that had
\* no result or lost its row, or whose job another delivery had audited, through any
\* rollovers, stops, failures and deliveries of the same job (maybe_open,
\* _current_epoch, _flush_epoch_audits).
THEOREM Provable == Spec => []SelectionProvable
  <1>1. Init => GateInv /\ EpochInv
    BY GateInit, EpochInit
  <1>2. GateInv /\ EpochInv /\ [Next]_vars => (GateInv /\ EpochInv)'
    BY GateStep, EpochStep
  <1> QED BY <1>1, <1>2, EpochIsProvable, PTL DEF Spec

=============================================================================
