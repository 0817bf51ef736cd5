------------------------- MODULE HubReplicasProofs -------------------------
(***************************************************************************)
(* Proofs about HubReplicas, for any number of replicas, any lifetimes and *)
(* any difference of the hosts' clocks.                                    *)
(***************************************************************************)
EXTENDS HubReplicas, TLAPS

\* A renewal the database answered and the replica has not published yet is
\* covered by the row until its deadline, and nothing else carries a generation.
AnswerIsCovered ==
    \A r \in Replicas :
        /\ call[r].at # "answered" => call[r].gen = 0
        /\ call[r].at = "answered" /\ call[r].gen > 0 /\ call[r].age < Lifetime =>
             /\ lease.holder = r /\ lease.gen = call[r].gen
             /\ lease.left >= Lifetime - call[r].age
        /\ call[r].at = "releasing" => ~Leads(r)

LeaseInv == LeaderHoldsLease /\ AnswerIsCovered

\* No transaction is open, and none was committed, at a generation to come.
WriteInv ==
    /\ committed <= lease.gen
    /\ \A r \in Replicas : txn[r] <= lease.gen

\* A tick younger than its claim, less the skew, still has the row.
TickInv ==
    \A r \in Replicas :
        tick[r].at # "none" /\ tick[r].age < ClaimLife - Skew =>
            claim.owner = r /\ claim.left >= ClaimLife + Clock[r] - tick[r].age

Inv == TypeOK /\ LeaseInv /\ WriteInv /\ TickInv

-----------------------------------------------------------------------------

LEMMA InitInv == Init => Inv
  BY HubAssumption DEF Init, Inv, TypeOK, LeaseInv, LeaderHoldsLease, AnswerIsCovered, Leads,
     WriteInv, TickInv, Generations, At, Standby, NoTick

\* The tasks that renew and release the writer lease.
LeaseStep(r) ==
    Request(r) \/ Acquire(r) \/ Publish(r) \/ RenewalFails(r) \/ StepDown(r) \/ Release(r)

\* Transactions that write.
WriteStep(r) == BeginWrite(r) \/ EndWrite(r)

\* Reconcile ticks.
TickStep(r) ==
    \/ TickAsked(r) \/ TickPasses(r) \/ TickStarts(r) \/ TickBusy(r) \/ TickErrs(r)
    \/ TickRuns(r) \/ TickEnds(r) \/ TickDropped(r)

LEMMA StepKinds ==
    ASSUME NEW r \in Replicas, Step(r)
    PROVE  LeaseStep(r) \/ WriteStep(r) \/ TickStep(r) \/ Crash(r)
  BY DEF Step, LeaseStep, WriteStep, TickStep

\* What a tick leaves alone, the lease's invariants do not read.
LEMMA TicksKeepLease ==
    ASSUME LeaseInv, WriteInv, UNCHANGED leasing PROVE LeaseInv' /\ WriteInv'
  BY DEF LeaseInv, LeaderHoldsLease, AnswerIsCovered, Leads, WriteInv, leasing

LEMMA LeasingKeepsTicks ==
    ASSUME TickInv, UNCHANGED ticking PROVE TickInv'
  BY DEF TickInv, ticking

LEMMA LeaseStepKeepsInv ==
    ASSUME Inv, NEW r \in Replicas, LeaseStep(r) PROVE Inv'
<1> USE HubAssumption DEF Inv, TypeOK, Generations, LeaseInv, LeaderHoldsLease, AnswerIsCovered,
        Leads, WriteInv, At, Standby, Fault
<1>1. CASE Request(r)
  <2>1. TypeOK' /\ LeaseInv' /\ WriteInv'
    BY <1>1 DEF Request, ticking
  <2> QED
    BY <1>1, <2>1, LeasingKeepsTicks DEF Request
<1>2. CASE Acquire(r)
  <2>1. CASE lease.left > 0 /\ lease.holder # r
    <3>1. /\ call[r].at = "asked"
          /\ call' = [call EXCEPT ![r] = [at |-> "answered", age |-> call[r].age, gen |-> 0]]
          /\ UNCHANGED <<lease, role, txn, committed, faults>> /\ UNCHANGED ticking
      BY <1>2, <2>1 DEF Acquire
    <3>2. TypeOK'
      BY <3>1 DEF ticking
    <3>3. LeaseInv' /\ WriteInv'
      BY <3>1
    <3> QED
      BY <3>1, <3>2, <3>3, LeasingKeepsTicks
  <2>2. CASE ~(lease.left > 0 /\ lease.holder # r)
    <3>1. /\ lease' = [holder |-> r, left |-> Lifetime,
                       gen |-> IF lease.left > 0 THEN lease.gen ELSE lease.gen + 1]
          /\ lease'.gen \in 1 .. MaxGeneration \/ lease'.gen = lease.gen
          /\ call' = [call EXCEPT ![r] =
                        [at |-> "answered", age |-> call[r].age, gen |-> lease'.gen]]
      BY <1>2, <2>2 DEF Acquire, Acquired
    <3>2. TypeOK'
      BY <1>2, <3>1 DEF Acquire, ticking
    <3>3. LeaderHoldsLease'
      BY <1>2, <2>2, <3>1 DEF Acquire
    <3>4. AnswerIsCovered'
      BY <1>2, <2>2, <3>1, <3>3 DEF Acquire
    <3>5. WriteInv'
      BY <1>2, <3>1 DEF Acquire
    <3> QED
      BY <1>2, <3>2, <3>3, <3>4, <3>5, LeasingKeepsTicks DEF Acquire
  <2> QED
    BY <2>1, <2>2
<1>3. CASE Publish(r)
  <2>1. TypeOK' /\ LeaseInv' /\ WriteInv'
    BY <1>3 DEF Publish, Deadline, ticking
  <2> QED
    BY <1>3, <2>1, LeasingKeepsTicks DEF Publish
<1>4. CASE RenewalFails(r)
  <2>1. TypeOK' /\ LeaseInv' /\ WriteInv'
    BY <1>4 DEF RenewalFails, ticking
  <2> QED
    BY <1>4, <2>1, LeasingKeepsTicks DEF RenewalFails
<1>5. CASE StepDown(r)
  <2>1. TypeOK' /\ LeaseInv' /\ WriteInv'
    BY <1>5 DEF StepDown, ticking
  <2> QED
    BY <1>5, <2>1, LeasingKeepsTicks DEF StepDown
<1>6. CASE Release(r)
  <2>1. /\ lease' \in {lease, [holder |-> lease.holder, gen |-> lease.gen, left |-> 0]}
        /\ faults' \in 0 .. MaxFaults
    BY <1>6 DEF Release
  <2>4. TypeOK'
    BY <1>6, <2>1 DEF Release, ticking
  <2>2. LeaseInv'
    BY <1>6 DEF Release
  <2>3. WriteInv'
    BY <1>6 DEF Release
  <2> QED
    BY <1>6, <2>2, <2>3, <2>4, LeasingKeepsTicks DEF Release
<1> QED
  BY <1>1, <1>2, <1>3, <1>4, <1>5, <1>6 DEF LeaseStep

LEMMA WriteStepKeepsInv ==
    ASSUME Inv, NEW r \in Replicas, WriteStep(r) PROVE Inv'
<1> USE HubAssumption DEF Inv, TypeOK, Generations, LeaseInv, LeaderHoldsLease, AnswerIsCovered,
        Leads, WriteInv, ticking
<1>1. CASE BeginWrite(r)
  <2>1. TypeOK' /\ LeaseInv' /\ WriteInv'
    BY <1>1 DEF BeginWrite
  <2> QED
    BY <1>1, <2>1, LeasingKeepsTicks DEF BeginWrite
<1>2. CASE EndWrite(r)
  <2>1. TypeOK' /\ LeaseInv' /\ WriteInv'
    BY <1>2 DEF EndWrite
  <2> QED
    BY <1>2, <2>1, LeasingKeepsTicks DEF EndWrite
<1> QED
  BY <1>1, <1>2 DEF WriteStep

LEMMA TickStepKeepsInv ==
    ASSUME Inv, NEW r \in Replicas, TickStep(r) PROVE Inv'
<1>1. UNCHANGED leasing
  BY DEF TickStep, TickAsked, TickPasses, TickStarts, TickBusy, TickErrs, TickRuns, TickEnds,
     TickDropped
<1>2. LeaseInv' /\ WriteInv'
  BY <1>1, TicksKeepLease DEF Inv
<1> USE HubAssumption DEF Inv, TypeOK, Generations, TickInv, leasing, Reaches, PassedOver,
        MayTick, Finish, Fault, NoTick, ReleaseClaim, Released, Lower, ClaimedByOther
<1>3. CASE TickAsked(r) \/ TickPasses(r) \/ TickBusy(r) \/ TickErrs(r)
  <2>1. UNCHANGED <<claim, tick, dropped>>
    BY <1>3 DEF TickAsked, TickPasses, TickBusy, TickErrs
  <2>2. queued' \in [Replicas -> BOOLEAN]
    BY <1>3 DEF TickAsked, TickPasses, TickBusy, TickErrs
  <2>3. inFlight' \in [Replicas -> BOOLEAN]
    BY <1>3 DEF TickAsked, TickPasses, TickBusy, TickErrs
  <2>4. wait' \in [Replicas -> 0 .. MaxBackoff]
    BY <1>3 DEF TickAsked, TickPasses, TickBusy, TickErrs
  <2>5. faults' \in 0 .. MaxFaults
    BY <1>3 DEF TickAsked, TickPasses, TickBusy, TickErrs
  <2>6. TypeOK'
    BY <1>1, <2>1, <2>2, <2>3, <2>4, <2>5
  <2>7. TickInv'
    BY <2>1
  <2> QED
    BY <1>2, <2>6, <2>7
<1>4. CASE TickStarts(r)
  <2>1. TypeOK'
    BY <1>1, <1>4 DEF TickStarts
  <2>2. TickInv'
    BY <1>4 DEF TickStarts
  <2> QED
    BY <1>2, <2>1, <2>2
<1>5. CASE TickRuns(r)
  <2>1. TypeOK'
    BY <1>1, <1>5 DEF TickRuns
  <2>2. TickInv'
    BY <1>5 DEF TickRuns
  <2> QED
    BY <1>2, <2>1, <2>2
<1>6. CASE TickEnds(r) \/ TickDropped(r)
  <2>1. /\ claim' \in {claim, [owner |-> claim.owner, left |-> Lower(claim.left, Clock[r])]}
        /\ claim.owner # r => claim' = claim
        /\ tick' = [tick EXCEPT ![r] = [at |-> "none", age |-> 0]]
    BY <1>6 DEF TickEnds, TickDropped
  <2>2. queued' = queued /\ faults' \in 0 .. MaxFaults
    BY <1>6 DEF TickEnds, TickDropped
  <2>3. inFlight' \in [Replicas -> BOOLEAN] /\ dropped' \in [Replicas -> BOOLEAN]
    <3>1. CASE TickEnds(r)
      BY <3>1 DEF TickEnds
    <3>2. CASE TickDropped(r)
      BY <3>2 DEF TickDropped
    <3> QED
      BY <1>6, <3>1, <3>2
  <2>4. wait' \in [Replicas -> 0 .. MaxBackoff]
    BY <1>6 DEF TickEnds, TickDropped
  <2>5. claim' \in [owner : Replicas \union {Nobody}, left : 0 .. ClaimLife + Skew]
    BY <2>1
  <2>6. tick' \in [Replicas -> [at : {"none", "admitted", "running"}, age : 0 .. ClaimLife]]
    BY <2>1
  <2>7. TypeOK'
    BY <1>1, <2>2, <2>3, <2>4, <2>5, <2>6
  <2>8. TickInv'
    <3> SUFFICES ASSUME NEW s \in Replicas, tick'[s].at # "none",
                        tick'[s].age < ClaimLife - Skew
                 PROVE  claim'.owner = s /\ claim'.left >= ClaimLife + Clock[s] - tick'[s].age
      OBVIOUS
    <3>1. s # r /\ tick'[s] = tick[s]
      BY <2>1
    <3> QED
      BY <2>1, <3>1
  <2> QED
    BY <1>2, <2>7, <2>8
<1> QED
  BY <1>3, <1>4, <1>5, <1>6 DEF TickStep

LEMMA CrashKeepsInv ==
    ASSUME Inv, NEW r \in Replicas, Crash(r) PROVE Inv'
<1> USE HubAssumption DEF Inv, TypeOK, Generations, Crash, At, Standby, NoTick, Fault
<1>1. /\ lease' \in {lease, [holder |-> Nobody, gen |-> lease.gen, left |-> lease.left]}
      /\ claim' \in {claim, [owner |-> Nobody, left |-> claim.left]}
  OBVIOUS
<1>2. faults' \in 0 .. MaxFaults
  OBVIOUS
<1>3. TypeOK'
  BY <1>1, <1>2
<1>4. LeaseInv' /\ WriteInv'
  BY DEF LeaseInv, LeaderHoldsLease, AnswerIsCovered, Leads, WriteInv
<1>5. TickInv'
  BY DEF TickInv
<1> QED
  BY <1>3, <1>4, <1>5

LEMMA LessInRange ==
    ASSUME NEW m \in Nat, NEW n \in 0 .. m PROVE Less(n) \in 0 .. m
  BY DEF Less

LEMMA ElapseKeepsInv ==
    ASSUME Inv, Elapse PROVE Inv'
<1> USE HubAssumption DEF Inv, TypeOK, Generations
<1>1. TypeOK'
  <2>1. /\ lease' = [holder |-> lease.holder, gen |-> lease.gen, left |-> Less(lease.left)]
        /\ claim' = [owner |-> claim.owner, left |-> Less(claim.left)]
    BY DEF Elapse
  <2>2. Less(lease.left) \in 0 .. Lifetime /\ Less(claim.left) \in 0 .. ClaimLife + Skew
    BY LessInRange
  <2>3. /\ lease' \in [holder : Replicas \union {Nobody}, gen : Generations, left : 0 .. Lifetime]
        /\ claim' \in [owner : Replicas \union {Nobody}, left : 0 .. ClaimLife + Skew]
    BY <2>1, <2>2
  <2>4. role' \in [Replicas -> [gen : Generations, left : 0 .. Lifetime]]
    <3>1. \A r \in Replicas : role[r].gen \in Generations /\ Less(role[r].left) \in 0 .. Lifetime
      BY LessInRange
    <3> QED
      BY <3>1 DEF Elapse
  <2>5. call' \in [Replicas -> [at : {"idle", "due", "asked", "answered", "releasing"},
                                age : 0 .. Lifetime, gen : Generations]]
    BY DEF Elapse, Lower, At
  <2>6. tick' \in [Replicas -> [at : {"none", "admitted", "running"}, age : 0 .. ClaimLife]]
    BY DEF Elapse, Lower
  <2>7. wait' \in [Replicas -> 0 .. MaxBackoff] /\ faults' \in 0 .. MaxFaults
    BY LessInRange DEF Elapse, Fault
  <2> QED
    BY <2>3, <2>4, <2>5, <2>6, <2>7 DEF Elapse
<1> USE DEF Elapse, Less, Lower, At
<1>2. LeaderHoldsLease'
  BY DEF LeaseInv, LeaderHoldsLease, Leads
<1>3. AnswerIsCovered'
  BY DEF LeaseInv, AnswerIsCovered, Leads
<1>4. WriteInv'
  BY DEF WriteInv
<1>5. TickInv'
  BY DEF TickInv
<1> QED
  BY <1>1, <1>2, <1>3, <1>4, <1>5 DEF LeaseInv

LEMMA StutterKeepsInv ==
    ASSUME Inv, UNCHANGED vars PROVE Inv'
  BY DEF Inv, TypeOK, LeaseInv, LeaderHoldsLease, AnswerIsCovered, Leads, WriteInv, TickInv, vars,
     leasing, ticking

LEMMA NextKeepsInv ==
    ASSUME Inv, [Next]_vars PROVE Inv'
  BY StepKinds, LeaseStepKeepsInv, WriteStepKeepsInv, TickStepKeepsInv, CrashKeepsInv,
     ElapseKeepsInv, StutterKeepsInv DEF Next

\* The invariant from which the theorems below follow.
THEOREM InvAlways == Spec => []Inv
<1>1. Inv /\ [Next]_vars => Inv'
  BY NextKeepsInv
<1> QED
  BY InitInv, <1>1, PTL DEF Spec

-----------------------------------------------------------------------------

\* The rows, the cached roles and the tasks keep their types.
THEOREM TypeCorrect == Spec => []TypeOK
<1>1. Inv => TypeOK
  BY DEF Inv
<1> QED
  BY InvAlways, <1>1, PTL

\* WriterFence::role never answers leader when the row does not say so.
THEOREM LeadersHoldTheLease == Spec => []LeaderHoldsLease
<1>1. Inv => LeaderHoldsLease
  BY DEF Inv, LeaseInv
<1> QED
  BY InvAlways, <1>1, PTL

\* No transaction commits at a generation that was superseded.
THEOREM CommitsAreOrdered == Spec => CommitsInOrder
<1>1. Inv /\ [Next]_vars
        => [committed' # committed => committed' > committed /\ committed' = lease.gen]_vars
  <2> SUFFICES ASSUME Inv, Next, committed' # committed
               PROVE  committed' > committed /\ committed' = lease.gen
    OBVIOUS
  <2>1. PICK r \in Replicas : EndWrite(r)
    BY DEF Next, Step, Elapse, Request, Acquire, Publish, RenewalFails, StepDown, Release,
       BeginWrite, TickAsked, TickPasses, TickStarts, TickBusy, TickErrs, TickRuns, TickEnds,
       TickDropped, Crash, leasing
  <2> QED
    <3>1. committed' = txn[r] /\ lease.gen = txn[r]
      BY <2>1 DEF EndWrite, RequireWriter
    <3>2. committed \in Nat /\ lease.gen \in Nat /\ committed <= lease.gen
      BY HubAssumption DEF Inv, TypeOK, WriteInv, Generations
    <3> QED
      BY <3>1, <3>2
<1> QED
  BY InvAlways, <1>1, PTL DEF Spec, CommitsInOrder

\* At most one of the replicas that reconcile an environment is within its
\* claim.
THEOREM TicksAreExclusive == Spec => []OneTickPerClaim
<1>1. Inv => OneTickPerClaim
  <2> SUFFICES ASSUME Inv, NEW r \in Replicas, NEW s \in Replicas, r # s,
                      tick[r].at # "none", tick[s].at # "none",
                      ~(tick[r].age >= ClaimLife - Skew), ~(tick[s].age >= ClaimLife - Skew)
               PROVE  FALSE
    BY DEF OneTickPerClaim
  <2>1. tick[r].age < ClaimLife - Skew /\ tick[s].age < ClaimLife - Skew
    BY HubAssumption DEF Inv, TypeOK
  <2> QED
    BY <2>1 DEF Inv, TickInv
<1> QED
  BY InvAlways, <1>1, PTL

-----------------------------------------------------------------------------

\* Each step of the hub is a step of the fence, or leaves it alone.
LEMMA StepImplementsFence ==
    ASSUME Inv, [Next]_vars PROVE [Fence!FenceNext]_(Fence!fence)
<1> USE HubAssumption DEF Fence!FenceNext, Fence!fence, Fence!Grant, Fence!Lapse
<1>1. CASE UNCHANGED lease
  BY <1>1
<1>2. CASE Elapse
  BY <1>2 DEF Elapse, Less, Inv, TypeOK
<1>3. ASSUME NEW r \in Replicas, Acquire(r) PROVE [Fence!FenceNext]_(Fence!fence)
  <2>1. CASE lease.left > 0
    BY <1>3, <2>1 DEF Acquire, Acquired, Inv, TypeOK
  <2>2. CASE lease.left = 0
    <3>1. /\ lease'.gen = lease.gen + 1 /\ lease'.gen # 0 /\ lease.gen < MaxGeneration
          /\ lease'.left > 0
      BY <1>3, <2>2 DEF Acquire, Acquired, Inv, TypeOK, Generations
    <3> QED
      BY <2>2, <3>1
  <2> QED
    <3>1. lease.left > 0 \/ lease.left = 0
      BY DEF Inv, TypeOK
    <3> QED
      BY <2>1, <2>2, <3>1
<1>4. ASSUME NEW r \in Replicas, Release(r) PROVE [Fence!FenceNext]_(Fence!fence)
  BY <1>4 DEF Release, Inv, TypeOK
<1>5. ASSUME NEW r \in Replicas, Crash(r) PROVE [Fence!FenceNext]_(Fence!fence)
  BY <1>5 DEF Crash, Inv, TypeOK
<1>6. Elapse \/ UNCHANGED lease \/ \E r \in Replicas : Acquire(r) \/ Release(r) \/ Crash(r)
  BY DEF Next, Step, Request, Publish, RenewalFails, StepDown, BeginWrite, EndWrite, TickAsked,
     TickPasses, TickStarts, TickBusy, TickErrs, TickRuns, TickEnds, TickDropped, vars, leasing
<1> QED
  BY <1>1, <1>2, <1>3, <1>4, <1>5, <1>6

\* The writer lease is a generation fence, whichever replica is granted it.
THEOREM WriterLeaseIsAFence == Spec => ImplementsFence
<1>1. Init => Fence!FenceInit
  BY DEF Init, Fence!FenceInit
<1>2. Inv /\ [Next]_vars => [Fence!FenceNext]_(Fence!fence)
  BY StepImplementsFence
<1> QED
  BY InvAlways, <1>1, <1>2, PTL DEF Spec, ImplementsFence, Fence!FenceSpec
=============================================================================
