----------------------- MODULE EnvironmentLeaseProofs -----------------------
(***************************************************************************)
(* Proofs about EnvironmentLease, for any sets of claimers, any lease      *)
(* lifetimes and any bounds, and about FencedMutation, for any runs.       *)
(***************************************************************************)
EXTENDS EnvironmentLease, FencedMutation, TLAPS

\* The types without the flags: the provers take Boolean variables apart.
TypedData == LeaseType /\ ObjectType /\ ClaimerType /\ UnlockType

\* Every step keeps the types of the rows, objects and local state.
LEMMA DataType ==
    ASSUME TypedData, [Next]_vars PROVE TypedData'
<1> USE ProcessAssumption, BoundAssumption
<1> USE DEF TypedData, LeaseType, ObjectType, ClaimerType, UnlockType, store, local, history,
            At, Goto, Return, Steps, ClaimSteps, HeldSteps, RuntimeSteps, UnlockSteps
<1>1. ASSUME NEW p \in Claimers, ClaimStep(p) PROVE TypedData'
  <2>1. CASE BeginClaim(p)
    BY <2>1 DEF BeginClaim
  <2>2. CASE CheckMigrationLock(p)
    BY <2>2 DEF CheckMigrationLock
  <2>3. CASE CheckLegacy(p)
    BY <2>3 DEF CheckLegacy
  <2>4. CASE ReadLink(p)
    BY <2>4 DEF ReadLink, BeforeAcquire
  <2>5. CASE InspectLinked(p)
    BY <2>5 DEF InspectLinked, BeforeAcquire
  <2>6. CASE InspectIdleClaim(p)
    BY <2>6 DEF InspectIdleClaim, BeforeAcquire
  <2>7. CASE RefuseExpiredHolder(p)
    BY <2>7 DEF RefuseExpiredHolder
  <2>8. CASE AcquireLease(p)
    BY <2>8 DEF AcquireLease, GrantRow, TTL
  <2>9. CASE CreateClaimRead(p)
    BY <2>9 DEF CreateClaimRead, NextAfterCreate
  <2>10. CASE CreateClaimPut(p)
    BY <2>10 DEF CreateClaimPut, NextAfterCreate
  <2>11. CASE CreateLink(p)
    BY <2>11 DEF CreateLink
  <2>12. CASE AdoptClaim(p)
    BY <2>12 DEF AdoptClaim
  <2>13. CASE RecheckMigrationLock(p)
    BY <2>13 DEF RecheckMigrationLock, AfterClaim
  <2>14. CASE AbandonClaim(p)
    BY <2>14 DEF AbandonClaim, Holds, Live
  <2> QED
    BY <1>1, <2>1, <2>2, <2>3, <2>4, <2>5, <2>6, <2>7, <2>8, <2>9, <2>10, <2>11, <2>12, <2>13,
       <2>14 DEF ClaimStep
<1>2. ASSUME NEW p \in Claimers, WorkStep(p) PROVE TypedData'
  <2>1. CASE CheckRuntimeManaged(p)
    BY <2>1 DEF CheckRuntimeManaged
  <2>2. CASE RefreshLease(p)
    BY <2>2 DEF RefreshLease, TTL
  <2>3. CASE GuardedWrite(p)
    BY <2>3 DEF GuardedWrite
  <2>4. CASE FinishWork(p)
    BY <2>4 DEF FinishWork
  <2>5. CASE ReadMigrationLock(p)
    BY <2>5 DEF ReadMigrationLock
  <2>6. CASE CreateMigrationLock(p)
    BY <2>6 DEF CreateMigrationLock
  <2>7. CASE MarkReleased(p)
    BY <2>7 DEF MarkReleased
  <2>8. CASE ReleaseLease(p)
    BY <2>8 DEF ReleaseLease, AfterRelease, Holds, Live
  <2>9. CASE FinishMigration(p)
    BY <2>9 DEF FinishMigration
  <2>10. CASE ClearAuthorizedPlan(p)
    BY <2>10 DEF ClearAuthorizedPlan
  <2>11. ASSUME NEW a \in Appliers, AuthorizePlan(p, a) PROVE TypedData'
    BY <2>11 DEF AuthorizePlan
  <2> QED
    BY <1>2, <2>1, <2>2, <2>3, <2>4, <2>5, <2>6, <2>7, <2>8, <2>9, <2>10, <2>11 DEF WorkStep
<1>3. ASSUME NEW p \in Claimers, Crash(p) PROVE TypedData'
  BY <1>3 DEF Crash
<1>4. CASE RuntimeStep
  <2>1. CASE EnrollRuntime
    BY <2>1 DEF EnrollRuntime
  <2>2. CASE PollClaims
    BY <2>2 DEF PollClaims, Claimers
  <2>3. CASE PollLease
    BY <2>3 DEF PollLease, Claimers
  <2>4. CASE HandOff
    BY <2>4 DEF HandOff, Claimers
  <2>5. CASE RuntimeClaimsPlan
    BY <2>5 DEF RuntimeClaimsPlan, Claimers
  <2>6. CASE RuntimeClaimEnds
    BY <2>6 DEF RuntimeClaimEnds, Claimers
  <2> QED
    BY <1>4, <2>1, <2>2, <2>3, <2>4, <2>5, <2>6 DEF RuntimeStep
<1>5. CASE UnlockStep
  <2>1. CASE UnlockLegacy
    BY <2>1 DEF UnlockLegacy
  <2>2. CASE UnlockInspect
    BY <2>2 DEF UnlockInspect, Unlocking
  <2>3. CASE UnlockReadLease
    BY <2>3 DEF UnlockReadLease, IdleUnlock, Unlocking
  <2>4. CASE UnlockTakeover
    BY <2>4 DEF UnlockTakeover, GrantRow, IdleUnlock, Unlocking
  <2>5. CASE UnlockRelease
    BY <2>5 DEF UnlockRelease, Live, IdleUnlock, Unlocking
  <2>6. CASE UnlockPutClaim
    BY <2>6 DEF UnlockPutClaim, Unlocking
  <2>7. CASE UnlockUnlink
    BY <2>7 DEF UnlockUnlink, IdleUnlock, Unlocking
  <2> QED
    BY <1>5, <2>1, <2>2, <2>3, <2>4, <2>5, <2>6, <2>7 DEF UnlockStep
<1>6. CASE CrashUnlock
  BY <1>6 DEF CrashUnlock, IdleUnlock, Unlocking
<1>7. CASE RetireCheck \/ RetirePut \/ Tick
  BY <1>7 DEF RetireCheck, RetirePut, Tick
<1>8. CASE UNCHANGED vars
  BY <1>8 DEF vars
<1> QED
  BY <1>1, <1>2, <1>3, <1>4, <1>5, <1>6, <1>7, <1>8 DEF Next

\* Every step keeps the flags Boolean.
LEMMA FlagStep ==
    ASSUME FlagType, [Next]_vars PROVE FlagType'
<1> USE DEF FlagType, store, local, history, Goto, Return
<1>1. ASSUME NEW p \in Claimers, ClaimStep(p) PROVE FlagType'
  BY <1>1 DEF ClaimStep, BeginClaim, CheckMigrationLock, CheckLegacy, ReadLink, InspectLinked,
      InspectIdleClaim, RefuseExpiredHolder, AcquireLease, CreateClaimRead, CreateClaimPut,
      CreateLink, AdoptClaim, RecheckMigrationLock, AbandonClaim
<1>2. ASSUME NEW p \in Claimers, WorkStep(p) PROVE FlagType'
  BY <1>2 DEF WorkStep, CheckRuntimeManaged, RefreshLease, GuardedWrite, FinishWork,
      ReadMigrationLock, CreateMigrationLock, MarkReleased, ReleaseLease, FinishMigration,
      ClearAuthorizedPlan, AuthorizePlan
<1>3. ASSUME NEW p \in Claimers, Crash(p) PROVE FlagType'
  BY <1>3 DEF Crash
<1>4. CASE RuntimeStep
  BY <1>4 DEF RuntimeStep, EnrollRuntime, PollClaims, PollLease, HandOff, RuntimeClaimsPlan,
      RuntimeClaimEnds
<1>5. CASE UnlockStep \/ CrashUnlock
  BY <1>5 DEF UnlockStep, CrashUnlock, UnlockLegacy, UnlockInspect, UnlockReadLease,
      UnlockTakeover, UnlockRelease, UnlockPutClaim, UnlockUnlink
<1>6. CASE RetireCheck \/ RetirePut \/ Tick
  BY <1>6 DEF RetireCheck, RetirePut, Tick
<1>7. CASE UNCHANGED vars
  BY <1>7 DEF vars
<1> QED
  BY <1>1, <1>2, <1>3, <1>4, <1>5, <1>6, <1>7 DEF Next

-----------------------------------------------------------------------------
(* The fence. *)

\* Nobody holds a generation that was not granted, and no committed write is
\* ahead of the row.
NotAhead ==
    /\ \A p \in Claimers : gen[p] <= lease.gen
    /\ unlock.gen <= lease.gen
    /\ lastWrite <= lease.gen

\* The token of the current generation is in the hands of its owner only.
TokenIsOwners ==
    \A p \in Claimers : gen[p] # 0 /\ gen[p] = lease.gen => lease.owner = p

FenceInv == NotAhead /\ TokenIsOwners

\* Every step keeps the fence: a grant counts up, and hands the token to the
\* claimer it names as owner.
LEMMA FenceStep ==
    ASSUME TypedData, FenceInv, [Next]_vars PROVE FenceInv'
<1> USE ProcessAssumption, BoundAssumption
<1> USE DEF TypedData, LeaseType, ClaimerType, UnlockType, FenceInv, NotAhead, TokenIsOwners,
            store, local, history, Goto, Return
<1>1. ASSUME NEW p \in Claimers, ClaimStep(p) PROVE FenceInv'
  <2>1. CASE AcquireLease(p)
    BY <2>1 DEF AcquireLease, GrantRow
  <2>2. CASE AdoptClaim(p)
    BY <2>2 DEF AdoptClaim, Holds
  <2>3. CASE AbandonClaim(p)
    BY <2>3 DEF AbandonClaim
  <2>4. CASE BeginClaim(p) \/ ReadLink(p) \/ InspectLinked(p) \/ InspectIdleClaim(p)
    BY <2>4 DEF BeginClaim, ReadLink, InspectLinked, InspectIdleClaim
  <2>5. CASE CheckMigrationLock(p) \/ CheckLegacy(p) \/ RefuseExpiredHolder(p)
    BY <2>5 DEF CheckMigrationLock, CheckLegacy, RefuseExpiredHolder
  <2>6. CASE CreateClaimRead(p) \/ CreateClaimPut(p) \/ CreateLink(p) \/ RecheckMigrationLock(p)
    BY <2>6 DEF CreateClaimRead, CreateClaimPut, CreateLink, RecheckMigrationLock
  <2> QED
    BY <1>1, <2>1, <2>2, <2>3, <2>4, <2>5, <2>6 DEF ClaimStep
<1>2. ASSUME NEW p \in Claimers, WorkStep(p) PROVE FenceInv'
  <2>1. CASE RefreshLease(p)
    BY <2>1 DEF RefreshLease, Holds, TTL
  <2>2. CASE GuardedWrite(p)
    BY <2>2 DEF GuardedWrite, Holds
  <2>3. CASE MarkReleased(p)
    BY <2>3 DEF MarkReleased, Holds
  <2>4. CASE ReleaseLease(p)
    BY <2>4 DEF ReleaseLease
  <2>5. CASE CheckRuntimeManaged(p) \/ FinishWork(p) \/ ReadMigrationLock(p) \/ FinishMigration(p)
    BY <2>5 DEF CheckRuntimeManaged, FinishWork, ReadMigrationLock, FinishMigration
  <2>6. CASE CreateMigrationLock(p) \/ ClearAuthorizedPlan(p) \/ \E a \in Appliers : AuthorizePlan(p, a)
    BY <2>6 DEF CreateMigrationLock, ClearAuthorizedPlan, AuthorizePlan
  <2> QED
    BY <1>2, <2>1, <2>2, <2>3, <2>4, <2>5, <2>6 DEF WorkStep
<1>3. ASSUME NEW p \in Claimers, Crash(p) PROVE FenceInv'
  BY <1>3 DEF Crash
<1>4. CASE RuntimeStep
  BY <1>4 DEF RuntimeStep, EnrollRuntime, PollClaims, PollLease, HandOff, RuntimeClaimsPlan,
      RuntimeClaimEnds, Claimers
<1>5. CASE UnlockTakeover
  BY <1>5 DEF UnlockTakeover, GrantRow, Unlocking, IdleUnlock
<1>6. CASE UnlockRelease
  BY <1>6 DEF UnlockRelease, Unlocking, IdleUnlock
<1>7. CASE UnlockLegacy \/ UnlockInspect \/ UnlockReadLease \/ UnlockPutClaim \/ UnlockUnlink
  BY <1>7 DEF UnlockLegacy, UnlockInspect, UnlockReadLease, UnlockPutClaim, UnlockUnlink,
      Unlocking, IdleUnlock
<1>8. CASE CrashUnlock \/ RetireCheck \/ RetirePut \/ Tick
  BY <1>8 DEF CrashUnlock, RetireCheck, RetirePut, Tick, Unlocking, IdleUnlock
<1>9. CASE UNCHANGED vars
  BY <1>9 DEF vars
<1> QED
  BY <1>1, <1>2, <1>3, <1>4, <1>5, <1>6, <1>7, <1>8, <1>9 DEF Next, UnlockStep

-----------------------------------------------------------------------------
(* What the fence gives. *)

\* The runtime polls, and claims a plan, only once the environment is enrolled.
PollsOnceEnrolled == ~enrolled => pc[Runtime] = "idle" /\ delivery = "none"

\* Only a poll takes the runtime out of idle, and a poll needs the enrollment.
LEMMA EnrolledStep ==
    ASSUME TypedData, PollsOnceEnrolled, [Next]_vars PROVE PollsOnceEnrolled'
<1> USE ProcessAssumption DEF TypedData, ClaimerType, PollsOnceEnrolled, Claimers, At,
            store, local, history, Goto, Return
<1>1. ASSUME NEW p \in Claimers, ClaimStep(p) PROVE PollsOnceEnrolled'
  BY <1>1 DEF ClaimStep, BeginClaim, CheckMigrationLock, CheckLegacy, ReadLink, InspectLinked,
      InspectIdleClaim, RefuseExpiredHolder, AcquireLease, CreateClaimRead, CreateClaimPut,
      CreateLink, AdoptClaim, RecheckMigrationLock, AbandonClaim
<1>2. ASSUME NEW p \in Claimers, WorkStep(p) PROVE PollsOnceEnrolled'
  BY <1>2 DEF WorkStep, CheckRuntimeManaged, RefreshLease, GuardedWrite, FinishWork,
      ReadMigrationLock, CreateMigrationLock, MarkReleased, ReleaseLease, FinishMigration,
      ClearAuthorizedPlan, AuthorizePlan
<1>3. ASSUME NEW p \in Claimers, Crash(p) PROVE PollsOnceEnrolled'
  BY <1>3 DEF Crash
<1>4. CASE RuntimeStep
  BY <1>4 DEF RuntimeStep, EnrollRuntime, PollClaims, PollLease, HandOff, RuntimeClaimsPlan,
      RuntimeClaimEnds
<1>5. CASE UnlockStep \/ CrashUnlock
  BY <1>5 DEF UnlockStep, CrashUnlock, UnlockLegacy, UnlockInspect, UnlockReadLease,
      UnlockTakeover, UnlockRelease, UnlockPutClaim, UnlockUnlink
<1>6. CASE RetireCheck \/ RetirePut \/ Tick
  BY <1>6 DEF RetireCheck, RetirePut, Tick
<1>7. CASE UNCHANGED vars
  BY <1>7 DEF vars
<1> QED
  BY <1>1, <1>2, <1>3, <1>4, <1>5, <1>6, <1>7 DEF Next

\* Every step keeps server executions and the runtime apart.
LEMMA ExclusiveStep ==
    ASSUME TypedData, FenceInv, PollsOnceEnrolled, ServerRuntimeExclusive, [Next]_vars
    PROVE  ServerRuntimeExclusive'
<1> USE ProcessAssumption, BoundAssumption
<1> USE DEF TypedData, LeaseType, ClaimerType, FenceInv, NotAhead, TokenIsOwners, Claimers,
            ServerRuntimeExclusive, Holds, Live, At, store, local, history, Goto, Return
<1>1. ASSUME NEW p \in Claimers, ClaimStep(p) PROVE ServerRuntimeExclusive'
  <2>1. CASE AcquireLease(p)
    BY <2>1 DEF AcquireLease, GrantRow, TTL
  <2>2. CASE AdoptClaim(p) \/ AbandonClaim(p)
    BY <2>2 DEF AdoptClaim, AbandonClaim
  <2>3. CASE RecheckMigrationLock(p)
    BY <2>3 DEF RecheckMigrationLock, AfterClaim
  <2>4. CASE BeginClaim(p) \/ ReadLink(p) \/ InspectLinked(p) \/ InspectIdleClaim(p)
    BY <2>4 DEF BeginClaim, ReadLink, InspectLinked, InspectIdleClaim, BeforeAcquire
  <2>5. CASE CheckMigrationLock(p) \/ CheckLegacy(p) \/ RefuseExpiredHolder(p)
    BY <2>5 DEF CheckMigrationLock, CheckLegacy, RefuseExpiredHolder
  <2>6. CASE CreateClaimRead(p) \/ CreateClaimPut(p) \/ CreateLink(p)
    BY <2>6 DEF CreateClaimRead, CreateClaimPut, CreateLink, NextAfterCreate
  <2> QED
    BY <1>1, <2>1, <2>2, <2>3, <2>4, <2>5, <2>6 DEF ClaimStep
<1>2. ASSUME NEW p \in Claimers, WorkStep(p) PROVE ServerRuntimeExclusive'
  <2>1. CASE RefreshLease(p)
    BY <2>1 DEF RefreshLease, TTL
  <2>2. CASE GuardedWrite(p)
    BY <2>2 DEF GuardedWrite
  <2>3. CASE MarkReleased(p)
    BY <2>3 DEF MarkReleased
  <2>4. CASE ReleaseLease(p)
    BY <2>4 DEF ReleaseLease, AfterRelease
  <2>5. CASE CheckRuntimeManaged(p)
    BY <2>5 DEF CheckRuntimeManaged, PollsOnceEnrolled
  <2>6. CASE FinishWork(p) \/ ReadMigrationLock(p) \/ FinishMigration(p)
    BY <2>6 DEF FinishWork, ReadMigrationLock, FinishMigration
  <2>7. CASE CreateMigrationLock(p) \/ ClearAuthorizedPlan(p) \/ \E a \in Appliers : AuthorizePlan(p, a)
    BY <2>7 DEF CreateMigrationLock, ClearAuthorizedPlan, AuthorizePlan
  <2> QED
    BY <1>2, <2>1, <2>2, <2>3, <2>4, <2>5, <2>6, <2>7 DEF WorkStep
<1>3. ASSUME NEW p \in Claimers, Crash(p) PROVE ServerRuntimeExclusive'
  BY <1>3 DEF Crash
<1>4. CASE RuntimeStep
  BY <1>4 DEF RuntimeStep, EnrollRuntime, PollClaims, PollLease, HandOff, RuntimeClaimsPlan,
      RuntimeClaimEnds
<1>5. CASE UnlockTakeover
  BY <1>5 DEF UnlockTakeover, GrantRow
<1>6. CASE UnlockRelease
  BY <1>6 DEF UnlockRelease
<1>7. CASE UnlockLegacy \/ UnlockInspect \/ UnlockReadLease \/ UnlockPutClaim \/ UnlockUnlink
  BY <1>7 DEF UnlockLegacy, UnlockInspect, UnlockReadLease, UnlockPutClaim, UnlockUnlink
<1>8. CASE CrashUnlock \/ RetireCheck \/ RetirePut \/ Tick
  BY <1>8 DEF CrashUnlock, RetireCheck, RetirePut, Tick
<1>9. CASE UNCHANGED vars
  BY <1>9 DEF vars
<1> QED
  BY <1>1, <1>2, <1>3, <1>4, <1>5, <1>6, <1>7, <1>8, <1>9 DEF Next, UnlockStep

\* A step that leaves the clock, the row and the retirement alone and
\* opens no claim of the runtime, keeps a retired environment quiet.
LEMMA QuietUnchanged ==
    ASSUME RetiredIsQuiet, UNCHANGED <<now, lease, retired>>,
           delivery = "none" => delivery' = "none"
    PROVE  RetiredIsQuiet'
BY DEF RetiredIsQuiet, Live

\* Every step keeps a retired environment quiet.
LEMMA RetiredStep ==
    ASSUME TypedData, FenceInv, RetiredIsQuiet, [Next]_vars
    PROVE  RetiredIsQuiet'
<1> USE ProcessAssumption DEF Claimers, At, store, local, history, Goto, Return
<1>1. pc \in [Claimers -> Steps]
  BY DEF TypedData, ClaimerType
<1>2. ASSUME NEW p \in Claimers, ClaimStep(p) PROVE RetiredIsQuiet'
  <2>1. CASE AcquireLease(p)
    <3>1. CASE AcquireAdmits(p)
      BY <1>1, <2>1, <3>1 DEF AcquireLease, AcquireAdmits, RetiredIsQuiet
    <3>2. CASE ~AcquireAdmits(p)
      BY <1>1, <2>1, <3>2, QuietUnchanged DEF AcquireLease
    <3> QED
      BY <3>1, <3>2
  <2>2. CASE AbandonClaim(p)
    BY <1>1, <2>2 DEF AbandonClaim, RetiredIsQuiet, Live, Holds, TypedData, LeaseType
  <2>3. CASE AdoptClaim(p) \/ RecheckMigrationLock(p)
    BY <1>1, <2>3, QuietUnchanged DEF AdoptClaim, RecheckMigrationLock, AfterClaim
  <2>4. CASE BeginClaim(p) \/ ReadLink(p)
    BY <1>1, <2>4, QuietUnchanged DEF BeginClaim, ReadLink, BeforeAcquire
  <2>5. CASE InspectLinked(p) \/ InspectIdleClaim(p)
    BY <1>1, <2>5, QuietUnchanged DEF InspectLinked, InspectIdleClaim, BeforeAcquire
  <2>6. CASE CheckMigrationLock(p) \/ CheckLegacy(p) \/ RefuseExpiredHolder(p)
    BY <1>1, <2>6, QuietUnchanged DEF CheckMigrationLock, CheckLegacy, RefuseExpiredHolder
  <2>7. CASE CreateClaimRead(p) \/ CreateClaimPut(p) \/ CreateLink(p)
    BY <1>1, <2>7, QuietUnchanged DEF CreateClaimRead, CreateClaimPut, CreateLink, NextAfterCreate
  <2> QED
    BY <1>2, <2>1, <2>2, <2>3, <2>4, <2>5, <2>6, <2>7 DEF ClaimStep
<1>3. ASSUME NEW p \in Claimers, WorkStep(p) PROVE RetiredIsQuiet'
  <2>1. CASE RefreshLease(p)
    <3>1. Live /\ lease.owner = p
      BY <2>1 DEF RefreshLease, Holds, Live, FenceInv, TokenIsOwners, TypedData, LeaseType
    <3> QED
      BY <2>1, <3>1 DEF RefreshLease, RetiredIsQuiet
  <2>2. CASE ReleaseLease(p)
    BY <1>1, <2>2 DEF ReleaseLease, AfterRelease, RetiredIsQuiet, Live, Holds, TypedData, LeaseType
  <2>3. CASE GuardedWrite(p) \/ MarkReleased(p)
    BY <1>1, <2>3, QuietUnchanged DEF GuardedWrite, MarkReleased
  <2>4. CASE CheckRuntimeManaged(p) \/ FinishWork(p) \/ ReadMigrationLock(p) \/ FinishMigration(p)
    BY <1>1, <2>4, QuietUnchanged DEF CheckRuntimeManaged, FinishWork, ReadMigrationLock, FinishMigration
  <2>5. CASE CreateMigrationLock(p) \/ ClearAuthorizedPlan(p) \/ \E a \in Appliers : AuthorizePlan(p, a)
    BY <1>1, <2>5, QuietUnchanged DEF CreateMigrationLock, ClearAuthorizedPlan, AuthorizePlan
  <2> QED
    BY <1>3, <2>1, <2>2, <2>3, <2>4, <2>5 DEF WorkStep
<1>4. ASSUME NEW p \in Claimers, Crash(p) PROVE RetiredIsQuiet'
  BY <1>1, <1>4, QuietUnchanged DEF Crash
<1>5. CASE RuntimeClaimsPlan
  BY <1>1, <1>5 DEF RuntimeClaimsPlan, RetiredIsQuiet, Live
<1>6. CASE EnrollRuntime \/ PollClaims \/ PollLease \/ HandOff \/ RuntimeClaimEnds
  BY <1>1, <1>6, QuietUnchanged DEF EnrollRuntime, PollClaims, PollLease, HandOff, RuntimeClaimEnds
<1>7. CASE UnlockTakeover
  BY <1>7 DEF UnlockTakeover, GrantRow, RetiredIsQuiet, Live
<1>8. CASE UnlockRelease
  BY <1>8 DEF UnlockRelease, RetiredIsQuiet, Live, TypedData, LeaseType
<1>9. CASE UnlockLegacy \/ UnlockInspect \/ UnlockReadLease \/ UnlockPutClaim \/ UnlockUnlink
  BY <1>9, QuietUnchanged DEF UnlockLegacy, UnlockInspect, UnlockReadLease, UnlockPutClaim, UnlockUnlink
<1>10. CASE RetirePut
  <2>1. retired' => retired \/ RetireAdmits
    BY <1>10, Zenon DEF RetirePut
  <2> QED
    BY <1>10, <2>1 DEF RetirePut, RetireAdmits, RetiredIsQuiet, Live
<1>11. CASE CrashUnlock \/ RetireCheck
  BY <1>11, QuietUnchanged DEF CrashUnlock, RetireCheck
<1>12. CASE Tick
  <2>1. Live' => Live
    BY <1>12 DEF Tick, Live, TypedData, LeaseType
  <2> QED
    BY <1>12, <2>1 DEF Tick, RetiredIsQuiet
<1>13. CASE UNCHANGED vars
  BY <1>13, QuietUnchanged DEF vars
<1> QED
  BY <1>2, <1>3, <1>4, <1>5, <1>6, <1>7, <1>8, <1>9, <1>10, <1>11, <1>12, <1>13
     DEF Next, RuntimeStep, UnlockStep

\* The plan on a migration lock is one that this lock has authorized, and the
\* lock already guards an apply between its second check and its work.
MigrationInv ==
    /\ lock.plan # None => lock.plan \in authorized
    /\ \A m \in Migrations, a \in Appliers :
           /\ pc[m] = "migrating" /\ lock.owner = m
           /\ pc[a] \in {"managed", "work"} /\ Holds(a)
           => a \in authorized

\* Every step keeps unauthorized applies out of a running migration.
LEMMA MigrationStep ==
    ASSUME TypedData, FenceInv, MigrationInv, [Next]_vars
    PROVE  MigrationInv'
<1> USE ProcessAssumption, BoundAssumption
<1> USE DEF TypedData, LeaseType, ClaimerType, FenceInv, NotAhead, TokenIsOwners, Claimers,
            ObjectType, MigrationInv, Holds, Live, At, store, local, history, Goto, Return
<1>1. ASSUME NEW p \in Claimers, ClaimStep(p) PROVE MigrationInv'
  <2>1. CASE AcquireLease(p)
    BY <2>1 DEF AcquireLease, GrantRow, TTL
  <2>2. CASE AdoptClaim(p) \/ AbandonClaim(p)
    BY <2>2 DEF AdoptClaim, AbandonClaim
  <2>3. CASE RecheckMigrationLock(p)
    BY <2>3 DEF RecheckMigrationLock, ForeignLock, AfterClaim
  <2>4. CASE BeginClaim(p) \/ ReadLink(p) \/ InspectLinked(p) \/ InspectIdleClaim(p)
    BY <2>4 DEF BeginClaim, ReadLink, InspectLinked, InspectIdleClaim, BeforeAcquire
  <2>5. CASE CheckMigrationLock(p) \/ CheckLegacy(p) \/ RefuseExpiredHolder(p)
    BY <2>5 DEF CheckMigrationLock, CheckLegacy, RefuseExpiredHolder
  <2>6. CASE CreateClaimRead(p) \/ CreateClaimPut(p) \/ CreateLink(p)
    BY <2>6 DEF CreateClaimRead, CreateClaimPut, CreateLink, NextAfterCreate
  <2> QED
    BY <1>1, <2>1, <2>2, <2>3, <2>4, <2>5, <2>6 DEF ClaimStep
<1>2. ASSUME NEW p \in Claimers, WorkStep(p) PROVE MigrationInv'
  <2>1. CASE RefreshLease(p)
    BY <2>1 DEF RefreshLease, TTL
  <2>2. CASE GuardedWrite(p)
    BY <2>2 DEF GuardedWrite
  <2>3. CASE MarkReleased(p)
    BY <2>3 DEF MarkReleased
  <2>4. CASE ReleaseLease(p)
    BY <2>4 DEF ReleaseLease, AfterRelease
  <2>5. CASE CheckRuntimeManaged(p)
    BY <2>5 DEF CheckRuntimeManaged
  <2>6. CASE FinishWork(p) \/ ReadMigrationLock(p) \/ FinishMigration(p)
    BY <2>6 DEF FinishWork, ReadMigrationLock, FinishMigration
  <2>7. CASE CreateMigrationLock(p) \/ ClearAuthorizedPlan(p) \/ \E a \in Appliers : AuthorizePlan(p, a)
    BY <2>7 DEF CreateMigrationLock, ClearAuthorizedPlan, AuthorizePlan
  <2> QED
    BY <1>2, <2>1, <2>2, <2>3, <2>4, <2>5, <2>6, <2>7 DEF WorkStep
<1>3. ASSUME NEW p \in Claimers, Crash(p) PROVE MigrationInv'
  BY <1>3 DEF Crash
<1>4. CASE RuntimeStep
  BY <1>4 DEF RuntimeStep, EnrollRuntime, PollClaims, PollLease, HandOff, RuntimeClaimsPlan,
      RuntimeClaimEnds
<1>5. CASE UnlockTakeover
  BY <1>5 DEF UnlockTakeover, GrantRow
<1>6. CASE UnlockRelease
  BY <1>6 DEF UnlockRelease
<1>7. CASE UnlockLegacy \/ UnlockInspect \/ UnlockReadLease \/ UnlockPutClaim \/ UnlockUnlink
  BY <1>7 DEF UnlockLegacy, UnlockInspect, UnlockReadLease, UnlockPutClaim, UnlockUnlink
<1>8. CASE CrashUnlock \/ RetireCheck \/ RetirePut \/ Tick
  BY <1>8 DEF CrashUnlock, RetireCheck, RetirePut, Tick
<1>9. CASE UNCHANGED vars
  BY <1>9 DEF vars
<1> QED
  BY <1>1, <1>2, <1>3, <1>4, <1>5, <1>6, <1>7, <1>8, <1>9 DEF Next, UnlockStep

\* Every step keeps guarded writes in generation order.
LEMMA WriteOrderStep ==
    ASSUME TypedData, FenceInv, [Next]_vars PROVE lastWrite' >= lastWrite
<1> USE ProcessAssumption, BoundAssumption
<1> USE DEF TypedData, LeaseType, ClaimerType, FenceInv, NotAhead, Holds, store, local, history
<1>1. ASSUME NEW p \in Claimers, ClaimStep(p) PROVE lastWrite' >= lastWrite
  <2>1. CASE AdoptClaim(p)
    BY <2>1 DEF AdoptClaim
  <2> QED
    BY <1>1, <2>1 DEF ClaimStep, BeginClaim, CheckMigrationLock, CheckLegacy, ReadLink,
        InspectLinked, InspectIdleClaim, RefuseExpiredHolder, AcquireLease, CreateClaimRead,
        CreateClaimPut, CreateLink, RecheckMigrationLock, AbandonClaim
<1>2. ASSUME NEW p \in Claimers, WorkStep(p) PROVE lastWrite' >= lastWrite
  <2>1. CASE RefreshLease(p)
    BY <2>1 DEF RefreshLease
  <2>2. CASE GuardedWrite(p)
    BY <2>2 DEF GuardedWrite
  <2>3. CASE MarkReleased(p)
    BY <2>3 DEF MarkReleased
  <2> QED
    BY <1>2, <2>1, <2>2, <2>3 DEF WorkStep, CheckRuntimeManaged, FinishWork, ReadMigrationLock,
        CreateMigrationLock, ReleaseLease, FinishMigration, ClearAuthorizedPlan, AuthorizePlan
<1>3. ASSUME NEW p \in Claimers, Crash(p) PROVE lastWrite' >= lastWrite
  BY <1>3 DEF Crash
<1>4. CASE RuntimeStep
  BY <1>4 DEF RuntimeStep, EnrollRuntime, PollClaims, PollLease, HandOff, RuntimeClaimsPlan,
      RuntimeClaimEnds
<1>5. CASE UnlockStep \/ CrashUnlock
  BY <1>5 DEF UnlockStep, CrashUnlock, UnlockLegacy, UnlockInspect, UnlockReadLease,
      UnlockTakeover, UnlockRelease, UnlockPutClaim, UnlockUnlink
<1>6. CASE RetireCheck \/ RetirePut \/ Tick \/ UNCHANGED vars
  BY <1>6 DEF RetireCheck, RetirePut, Tick, vars
<1> QED
  BY <1>1, <1>2, <1>3, <1>4, <1>5, <1>6 DEF Next

\* Every step leaves a live row to the one who holds its token.
LEMMA HolderStep ==
    ASSUME TypedData, [Next]_vars, Live, lease' # lease
    PROVE  \/ \E p \in Claimers : Holds(p) /\ lease'.gen = lease.gen
           \/ unlock.pc = "release" /\ unlock.gen = lease.gen
<1> DEFINE ByHolder == \/ \E p \in Claimers : Holds(p) /\ lease'.gen = lease.gen
                       \/ unlock.pc = "release" /\ unlock.gen = lease.gen
<1> USE DEF TypedData, LeaseType, store, local, history
<1>1. ASSUME NEW p \in Claimers, ClaimStep(p) PROVE ByHolder
  <2>1. CASE AcquireLease(p)
    BY <2>1 DEF AcquireLease, AcquireAdmits
  <2>2. CASE AbandonClaim(p)
    BY <2>2 DEF AbandonClaim
  <2> QED
    BY <1>1, <2>1, <2>2 DEF ClaimStep, BeginClaim, CheckMigrationLock, CheckLegacy, ReadLink,
        InspectLinked, InspectIdleClaim, RefuseExpiredHolder, CreateClaimRead, CreateClaimPut,
        CreateLink, AdoptClaim, RecheckMigrationLock
<1>2. ASSUME NEW p \in Claimers, WorkStep(p) PROVE ByHolder
  <2>1. CASE RefreshLease(p)
    BY <2>1 DEF RefreshLease
  <2>2. CASE ReleaseLease(p)
    BY <2>2 DEF ReleaseLease
  <2> QED
    BY <1>2, <2>1, <2>2 DEF WorkStep, CheckRuntimeManaged, GuardedWrite, FinishWork,
        ReadMigrationLock, CreateMigrationLock, MarkReleased, FinishMigration,
        ClearAuthorizedPlan, AuthorizePlan
<1>3. ASSUME NEW p \in Claimers, Crash(p) PROVE ByHolder
  BY <1>3 DEF Crash
<1>4. CASE RuntimeStep
  BY <1>4 DEF RuntimeStep, EnrollRuntime, PollClaims, PollLease, HandOff, RuntimeClaimsPlan,
      RuntimeClaimEnds
<1>5. CASE UnlockTakeover
  BY <1>5, BoundAssumption DEF UnlockTakeover, TakeoverAdmits, Live
<1>6. CASE UnlockRelease
  BY <1>6 DEF UnlockRelease
<1>7. CASE UnlockLegacy \/ UnlockInspect \/ UnlockReadLease \/ UnlockPutClaim \/ UnlockUnlink
  BY <1>7 DEF UnlockLegacy, UnlockInspect, UnlockReadLease, UnlockPutClaim, UnlockUnlink
<1>8. CASE CrashUnlock \/ RetireCheck \/ RetirePut \/ Tick \/ UNCHANGED vars
  BY <1>8 DEF CrashUnlock, RetireCheck, RetirePut, Tick, vars
<1> QED
  BY <1>1, <1>2, <1>3, <1>4, <1>5, <1>6, <1>7, <1>8 DEF Next, UnlockStep

\* A step that leaves the clock and the row alone is a stutter of the fence.
LEMMA FenceStutters ==
    ASSUME UNCHANGED <<now, lease>> PROVE UNCHANGED Fence!fence
BY DEF Fence!fence, Live

\* Every step of the lease protocol is a grant, a lapse or a stutter of the fence.
LEMMA FenceSimulation ==
    ASSUME TypedData, [Next]_vars PROVE [Fence!FenceNext]_(Fence!fence)
<1> USE DEF store, local, history
<1> DEFINE Abstract == [Fence!FenceNext]_(Fence!fence)
<1>1. ASSUME NEW o \in Claimers \cup {"manual-unlock"}, NEW ttl \in Nat \ {0},
             ~Live, GrantRow(o, ttl), now' = now
      PROVE  Abstract
  <2>1. Live'
    BY <1>1, BoundAssumption DEF GrantRow, Live, TypedData, LeaseType
  <2>2. Fence!Grant(o)
    BY <1>1, <2>1 DEF GrantRow, Fence!Grant
  <2> QED
    BY <2>2 DEF Fence!FenceNext
<1>2. ASSUME Live, lease' = [lease EXCEPT !.status = "released"] PROVE Abstract
  <2>1. ~Live' /\ UNCHANGED <<lease.gen, lease.owner>>
    BY <1>2 DEF Live, TypedData, LeaseType
  <2> QED
    BY <1>2, <2>1 DEF Fence!FenceNext, Fence!Lapse
<1>3. ASSUME NEW p \in Claimers, ClaimStep(p) PROVE Abstract
  <2>1. CASE AcquireLease(p) /\ AcquireAdmits(p)
    <3>1. TTL(p) \in Nat \ {0}
      BY BoundAssumption DEF TTL
    <3> QED
      BY <1>1, <2>1, <3>1 DEF AcquireLease, AcquireAdmits
  <2>2. CASE AcquireLease(p) /\ ~AcquireAdmits(p)
    BY <2>2, FenceStutters DEF AcquireLease
  <2>3. CASE AbandonClaim(p)
    BY <1>2, <2>3, FenceStutters DEF AbandonClaim, Holds
  <2>4. CASE ~AcquireLease(p) /\ ~AbandonClaim(p)
    BY <1>3, <2>4, FenceStutters DEF ClaimStep, BeginClaim, CheckMigrationLock, CheckLegacy,
       ReadLink, InspectLinked, InspectIdleClaim, RefuseExpiredHolder, CreateClaimRead,
       CreateClaimPut, CreateLink, AdoptClaim, RecheckMigrationLock
  <2> QED
    BY <2>1, <2>2, <2>3, <2>4
<1>4. ASSUME NEW p \in Claimers, WorkStep(p) PROVE Abstract
  <2>1. CASE RefreshLease(p)
    <3>1. Live /\ Live' /\ UNCHANGED <<lease.gen, lease.owner>>
      BY <2>1, BoundAssumption DEF RefreshLease, Holds, Live, TTL, TypedData, LeaseType
    <3> QED
      BY <3>1 DEF Fence!fence
  <2>2. CASE ReleaseLease(p)
    BY <1>2, <2>2, FenceStutters DEF ReleaseLease, Holds
  <2>3. CASE ~RefreshLease(p) /\ ~ReleaseLease(p)
    BY <1>4, <2>3, FenceStutters DEF WorkStep, CheckRuntimeManaged, GuardedWrite, FinishWork,
       ReadMigrationLock, CreateMigrationLock, MarkReleased, FinishMigration,
       ClearAuthorizedPlan, AuthorizePlan
  <2> QED
    BY <2>1, <2>2, <2>3
<1>5. ASSUME NEW p \in Claimers, Crash(p) PROVE Abstract
  BY <1>5, FenceStutters DEF Crash
<1>6. CASE RuntimeStep
  BY <1>6, FenceStutters DEF RuntimeStep, EnrollRuntime, PollClaims, PollLease, HandOff,
     RuntimeClaimsPlan, RuntimeClaimEnds
<1>7. CASE UnlockTakeover /\ TakeoverAdmits
  <2>1. ~Live
    BY <1>7 DEF TakeoverAdmits, Live, TypedData, LeaseType
  <2> QED
    BY <1>1, <1>7, <2>1, BoundAssumption DEF UnlockTakeover
<1>8. CASE UnlockTakeover /\ ~TakeoverAdmits
  BY <1>8, FenceStutters DEF UnlockTakeover
<1>9. CASE UnlockRelease
  BY <1>2, <1>9, FenceStutters DEF UnlockRelease
<1>10. CASE UnlockLegacy \/ UnlockInspect \/ UnlockReadLease \/ UnlockPutClaim \/ UnlockUnlink
  BY <1>10, FenceStutters DEF UnlockLegacy, UnlockInspect, UnlockReadLease, UnlockPutClaim,
     UnlockUnlink
<1>11. CASE CrashUnlock \/ RetireCheck \/ RetirePut \/ UNCHANGED vars
  BY <1>11, FenceStutters DEF CrashUnlock, RetireCheck, RetirePut, vars
<1>12. CASE Tick
  <2>1. lease' = lease /\ (Live' => Live)
    BY <1>12 DEF Tick, Live, TypedData, LeaseType
  <2>2. Live' = Live \/ (Live /\ ~Live')
    BY <2>1, Zenon DEF Live
  <2> QED
    BY <2>1, <2>2 DEF Fence!FenceNext, Fence!Lapse, Fence!fence
<1> QED
  BY <1>3, <1>4, <1>5, <1>6, <1>7, <1>8, <1>9, <1>10, <1>11, <1>12 DEF Next, UnlockStep

-----------------------------------------------------------------------------
(* The theorems. *)

IndInv == TypedData /\ FlagType /\ FenceInv /\ PollsOnceEnrolled

\* The initial state satisfies every invariant.
LEMMA InitInv ==
    ASSUME Init
    PROVE  IndInv /\ ServerRuntimeExclusive /\ RetiredIsQuiet /\ MigrationInv
<1> USE ProcessAssumption, BoundAssumption
<1> USE DEF Init, Claimers, IdleUnlock, Unlocking
<1>1. TypedData
  BY DEF TypedData, LeaseType, ObjectType, ClaimerType, UnlockType, Steps, UnlockSteps
<1>2. FlagType
  BY DEF FlagType
<1>3. FenceInv
  BY DEF FenceInv, NotAhead, TokenIsOwners
<1>4. PollsOnceEnrolled
  BY DEF PollsOnceEnrolled
<1>5. ServerRuntimeExclusive /\ RetiredIsQuiet /\ MigrationInv
  BY DEF ServerRuntimeExclusive, RetiredIsQuiet, MigrationInv, Holds, Live
<1> QED
  BY <1>1, <1>2, <1>3, <1>4, <1>5 DEF IndInv

\* The types and the fence hold in every reachable state.
THEOREM Inductive == Spec => []IndInv
<1>1. Init => IndInv
  BY InitInv
<1>2. IndInv /\ [Next]_vars => IndInv'
  BY DataType, FlagStep, FenceStep, EnrolledStep DEF IndInv
<1> QED
  BY <1>1, <1>2, PTL DEF Spec

\* Every variable keeps its type, and a lease row, once created, its count of
\* generations (claim, release, takeover and unlock never delete it).
THEOREM TypeCorrect == Spec => []TypeOK
<1>1. IndInv => TypeOK
  BY DEF IndInv, TypedData, TypeOK
<1> QED
  BY <1>1, Inductive, PTL

\* Guarded writes commit in generation order, whatever is paused or crashes:
\* the fence of require_active_lease_in orders them.
THEOREM WritesInOrder == Spec => FencedWritesInOrder
<1>1. IndInv /\ [Next]_vars => [lastWrite' >= lastWrite]_vars
  BY WriteOrderStep DEF IndInv
<1> QED
  BY <1>1, Inductive, PTL DEF Spec, FencedWritesInOrder

\* A live row is changed by the holder of its token and by nobody else.
THEOREM LiveLeaseIsHolders == Spec => OnlyHolderChangesLiveLease
<1> DEFINE A == Live /\ lease' # lease =>
                  \/ \E p \in Claimers : Holds(p) /\ lease'.gen = lease.gen
                  \/ unlock.pc = "release" /\ unlock.gen = lease.gen
<1>1. IndInv /\ [Next]_vars => [A]_vars
  BY HolderStep DEF IndInv
<1> QED
  BY <1>1, Inductive, PTL DEF Spec, OnlyHolderChangesLiveLease

\* The lease protocol implements the generation fence.
THEOREM LeaseIsFence == Spec => ImplementsFence
<1>1. Init => Fence!FenceInit
  BY DEF Init, Fence!FenceInit, Live
<1>2. IndInv /\ [Next]_vars => [Fence!FenceNext]_(Fence!fence)
  BY FenceSimulation DEF IndInv
<1> QED
  BY <1>1, <1>2, Inductive, PTL DEF Spec, ImplementsFence, Fence!FenceSpec

\* A server execution that holds its lease and the enrolled runtime never run
\* the environment together.
THEOREM ExclusiveExecution == Spec => []ServerRuntimeExclusive
<1>1. Init => ServerRuntimeExclusive
  BY InitInv
<1>2. IndInv /\ ServerRuntimeExclusive /\ [Next]_vars => ServerRuntimeExclusive'
  BY ExclusiveStep DEF IndInv
<1> QED
  BY <1>1, <1>2, Inductive, PTL DEF Spec

\* A retired environment is not being delivered to.
THEOREM RetirementIsQuiet == Spec => []RetiredIsQuiet
<1>1. Init => RetiredIsQuiet
  BY InitInv
<1>2. IndInv /\ RetiredIsQuiet /\ [Next]_vars => RetiredIsQuiet'
  BY RetiredStep DEF IndInv
<1> QED
  BY <1>1, <1>2, Inductive, PTL DEF Spec

\* While a migration runs under its lock, only plans that it authorized hold
\* the environment.
THEOREM MigrationIsExclusive == Spec => []MigrationExcludesApply
<1>1. Init => MigrationInv
  BY InitInv
<1>2. IndInv /\ MigrationInv /\ [Next]_vars => MigrationInv'
  BY MigrationStep DEF IndInv
<1>3. MigrationInv => MigrationExcludesApply
  BY DEF MigrationInv, MigrationExcludesApply
<1> QED
  BY <1>1, <1>2, <1>3, Inductive, PTL DEF Spec

-----------------------------------------------------------------------------
(* The guard that runs a command under the lease: FencedMutation, on the   *)
(* fence that LeaseIsFence shows the lease to implement.                   *)

\* The types without the flag of the fence.
GuardTyped ==
    /\ generation \in 0..MaxGeneration
    /\ runGen \in [Runs -> 0..MaxGeneration]
    /\ ctl \in [Runs -> CtlSteps]
    /\ guard \in [Runs -> GuardSteps]
    /\ closed \in SUBSET Runs /\ go \in SUBSET Runs
    /\ group \in [Runs -> GroupStates]
    /\ holder \in Runs \cup {NoOwner}
    /\ lastStarted \in 0..MaxGeneration

\* The lock belongs to the guard that is past its flock.
LockIsGuards == \A r \in Runs : guard[r] \in LockedSteps <=> holder = r

\* The handshake: the guard is spawned after the first refresh, has the lock
\* before the controller reads ready, and is told to go last.
Handshake ==
    \A r \in Runs :
        /\ ctl[r] \in {"idle", "start"} => guard[r] = "none"
        /\ ctl[r] \in {"ready", "go"} \/ r \in go => guard[r] \notin {"none", "locking"}
        /\ ctl[r] \in {"idle", "start", "waiting", "ready", "go"} => r \notin go

\* While a guard has the lock and may be told to go, no newer command starts.
OrderInv ==
    /\ lastStarted <= generation
    /\ \A r \in Runs : runGen[r] <= generation
    /\ \A r \in Runs : (ctl[r] = "go" \/ r \in go) /\ guard[r] = "ready" => lastStarted <= runGen[r]

GuardInv == GuardTyped /\ LockIsGuards /\ Handshake /\ OrderInv

\* Every step of a controller keeps the invariant.
LEMMA ControllerKeepsInv ==
    ASSUME GuardInv, NEW r \in Runs, ControllerStep(r) PROVE GuardInv'
<1> USE RunAssumption DEF GuardInv, GuardTyped, LockIsGuards, Handshake, OrderInv, CtlSteps, GuardSteps,
        GroupStates, LockedSteps, fence, CtlGoto, Drop
<1>1. CASE Start(r)
  BY <1>1 DEF Start
<1>2. CASE LoseWaiting(r)
  BY <1>2 DEF LoseWaiting
<1>3. CASE ReadReady(r)
  BY <1>3 DEF ReadReady
<1>4. CASE RefreshUnderLock(r)
  BY <1>4 DEF RefreshUnderLock, Accepts
<1>5. CASE WriteGo(r)
  BY <1>5 DEF WriteGo
<1>6. CASE LoseRunning(r) \/ Interrupt(r)
  BY <1>6 DEF LoseRunning, Interrupt
<1>7. CASE Finish(r)
  BY <1>7 DEF Finish
<1>8. CASE KillGuard(r)
  BY <1>8 DEF KillGuard, GuardExit
<1> QED
  BY <1>1, <1>2, <1>3, <1>4, <1>5, <1>6, <1>7, <1>8, ControllerStep(r) DEF ControllerStep

\* Every step of a guard keeps the invariant.
LEMMA GuardKeepsInv ==
    ASSUME GuardInv, NEW r \in Runs, GuardStep(r) PROVE GuardInv'
<1> USE RunAssumption DEF GuardInv, GuardTyped, LockIsGuards, Handshake, OrderInv, CtlSteps, GuardSteps,
        GroupStates, LockedSteps, fence, GuardExit
<1>1. CASE TakeLock(r)
  BY <1>1 DEF TakeLock
<1>2. CASE StartCommand(r)
  BY <1>2 DEF StartCommand
<1>3. CASE GiveUp(r)
  BY <1>3 DEF GiveUp
<1>4. CASE WorkReturns(r)
  BY <1>4 DEF WorkReturns
<1>5. CASE StopSupervising(r)
  BY <1>5 DEF StopSupervising
<1>6. CASE KillGroup(r)
  BY <1>6 DEF KillGroup
<1>7. CASE GroupDies(r)
  BY <1>7 DEF GroupDies
<1>8. CASE ExitReaped(r)
  BY <1>8 DEF ExitReaped
<1> QED
  BY <1>1, <1>2, <1>3, <1>4, <1>5, <1>6, <1>7, <1>8, GuardStep(r) DEF GuardStep

\* Every step keeps the invariant.
LEMMA GuardStepKeepsInv ==
    ASSUME GuardInv, [GuardNext]_guardVars PROVE GuardInv'
<1> USE RunAssumption DEF GuardInv, GuardTyped, LockIsGuards, Handshake, OrderInv, CtlSteps, GuardSteps,
        GroupStates, LockedSteps, fence, CtlGoto
<1>1. ASSUME NEW r \in Runs, Claim(r) PROVE GuardInv'
  BY <1>1 DEF Claim, Grant
<1>2. ASSUME NEW r \in Runs, Continue(r) PROVE GuardInv'
  BY <1>2 DEF Continue
<1>3. ASSUME NEW r \in Runs, Cancel(r) PROVE GuardInv'
  BY <1>3 DEF Cancel, Drop
<1>4. ASSUME NEW r \in Runs, CrashController(r) PROVE GuardInv'
  BY <1>4 DEF CrashController, GuardExit
<1>5. ASSUME NEW r \in Runs, CommandExits(r) PROVE GuardInv'
  BY <1>5 DEF CommandExits
<1>6. CASE LapseLease
  BY <1>6 DEF LapseLease, Lapse
<1>7. CASE UNCHANGED guardVars
  BY <1>7 DEF guardVars
<1> QED
  BY <1>1, <1>2, <1>3, <1>4, <1>5, <1>6, <1>7, ControllerKeepsInv, GuardKeepsInv DEF GuardNext

\* The invariant holds in every reachable state.
THEOREM GuardInductive == Safety => []GuardInv
<1>1. GuardInit => GuardInv
  BY RunAssumption DEF GuardInit, FenceInit, GuardInv, GuardTyped, LockIsGuards, Handshake, OrderInv,
     CtlSteps, GuardSteps, GroupStates, LockedSteps
<1>2. GuardInv /\ [GuardNext]_guardVars => GuardInv'
  BY GuardStepKeepsInv
<1> QED
  BY <1>1, <1>2, PTL DEF Safety

\* Every variable keeps its type, and the mutation lock belongs to a guard that
\* is alive and past its flock.
THEOREM GuardTypeCorrect == Safety => []GuardTypeOK
<1> DEFINE FenceType == owner \in Runs \cup {NoOwner} /\ live \in BOOLEAN
<1>1. GuardInit => FenceType
  BY DEF GuardInit, FenceInit
<1>2. FenceType /\ [GuardNext]_guardVars => FenceType'
  <2> SUFFICES ASSUME FenceType, [GuardNext]_guardVars PROVE FenceType'
    OBVIOUS
  <2> USE DEF fence
  <2>1. ASSUME NEW r \in Runs, Claim(r) PROVE FenceType'
    BY <2>1 DEF Claim, Grant
  <2>2. ASSUME NEW r \in Runs, Continue(r) \/ Cancel(r) \/ CrashController(r) \/ CommandExits(r)
        PROVE  FenceType'
    BY <2>2 DEF Continue, Cancel, CrashController, CommandExits
  <2>3. ASSUME NEW r \in Runs, ControllerStep(r) PROVE FenceType'
    BY <2>3 DEF ControllerStep, Start, LoseWaiting, ReadReady, RefreshUnderLock, WriteGo,
       LoseRunning, Interrupt, Finish, KillGuard
  <2>4. ASSUME NEW r \in Runs, GuardStep(r) PROVE FenceType'
    BY <2>4 DEF GuardStep, TakeLock, StartCommand, GiveUp, WorkReturns, StopSupervising,
       KillGroup, GroupDies, ExitReaped
  <2>5. CASE LapseLease \/ UNCHANGED guardVars
    BY <2>5 DEF LapseLease, Lapse, guardVars
  <2> QED
    BY <2>1, <2>2, <2>3, <2>4, <2>5 DEF GuardNext
<1>3. GuardInv /\ FenceType => GuardTypeOK
  BY DEF GuardInv, GuardTyped, LockIsGuards, GuardTypeOK
<1> QED
  BY <1>1, <1>2, <1>3, GuardInductive, PTL DEF Safety

\* Commands start in generation order, also when futures are dropped: the
\* refresh under the lock is what orders them.
THEOREM CommandsInOrder == Safety => StartsInOrder
<1>1. ASSUME GuardInv, [GuardNext]_guardVars PROVE lastStarted' >= lastStarted
  <2> USE DEF GuardInv, GuardTyped
  <2>1. ASSUME NEW r \in Runs, StartCommand(r) PROVE lastStarted' >= lastStarted
    BY <1>1, <2>1, RunAssumption DEF StartCommand, OrderInv
  <2>2. ASSUME NEW r \in Runs, GuardStep(r), ~StartCommand(r) PROVE lastStarted' >= lastStarted
    BY <1>1, <2>2, RunAssumption DEF GuardStep, TakeLock, GiveUp, WorkReturns, StopSupervising, KillGroup,
       GroupDies, ExitReaped
  <2>3. ASSUME NEW r \in Runs, ControllerStep(r) PROVE lastStarted' >= lastStarted
    BY <1>1, <2>3, RunAssumption DEF ControllerStep, Start, LoseWaiting, ReadReady, RefreshUnderLock,
       WriteGo, LoseRunning, Interrupt, Finish, KillGuard
  <2>4. ASSUME NEW r \in Runs, Claim(r) \/ Continue(r) \/ Cancel(r) \/ CrashController(r) \/ CommandExits(r)
        PROVE  lastStarted' >= lastStarted
    BY <1>1, <2>4, RunAssumption DEF Claim, Continue, Cancel, CrashController, CommandExits
  <2>5. CASE LapseLease \/ UNCHANGED guardVars
    BY <1>1, <2>5, RunAssumption DEF LapseLease, guardVars
  <2> QED
    BY <1>1, <2>1, <2>2, <2>3, <2>4, <2>5 DEF GuardNext
<1>2. GuardInv /\ [GuardNext]_guardVars => [lastStarted' >= lastStarted]_guardVars
  BY <1>1
<1> QED
  BY <1>2, GuardInductive, PTL DEF Safety, StartsInOrder

-----------------------------------------------------------------------------
(* The lock covers the command, if no shell run is dropped half way. *)

\* A command runs only under a supervising guard, and a guard that is about to
\* be killed was never told to go.
CoverInv ==
    \A r \in Runs :
        /\ Mutating(r) => guard[r] \in {"supervising", "cleaning", "reaping"}
        /\ guard[r] \in {"supervising", "cleaning", "reaping"} => r \in go
        /\ ctl[r] = "dropping" => r \notin go

\* Every step keeps the command under its guard.
LEMMA CoverStep ==
    ASSUME GuardInv, CoverInv, [GuardNext]_guardVars, Cancellable \subseteq InProcess PROVE CoverInv'
<1> USE RunAssumption DEF GuardInv, GuardTyped, Handshake, CoverInv, Mutating, CtlSteps, GuardSteps,
        GroupStates, fence, CtlGoto, Shell
<1>1. ASSUME NEW r \in Runs, ControllerStep(r) PROVE CoverInv'
  <2>1. CASE Start(r) \/ LoseWaiting(r) \/ ReadReady(r)
    BY <2>1 DEF Start, LoseWaiting, ReadReady, Drop
  <2>2. CASE RefreshUnderLock(r) \/ WriteGo(r)
    BY <2>2 DEF RefreshUnderLock, WriteGo, Drop
  <2>3. CASE LoseRunning(r) \/ Interrupt(r) \/ Finish(r)
    BY <2>3 DEF LoseRunning, Interrupt, Finish
  <2>4. CASE KillGuard(r)
    BY <2>4 DEF KillGuard, GuardExit
  <2> QED
    BY <1>1, <2>1, <2>2, <2>3, <2>4 DEF ControllerStep
<1>2. ASSUME NEW r \in Runs, GuardStep(r) PROVE CoverInv'
  <2> USE DEF GuardExit
  <2>1. CASE TakeLock(r) \/ StartCommand(r) \/ GiveUp(r)
    BY <2>1 DEF TakeLock, StartCommand, GiveUp
  <2>2. CASE WorkReturns(r) \/ StopSupervising(r)
    BY <2>2 DEF WorkReturns, StopSupervising
  <2>3. CASE KillGroup(r) \/ GroupDies(r)
    BY <2>3 DEF KillGroup, GroupDies
  <2>4. CASE ExitReaped(r)
    BY <2>4 DEF ExitReaped
  <2> QED
    BY <1>2, <2>1, <2>2, <2>3, <2>4 DEF GuardStep
<1>3. ASSUME NEW r \in Runs, Claim(r) \/ Continue(r) PROVE CoverInv'
  BY <1>3 DEF Claim, Continue
<1>4. ASSUME NEW r \in Runs, Cancel(r) PROVE CoverInv'
  BY <1>4 DEF Cancel, Drop
<1>5. ASSUME NEW r \in Runs, CrashController(r) PROVE CoverInv'
  BY <1>5 DEF CrashController, GuardExit
<1>6. ASSUME NEW r \in Runs, CommandExits(r) PROVE CoverInv'
  BY <1>6 DEF CommandExits
<1>7. CASE LapseLease \/ UNCHANGED guardVars
  BY <1>7 DEF LapseLease, guardVars
<1> QED
  BY <1>1, <1>2, <1>3, <1>4, <1>5, <1>6, <1>7 DEF GuardNext

\* Unless a shell run's future is dropped, nothing of a command outlives the
\* lock it was started under, whoever crashes.
THEOREM CommandsAreCovered ==
    ASSUME Cancellable \subseteq InProcess PROVE Safety => []LockCoversCommand
<1>1. GuardInit => CoverInv
  BY DEF GuardInit, CoverInv, Mutating
<1>2. GuardInv /\ CoverInv /\ [GuardNext]_guardVars => CoverInv'
  BY CoverStep
<1>3. GuardInv /\ CoverInv => LockCoversCommand
  BY DEF GuardInv, LockIsGuards, LockedSteps, CoverInv, LockCoversCommand
<1> QED
  BY <1>1, <1>2, <1>3, GuardInductive, PTL DEF Safety
=============================================================================
