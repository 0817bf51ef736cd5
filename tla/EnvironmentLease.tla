------------------------- MODULE EnvironmentLease -------------------------
(***************************************************************************)
(* Ownership of one environment: the generation-fenced lease row that the  *)
(* embedded store keeps for it, and every protocol that runs on top of it. *)
(*                                                                         *)
(* An apply, a configuration change and a package migration all claim the  *)
(* environment with claim_environment_with_options, a sequence of separate *)
(* store calls: an await, and so any step of anybody else, may come        *)
(* between two of them.  A claim ends in the lease row, in a claim object  *)
(* kept for older binaries, and in a link from the environment to it.      *)
(* Beside the claimers run an operator's `env unlock`, an operator's       *)
(* `env retire`, the enrollment of a runtime, and that runtime's polls.    *)
(*                                                                         *)
(* Every action below is one store call (one transaction) with the pure    *)
(* code around it.  A process may be paused forever before any action, and *)
(* may crash at any point: a crash forgets its local state and leaves the  *)
(* store as it is.  Time only passes in Tick.                              *)
(*                                                                         *)
(* Abstractions.  The fencing token is a fresh uuid drawn with every new   *)
(* generation, so the generation stands for the token.  Reads that feed    *)
(* only telemetry (took_over) or an error text are left out.  The clock is *)
(* trusted (clock_guard refuses a claim otherwise) and is read by the      *)
(* claimers and by the store from one source.                              *)
(***************************************************************************)
EXTENDS Naturals

CONSTANTS
    Appliers,       \* plan executions, which claim with automatic takeover
    Configurers,    \* configuration, maintenance and canary changes
    Migrations,     \* package migrations
    Runtime,        \* the enrolled runtime's claim_work poll
    None,           \* no process
    ExecTTL,        \* EXECUTION_LEASE_MS in ticks
    EnvTTL,         \* ENVIRONMENT_LEASE_MS in ticks
    UnlockTTL,      \* MANUAL_UNLOCK_LEASE_MS in ticks
    Others,         \* which of "unlock", "retire" and "enroll" also happen
    MaxTime,        \* bound: the last instant
    MaxGrants       \* bound: the last generation granted

Claimers == Appliers \cup Configurers \cup Migrations \cup {Runtime}

ASSUME ProcessAssumption ==
    /\ Runtime \notin Appliers \cup Configurers \cup Migrations
    /\ Appliers \cap (Configurers \cup Migrations) = {}
    /\ Configurers \cap Migrations = {}
    /\ {None, "absent", "released", "manual-unlock"} \cap Claimers = {}

ASSUME BoundAssumption ==
    /\ ExecTTL \in Nat \ {0} /\ EnvTTL \in Nat \ {0} /\ UnlockTTL \in Nat \ {0}
    /\ MaxTime \in Nat /\ MaxGrants \in Nat
    /\ Others \subseteq {"unlock", "retire", "enroll"}

VARIABLES
    now,        \* the clock
    lease,      \* the lease row of the environment
    claim,      \* owner of the compatibility claim object
    link,       \* the environment is linked to the claim object
    legacy,     \* a claim object of a binary older than both exists
    lock,       \* the package migration lock
    retired,    \* the environment is retired
    enrolled,   \* the environment is marked runtime-managed
    delivery,   \* the runtime's claim of a plan: "open" until completed or expired
    pc,         \* next store call of each claimer
    gen,        \* generation (token) each claimer believes it holds, or 0
    start,      \* the `now` a claim read when it began
    sawLink,    \* claimers whose has_object_claim is true
    unlock,     \* `env unlock`: pc, the lease it read, the step after the release
    retiring,   \* `env retire` passed its own check and is about to write
    authorized, \* history: plans the current migration lock has authorized
    lastWrite   \* history: generation of the latest committed guarded write

store == <<lease, claim, link, legacy, lock, retired, enrolled, delivery>>
local == <<pc, gen, start, sawLink>>
vars == <<now, lease, claim, link, legacy, lock, retired, enrolled, delivery, pc, gen,
          start, sawLink, unlock, retiring, authorized, lastWrite>>
history == <<authorized, lastWrite>>

ClaimSteps == {"lock", "legacy", "link", "inspect", "idleClaim", "gate", "acquire",
               "create", "put", "createLink", "adopt", "recheck", "abandon"}
HeldSteps == {"managed", "work", "createLock", "mark", "release"}
RuntimeSteps == {"pollLease", "handoff", "granted"}
Steps == {"idle", "migrating"} \cup ClaimSteps \cup HeldSteps \cup RuntimeSteps
UnlockSteps == {"idle", "lease", "takeover", "release", "put", "unlink"}

LeaseType ==
    /\ now \in 0..MaxTime
    /\ lease \in [gen : 0..MaxGrants, owner : Claimers \cup {None, "manual-unlock"},
                  status : {"absent", "active", "released"}, expires : Nat]
    /\ (lease.status = "absent") <=> (lease.gen = 0)
    /\ lastWrite \in 0..MaxGrants

ObjectType ==
    /\ claim \in Claimers \cup {"absent", "released"}
    /\ lock \in [owner : Migrations \cup {None}, plan : Appliers \cup {None}]
    /\ authorized \in SUBSET Appliers
    /\ delivery \in {"none", "open"}

FlagType ==
    /\ link \in BOOLEAN /\ legacy \in BOOLEAN
    /\ retired \in BOOLEAN /\ enrolled \in BOOLEAN /\ retiring \in BOOLEAN

ClaimerType ==
    /\ pc \in [Claimers -> Steps]
    /\ gen \in [Claimers -> 0..MaxGrants]
    /\ start \in [Claimers -> 0..MaxTime]
    /\ sawLink \in SUBSET Claimers

UnlockType ==
    unlock \in [pc : UnlockSteps, gen : 0..MaxGrants, expires : Nat, then : UnlockSteps]

\* Every variable has its type, and the row keeps the count of its
\* generations through releases: it is absent only before the first.
TypeOK == LeaseType /\ ObjectType /\ FlagType /\ ClaimerType /\ UnlockType

-----------------------------------------------------------------------------
(* The lease row. *)

\* The row blocks an acquire: active, and not past its expiry.
Live == lease.status = "active" /\ lease.expires > now

\* Mutant: the fence accepts any token while some lease is live.
HoldsAnyToken(p) == Live

\* require_active_lease_in: the fence every guarded write passes.
Holds(p) == Live /\ gen[p] = lease.gen

AutomaticTakeover(p) == p \in Appliers \cup {Runtime}

TTL(p) == IF p \in Appliers THEN ExecTTL ELSE EnvTTL

\* What acquire and takeover write: the next generation, active for ttl.
GrantRow(owner, ttl) ==
    /\ lease.gen < MaxGrants
    /\ lease' = [gen |-> lease.gen + 1, owner |-> owner,
                 status |-> "active", expires |-> now + ttl]

Goto(p, step) == pc' = [pc EXCEPT ![p] = step] /\ UNCHANGED <<gen, start, sawLink>>

\* Return to the caller, with or without an error: the call's locals are gone.
Return(p, step) == /\ pc' = [pc EXCEPT ![p] = step]
                   /\ gen' = [gen EXCEPT ![p] = 0]
                   /\ start' = [start EXCEPT ![p] = 0]
                   /\ sawLink' = sawLink \ {p}

At(p, step) == pc[p] = step

-----------------------------------------------------------------------------
(* claim_environment_with_options, call by call. *)

\* Reads the clock and refuses a retired environment.
BeginClaim(p) ==
    /\ At(p, "idle") /\ p # Runtime
    /\ ~retired
    /\ start' = [start EXCEPT ![p] = now]
    /\ pc' = [pc EXCEPT ![p] = "lock"]
    /\ UNCHANGED <<now, store, gen, sawLink, unlock, retiring, history>>

\* reject_foreign_migration_lock lets the lock's own migration and the plan
\* that it authorized pass.
ForeignLock(p) == lock.owner # None /\ p # lock.owner /\ p # lock.plan

CheckMigrationLock(p) ==
    /\ At(p, "lock")
    /\ IF ForeignLock(p) THEN Return(p, "idle") ELSE Goto(p, "legacy")
    /\ UNCHANGED <<now, store, unlock, retiring, history>>

\* A legacy claim refuses every new claim, expired or not.
CheckLegacy(p) ==
    /\ At(p, "legacy")
    /\ IF legacy THEN Return(p, "idle") ELSE Goto(p, "link")
    /\ UNCHANGED <<now, store, unlock, retiring, history>>

BeforeAcquire(p) == IF AutomaticTakeover(p) THEN "acquire" ELSE "gate"

ReadLink(p) ==
    /\ At(p, "link")
    /\ sawLink' = IF link THEN sawLink \cup {p} ELSE sawLink \ {p}
    /\ pc' = [pc EXCEPT ![p] = IF link THEN "inspect" ELSE BeforeAcquire(p)]
    /\ UNCHANGED <<now, store, gen, start, unlock, retiring, history>>

\* With a link the row decides: live refuses, expired goes on, anything else
\* asks the claim object.  The expiry is compared with the clock of the start.
InspectLinked(p) ==
    /\ At(p, "inspect")
    /\ \/ lease.status # "active" /\ Goto(p, "idleClaim")
       \/ lease.status = "active" /\ lease.expires > start[p] /\ Return(p, "idle")
       \/ lease.status = "active" /\ lease.expires <= start[p] /\ Goto(p, BeforeAcquire(p))
    /\ UNCHANGED <<now, store, unlock, retiring, history>>

\* A claim object that is not released, under a row that is not active, is
\* left for the operator to unlock.
InspectIdleClaim(p) ==
    /\ At(p, "idleClaim")
    /\ IF claim # "released" THEN Return(p, "idle") ELSE Goto(p, BeforeAcquire(p))
    /\ UNCHANGED <<now, store, unlock, retiring, history>>

\* Without automatic takeover an expired holder is left to `env unlock`.
RefuseExpiredHolder(p) ==
    /\ At(p, "gate")
    /\ IF lease.status = "active" /\ lease.expires <= start[p]
       THEN Return(p, "idle") ELSE Goto(p, "acquire")
    /\ UNCHANGED <<now, store, unlock, retiring, history>>

\* Mutant: the acquire trusts the retirement check of the claim's first step.
AcquireUnchecked(p) == ~Live

\* Mutant: the acquire replaces whatever row it finds.
AcquireOverLive(p) == ~retired

\* acquire_namespaced_lease: refused on a retired environment and while the
\* row is live.  The refused claim reads the row again, finds it unexpired
\* (its clock is older than the store's) and returns.
AcquireAdmits(p) == ~retired /\ ~Live

AcquireLease(p) ==
    /\ At(p, "acquire")
    /\ \/ /\ AcquireAdmits(p)
          /\ GrantRow(p, TTL(p))
          /\ gen' = [gen EXCEPT ![p] = lease.gen + 1]
          /\ start' = [start EXCEPT ![p] = 0]
          /\ pc' = [pc EXCEPT ![p] = "create"]
          /\ UNCHANGED sawLink
       \/ /\ ~AcquireAdmits(p)
          /\ Return(p, "idle")
          /\ UNCHANGED lease
    /\ UNCHANGED <<now, claim, link, legacy, lock, retired, enrolled, delivery, unlock, retiring,
                   authorized, lastWrite>>

\* create_once of the claim object is a read and then, if it found nothing,
\* a plain put that overwrites what others wrote in between.
NextAfterCreate(p) == IF p \in sawLink THEN "adopt" ELSE "createLink"

CreateClaimRead(p) ==
    /\ At(p, "create")
    /\ Goto(p, IF claim = "absent" THEN "put" ELSE NextAfterCreate(p))
    /\ UNCHANGED <<now, store, unlock, retiring, history>>

CreateClaimPut(p) ==
    /\ At(p, "put")
    /\ claim' = "released"
    /\ Goto(p, NextAfterCreate(p))
    /\ UNCHANGED <<now, lease, link, legacy, lock, retired, enrolled, delivery, unlock,
                   retiring, history>>

\* create_link_once; a link made by somebody else since ReadLink ends the claim.
CreateLink(p) ==
    /\ At(p, "createLink")
    /\ link' = TRUE
    /\ Goto(p, IF link THEN "abandon" ELSE "adopt")
    /\ UNCHANGED <<now, lease, claim, legacy, lock, retired, enrolled, delivery, unlock,
                   retiring, history>>

\* The guarded update that names p as owner.  A lost fence also makes the
\* release of the lease fail, so the claim just ends.
AdoptClaim(p) ==
    /\ At(p, "adopt")
    /\ \/ /\ Holds(p)
          /\ claim' = p
          /\ lastWrite' = gen[p]
          /\ Goto(p, "recheck")
       \/ /\ ~Holds(p)
          /\ Return(p, "idle")
          /\ UNCHANGED <<claim, lastWrite>>
    /\ UNCHANGED <<now, lease, link, legacy, lock, retired, enrolled, delivery, unlock, retiring,
                   authorized>>

\* An apply goes on to its runtime_managed check, the hand-off of a runtime
\* straight to its release.
AfterClaim(p) == IF p \in Appliers THEN "managed" ELSE IF p = Runtime THEN "mark" ELSE "work"

\* Mutant: the lock is not read again under the lease.
NoRecheck(p) ==
    /\ At(p, "recheck")
    /\ Goto(p, AfterClaim(p))
    /\ UNCHANGED <<now, store, unlock, retiring, history>>

\* The migration lock is read again under the lease.
RecheckMigrationLock(p) ==
    /\ At(p, "recheck")
    /\ Goto(p, IF ForeignLock(p) THEN "abandon" ELSE AfterClaim(p))
    /\ UNCHANGED <<now, store, unlock, retiring, history>>

\* Mutant: a failed claim deletes the row, and with it the generation history.
AbandonDeletesRow(p) ==
    /\ At(p, "abandon")
    /\ lease' = IF Holds(p) THEN [lease EXCEPT !.status = "absent"] ELSE lease
    /\ Return(p, "idle")
    /\ UNCHANGED <<now, claim, link, legacy, lock, retired, enrolled, delivery, unlock,
                   retiring, history>>

\* What a failed claim does: release_environment_lease, its result ignored.
\* The claim object stays as it is.
AbandonClaim(p) ==
    /\ At(p, "abandon")
    /\ lease' = IF Holds(p) THEN [lease EXCEPT !.status = "released"] ELSE lease
    /\ Return(p, "idle")
    /\ UNCHANGED <<now, claim, link, legacy, lock, retired, enrolled, delivery, unlock,
                   retiring, history>>

-----------------------------------------------------------------------------
(* Work under a held lease. *)

\* Mutant: enrollment is not checked under the lease.
ManagedUnchecked(p) ==
    /\ At(p, "managed")
    /\ Goto(p, "work")
    /\ UNCHANGED <<now, store, unlock, retiring, history>>

\* claim_execution_environment: a runtime-managed environment is released.
CheckRuntimeManaged(p) ==
    /\ At(p, "managed")
    /\ Goto(p, IF enrolled THEN "mark" ELSE "work")
    /\ UNCHANGED <<now, store, unlock, retiring, history>>

\* refresh_environment_lease: the row and the claim object in one transaction.
RefreshLease(p) ==
    /\ At(p, "work") /\ p \in Appliers
    /\ Holds(p)
    /\ lease' = [lease EXCEPT !.expires = now + TTL(p)]
    /\ claim' = p
    /\ lastWrite' = gen[p]
    /\ UNCHANGED <<now, link, legacy, lock, retired, enrolled, delivery, local, unlock, retiring,
                   authorized>>

\* Any durable write of the work (a plan, a deployment, a configuration).
GuardedWrite(p) ==
    /\ At(p, "work") /\ p \in Appliers \cup Configurers
    /\ Holds(p)
    /\ lastWrite' = gen[p]
    /\ UNCHANGED <<now, store, local, unlock, retiring, authorized>>

\* The work ends, or a refused refresh or write ends it.
FinishWork(p) ==
    /\ At(p, "work") /\ p \notin Migrations
    /\ Goto(p, "mark")
    /\ UNCHANGED <<now, store, unlock, retiring, history>>

\* acquire_environment_lock: read the migration lock, create it if there is
\* none, then release the environment.
ReadMigrationLock(p) ==
    /\ At(p, "work") /\ p \in Migrations
    /\ Goto(p, IF lock.owner = None THEN "createLock" ELSE "mark")
    /\ UNCHANGED <<now, store, unlock, retiring, history>>

CreateMigrationLock(p) ==
    /\ At(p, "createLock") /\ p \in Migrations
    /\ lock' = [owner |-> p, plan |-> None]
    /\ authorized' = {}
    /\ Goto(p, "mark")
    /\ UNCHANGED <<now, lease, claim, link, legacy, retired, enrolled, delivery, unlock, retiring,
                   lastWrite>>

\* release_environment, first half: the claim object, under the fence.  A
\* refusal returns before the lease is released.
MarkReleased(p) ==
    /\ At(p, "mark")
    /\ \/ /\ Holds(p) /\ claim # "absent"
          /\ claim' = "released"
          /\ lastWrite' = gen[p]
          /\ Goto(p, "release")
       \/ /\ ~(Holds(p) /\ claim # "absent")
          /\ Return(p, "idle")
          /\ UNCHANGED <<claim, lastWrite>>
    /\ UNCHANGED <<now, lease, link, legacy, lock, retired, enrolled, delivery, unlock, retiring,
                   authorized>>

\* Second half: the row.  A migration goes on under its own lock; the runtime
\* has its hand-off.
AfterRelease(p) == IF p \in Migrations /\ lock.owner = p THEN "migrating"
                   ELSE IF p = Runtime THEN "granted" ELSE "idle"

ReleaseLease(p) ==
    /\ At(p, "release")
    /\ \/ /\ Holds(p)
          /\ lease' = [lease EXCEPT !.status = "released"]
          /\ Return(p, AfterRelease(p))
       \/ /\ ~Holds(p)
          /\ Return(p, "idle")
          /\ UNCHANGED lease
    /\ UNCHANGED <<now, claim, link, legacy, lock, retired, enrolled, delivery, unlock,
                   retiring, history>>

\* authorize_plan_on_lock and clear_authorized_plan.
AuthorizePlan(p, a) ==
    /\ At(p, "migrating")
    /\ lock.owner # None
    /\ lock' = [lock EXCEPT !.plan = a]
    /\ authorized' = authorized \cup {a}
    /\ UNCHANGED <<now, lease, claim, link, legacy, retired, enrolled, delivery, local, unlock,
                   retiring,
                   lastWrite>>

ClearAuthorizedPlan(p) ==
    /\ At(p, "migrating")
    /\ lock.owner # None
    /\ lock' = [lock EXCEPT !.plan = None]
    /\ UNCHANGED <<now, lease, claim, link, legacy, retired, enrolled, delivery, local, unlock,
                   retiring,
                   history>>

\* release_environment_lock.
FinishMigration(p) ==
    /\ At(p, "migrating")
    /\ lock' = IF lock.owner = p THEN [owner |-> None, plan |-> None] ELSE lock
    /\ Goto(p, "idle")
    /\ UNCHANGED <<now, lease, claim, link, legacy, retired, enrolled, delivery, unlock,
                   retiring, history>>

-----------------------------------------------------------------------------
(* Enrollment, and runtime_may_take_over before a runtime is given work. *)

\* mark_runtime_managed, for good and before any credential exists.
EnrollRuntime ==
    /\ "enroll" \in Others /\ ~enrolled
    /\ enrolled' = TRUE
    /\ UNCHANGED <<now, lease, claim, link, legacy, lock, retired, delivery, local, unlock,
                   retiring,
                   history>>

\* environment_lease_status: a claim object that is not released is a holder,
\* otherwise the row decides.
PollClaims ==
    /\ At(Runtime, "idle") /\ enrolled
    /\ ~legacy
    /\ Goto(Runtime, IF link /\ claim # "released" THEN "handoff" ELSE "pollLease")
    /\ UNCHANGED <<now, store, unlock, retiring, history>>

PollLease ==
    /\ At(Runtime, "pollLease")
    /\ Goto(Runtime, IF lease.status = "active" THEN "handoff" ELSE "granted")
    /\ UNCHANGED <<now, store, unlock, retiring, history>>

\* Only an expired holder is taken over, by a claim of the runtime's own.
HandOff ==
    /\ At(Runtime, "handoff")
    /\ IF lease.status = "active" /\ lease.expires <= now /\ ~retired
       THEN /\ pc' = [pc EXCEPT ![Runtime] = "lock"]
            /\ start' = [start EXCEPT ![Runtime] = now]
            /\ UNCHANGED <<gen, sawLink>>
       ELSE Goto(Runtime, "idle")
    /\ UNCHANGED <<now, store, unlock, retiring, history>>

\* claim_runtime_plan: refused on a retired environment.  A claim that is open
\* already is the same runtime's, and is renewed.
RuntimeClaimsPlan ==
    /\ At(Runtime, "granted")
    /\ delivery' = IF retired THEN delivery ELSE "open"
    /\ Goto(Runtime, "idle")
    /\ UNCHANGED <<now, lease, claim, link, legacy, lock, retired, enrolled, unlock, retiring,
                   history>>

\* The completion is recorded, or no heartbeat comes for two minutes.
RuntimeClaimEnds ==
    /\ delivery = "open"
    /\ delivery' = "none"
    /\ UNCHANGED <<now, lease, claim, link, legacy, lock, retired, enrolled, local, unlock,
                   retiring, history>>

-----------------------------------------------------------------------------
(* unlock_environment. *)

Unlocking(step, g, e, then) == [pc |-> step, gen |-> g, expires |-> e, then |-> then]
IdleUnlock == Unlocking("idle", 0, 0, "idle")

UnlockLegacy ==
    /\ "unlock" \in Others /\ unlock.pc = "idle" /\ legacy
    /\ legacy' = FALSE
    /\ UNCHANGED <<now, lease, claim, link, lock, retired, enrolled, delivery, local, unlock,
                   retiring, history>>

UnlockInspect ==
    /\ "unlock" \in Others /\ unlock.pc = "idle" /\ ~legacy
    /\ unlock' = Unlocking("lease", 0, 0, IF claim # "absent" /\ link THEN "put" ELSE "idle")
    /\ UNCHANGED <<now, store, local, retiring, history>>

UnlockReadLease ==
    /\ unlock.pc = "lease"
    /\ \/ lease.status # "active" /\ unlock' = Unlocking(unlock.then, 0, 0, unlock.then)
       \/ Live /\ unlock' = IdleUnlock
       \/ /\ lease.status = "active" /\ ~Live
          /\ unlock' = Unlocking("takeover", lease.gen, lease.expires, unlock.then)
    /\ UNCHANGED <<now, store, local, retiring, history>>

\* Mutant: the takeover trusts the expired row that was read before it.
TakeoverUnchecked == lease.status = "active"

\* takeover_namespaced_lease: the row must still be the expired one that was read.
TakeoverAdmits == /\ lease.gen = unlock.gen /\ lease.expires = unlock.expires
                  /\ lease.expires <= now

UnlockTakeover ==
    /\ unlock.pc = "takeover"
    /\ \/ /\ TakeoverAdmits
          /\ GrantRow("manual-unlock", UnlockTTL)
          /\ unlock' = Unlocking("release", lease.gen + 1, 0, unlock.then)
       \/ /\ ~TakeoverAdmits
          /\ unlock' = IdleUnlock
          /\ UNCHANGED lease
    /\ UNCHANGED <<now, claim, link, legacy, lock, retired, enrolled, delivery, local, retiring,
                   authorized, lastWrite>>

UnlockRelease ==
    /\ unlock.pc = "release"
    /\ \/ /\ Live /\ lease.gen = unlock.gen
          /\ lease' = [lease EXCEPT !.status = "released"]
          /\ unlock' = Unlocking(unlock.then, 0, 0, unlock.then)
       \/ /\ ~(Live /\ lease.gen = unlock.gen)
          /\ unlock' = IdleUnlock
          /\ UNCHANGED lease
    /\ UNCHANGED <<now, claim, link, legacy, lock, retired, enrolled, delivery, local,
                   retiring, history>>

\* release_object_environment_claim: two writes that no fence guards.
UnlockPutClaim ==
    /\ unlock.pc = "put"
    /\ claim' = IF claim = "absent" THEN "absent" ELSE "released"
    /\ unlock' = Unlocking("unlink", 0, 0, unlock.then)
    /\ UNCHANGED <<now, lease, link, legacy, lock, retired, enrolled, delivery, local,
                   retiring, history>>

UnlockUnlink ==
    /\ unlock.pc = "unlink"
    /\ link' = FALSE
    /\ unlock' = IdleUnlock
    /\ UNCHANGED <<now, lease, claim, legacy, lock, retired, enrolled, delivery, local,
                   retiring, history>>

-----------------------------------------------------------------------------
(* retire_environment: its own check, then the store's. *)

\* inspect_environment_lease: an active row is held even past its expiry; only
\* without a row do the compatibility claims count.
InspectHeld == \/ lease.status = "active"
               \/ lease.status = "absent" /\ (legacy \/ (link /\ claim # "released"))

RetireCheck ==
    /\ "retire" \in Others /\ ~retired /\ ~retiring
    /\ ~InspectHeld
    /\ retiring' = TRUE
    /\ UNCHANGED <<now, store, local, unlock, history>>

\* upsert_environment_in refuses while delivery work is active.
RetireAdmits == ~Live /\ delivery = "none"

RetirePut ==
    /\ retiring
    /\ retiring' = FALSE
    /\ retired' = (retired \/ RetireAdmits)
    /\ UNCHANGED <<now, lease, claim, link, legacy, lock, enrolled, delivery, local, unlock,
                   history>>

-----------------------------------------------------------------------------
(* The environment of the protocol. *)

Crash(p) ==
    /\ pc[p] # "idle"
    /\ Return(p, "idle")
    /\ UNCHANGED <<now, store, unlock, retiring, history>>

CrashUnlock ==
    /\ unlock.pc # "idle"
    /\ unlock' = IdleUnlock
    /\ UNCHANGED <<now, store, local, retiring, history>>

Tick ==
    /\ now < MaxTime
    /\ now' = now + 1
    /\ UNCHANGED <<store, local, unlock, retiring, history>>

Init ==
    /\ now = 0
    /\ lease = [gen |-> 0, owner |-> None, status |-> "absent", expires |-> 0]
    /\ claim = "absent" /\ link = FALSE
    /\ legacy \in BOOLEAN
    /\ lock = [owner |-> None, plan |-> None]
    /\ retired = FALSE /\ enrolled = FALSE /\ delivery = "none"
    /\ pc = [p \in Claimers |-> "idle"]
    /\ gen = [p \in Claimers |-> 0]
    /\ start = [p \in Claimers |-> 0]
    /\ sawLink = {}
    /\ unlock = IdleUnlock
    /\ retiring = FALSE
    /\ authorized = {}
    /\ lastWrite = 0

ClaimStep(p) ==
    \/ BeginClaim(p) \/ CheckMigrationLock(p) \/ CheckLegacy(p) \/ ReadLink(p)
    \/ InspectLinked(p) \/ InspectIdleClaim(p) \/ RefuseExpiredHolder(p)
    \/ AcquireLease(p) \/ CreateClaimRead(p) \/ CreateClaimPut(p) \/ CreateLink(p)
    \/ AdoptClaim(p) \/ RecheckMigrationLock(p) \/ AbandonClaim(p)

WorkStep(p) ==
    \/ CheckRuntimeManaged(p) \/ RefreshLease(p) \/ GuardedWrite(p) \/ FinishWork(p)
    \/ ReadMigrationLock(p) \/ CreateMigrationLock(p)
    \/ MarkReleased(p) \/ ReleaseLease(p)
    \/ FinishMigration(p) \/ ClearAuthorizedPlan(p)
    \/ \E a \in Appliers : AuthorizePlan(p, a)

RuntimeStep ==
    EnrollRuntime \/ PollClaims \/ PollLease \/ HandOff \/ RuntimeClaimsPlan \/ RuntimeClaimEnds

UnlockStep ==
    \/ UnlockLegacy \/ UnlockInspect \/ UnlockReadLease \/ UnlockTakeover
    \/ UnlockRelease \/ UnlockPutClaim \/ UnlockUnlink

Next ==
    \/ \E p \in Claimers : ClaimStep(p) \/ WorkStep(p) \/ Crash(p)
    \/ RuntimeStep
    \/ UnlockStep \/ CrashUnlock
    \/ RetireCheck \/ RetirePut
    \/ Tick

Spec == Init /\ [][Next]_vars
-----------------------------------------------------------------------------
(* Properties. *)

\* A server execution that still holds its lease and an enrolled runtime never
\* run the environment together: the apply checks the enrollment under its
\* lease, and claim_work hands out nothing while a server lease is live.
ServerRuntimeExclusive ==
    \A a \in Appliers :
        pc[a] = "work" /\ Holds(a) => pc[Runtime] # "granted" /\ delivery = "none"

\* A retired environment is not being delivered to: no claimer has a live
\* lease on it and its runtime has no open claim.  The retirement, the acquire, the
\* renewals and the runtime's plan claim keep this together, each in its own
\* transaction (upsert_environment_in, acquire_namespaced_lease, claim_runtime_plan).
RetiredIsQuiet ==
    retired => /\ ~(Live /\ lease.owner \in Claimers)
               /\ delivery = "none"

\* "Ordinary apply is rejected while the migration lock is held": while a
\* migration runs under its lock, no apply holds the environment except a plan
\* that this lock authorized.  An apply that checked the lock before it was
\* created is caught by its second check, made under the lease.
MigrationExcludesApply ==
    \A m \in Migrations, a \in Appliers :
        /\ pc[m] = "migrating" /\ lock.owner = m
        /\ pc[a] = "work" /\ Holds(a)
        => a \in authorized

\* Guarded writes commit in generation order: once a newer holder has written,
\* a controller that was paused through its expiry commits nothing more.
FencedWritesInOrder == [][lastWrite' >= lastWrite]_vars

\* While a lease is live, only the claimer (or the unlock) that holds its
\* token changes the row: no takeover, unlock or acquire replaces it, however
\* old the read that led there.
OnlyHolderChangesLiveLease ==
    [][Live /\ lease' # lease =>
         \/ \E p \in Claimers : Holds(p) /\ lease'.gen = lease.gen
         \/ unlock.pc = "release" /\ unlock.gen = lease.gen]_vars

\* Through claims, takeovers, renewals, unlocks and the passing of time, the row
\* is a generation fence: one live grant at a time, and every generation
\* granted once.  The code above the lease relies on this and nothing else.
Fence == INSTANCE GenerationFence WITH
             Owners <- Claimers \cup {"manual-unlock"}, NoOwner <- None,
             MaxGeneration <- MaxGrants, generation <- lease.gen,
             owner <- lease.owner, live <- Live
ImplementsFence == Fence!FenceSpec

=============================================================================
