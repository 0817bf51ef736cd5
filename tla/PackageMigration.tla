--------------------------- MODULE PackageMigration ---------------------------
(***************************************************************************)
(* A package migration: one product moves from a source to a target        *)
(* release over ordered checkpoints, and back.  Its record is a catalog    *)
(* object that every command loads, works on and puts back; a command runs *)
(* under the migration's execution lease, and the environment is kept from *)
(* other applies by a lock object that outlives the command.               *)
(*                                                                         *)
(* A caller is a process that runs one command at a time: approve, execute *)
(* (one turn of `migrate apply`), resume or rollback.  The record is       *)
(* loaded before the lease is taken, and put without looking at the stored *)
(* one: `overlapped` says that a command worked on a record that was no    *)
(* longer the stored one, or lost its lease while it ran.  A caller        *)
(* crashes anywhere.                                                       *)
(*                                                                         *)
(* A checkpoint's plan, and the plan that restores the source, is executed *)
(* as PlanExecution specifies, here by its load, its begin and its end.    *)
(* Others change the environment while the lock does not exist             *)
(* (EnvironmentLease); the reconciler or an operator may also apply one of *)
(* the migration's own plans, once the lock is gone or while it names that *)
(* plan.  A stale expected generation and an approval that does not match  *)
(* are refused where the record is loaded, and change nothing.  Two arms of*)
(* an execution are never taken: admission has required the backup receipt *)
(* that an irreversible checkpoint needs, and a record with a receipt of   *)
(* every checkpoint has succeeded.  A store call that fails either fails   *)
(* its step, or is one of those named below; a failing put of the record   *)
(* or delete of the lock is not modelled.  Nor is the reconciler's verdict *)
(* on a plan left running: no command tells it from a running one.         *)
(***************************************************************************)
EXTENDS Naturals, Sequences, FiniteSets

CONSTANTS
    Callers,        \* processes that run migration commands
    Nobody,         \* no caller
    Checkpoints,    \* the classes of the declared checkpoints, in order
    MaxPlans,       \* bound: plans created for the migration
    MaxGeneration,  \* bound: the record's fence generation
    MaxStrays,      \* bound: plans of the migration that another apply runs
    MaxFaults       \* bound: crashes, failed store calls, lost leases, stale records

Classes == {"reversible", "compensating", "irreversible"}

ASSUME MigrationAssumption ==
    /\ Nobody \notin Callers
    /\ Checkpoints \in Seq(Classes) /\ Checkpoints # <<>>
    /\ {MaxPlans, MaxGeneration, MaxStrays, MaxFaults} \subseteq Nat

VARIABLES
    record,     \* the stored migration record
    lease,      \* who holds the execution lease
    locked,     \* the migration's lock object exists
    allowed,    \* the plan that the lock lets through
    plans,      \* the plans created for the migration, with their states and histories
    other,      \* the plan that another apply is running, if it is one of these
    deployed,   \* the version the environment's record says is deployed
    job,        \* each caller's command: where it is, and its copy of the record
    faults,     \* faults so far
    cut,        \* history: a command was cut off: it crashed, or could not return
                \* the claim under which it made the lock
    overlapped, \* history: a command ran beside another, or on a stale record
    crossed     \* history: an irreversible checkpoint was stored as accepted

lock == <<locked, allowed>>
trouble == <<faults, cut, overlapped>>
vars == <<record, lease, locked, allowed, plans, other, deployed, job, faults, cut, overlapped,
          crossed>>

NumCheckpoints == Len(Checkpoints)
NoPlan == 0
Restore == 0    \* the plan back to the source is for no checkpoint
PlanStates == {"computed", "blocked", "running", "succeeded", "failed"}
Versions == {"source", "target", "other"}
Statuses == {"absent", "admitted", "running", "succeeded", "failed", "rolled_back",
             "recovery_required"}
Ops == {"approve", "execute", "resume", "rollback"}
Pcs == {"idle", "approve", "lease", "lock", "next", "create", "pending", "authorize",
        "apply", "claim", "applying", "applied", "erred", "save", "unlock"}

\* A plan, and of its history whether it succeeded and whether another apply ran it.
PlanRecords == [for : 0..NumCheckpoints, state : PlanStates, done : BOOLEAN, stray : BOOLEAN]

Receipts == [result : {"accepted", "rolled_back"}, plan : 0..MaxPlans]
NoRecord == [status |-> "absent", approved |-> FALSE, gen |-> 0, receipts |-> <<>>,
             pending |-> NoPlan, back |-> NoPlan]
IsRecord(r) ==
    /\ r.status \in Statuses /\ r.approved \in BOOLEAN /\ r.gen \in 0..MaxGeneration
    /\ r.receipts \in Seq(Receipts) /\ Len(r.receipts) <= NumCheckpoints
    /\ r.pending \in 0..MaxPlans /\ r.back \in 0..MaxPlans

\* Every variable has its type.
TypeOK ==
    /\ IsRecord(record)
    /\ lease \in Callers \cup {Nobody}
    /\ locked \in BOOLEAN /\ allowed \in 0..MaxPlans
    /\ plans \in Seq(PlanRecords) /\ Len(plans) <= MaxPlans
    /\ other \in 0..MaxPlans
    /\ deployed \in Versions
    /\ \A c \in Callers : job[c].pc \in Pcs /\ job[c].op \in Ops /\ IsRecord(job[c].rec)
    /\ faults \in 0..MaxFaults
    /\ cut \in BOOLEAN /\ overlapped \in BOOLEAN /\ crossed \in BOOLEAN

NoJob == [pc |-> "idle", op |-> "approve", rec |-> NoRecord]

Init ==
    /\ record = NoRecord /\ lease = Nobody /\ locked = FALSE /\ allowed = NoPlan
    /\ plans = <<>> /\ other = NoPlan
    /\ deployed \in Versions
    /\ job = [c \in Callers |-> NoJob]
    /\ faults = 0 /\ cut = FALSE /\ overlapped = FALSE /\ crossed = FALSE

-----------------------------------------------------------------------------
(* What a record says. *)

Accepted(r) == {k \in DOMAIN r.receipts : r.receipts[k].result = "accepted"}
Crossed(r) == \E k \in Accepted(r) : Checkpoints[k] = "irreversible"
State(p) == plans[p].state
Started(p) == State(p) \in {"running", "succeeded", "failed"}
Strays == {p \in DOMAIN plans : plans[p].stray}

\* pending_plan_started, and the receipts whose effect is apply_target.
Attempted(r) ==
    \/ r.pending # NoPlan /\ State(r.pending) # "computed"
    \/ \E k \in Accepted(r) : Checkpoints[k] = "compensating"

\* The receipt of the next checkpoint, and the status that follows from it.
Accept(r, plan) ==
    [r EXCEPT !.receipts = Append(@, [result |-> "accepted", plan |-> plan]),
              !.pending = NoPlan, !.back = NoPlan,
              !.status = IF Len(r.receipts) + 1 = NumCheckpoints THEN "succeeded" ELSE "running"]

WithStatus(r, status) == [r EXCEPT !.status = status]

RolledBack(r) ==
    [r EXCEPT !.status = "rolled_back", !.pending = NoPlan, !.back = NoPlan,
              !.receipts = [k \in DOMAIN @ |-> [@[k] EXCEPT !.result = "rolled_back"]]]

-----------------------------------------------------------------------------
(* Moves of a caller. *)

At(c, pc) == job[c].pc = pc
Rec(c) == job[c].rec
Back(c) == job[c].op = "rollback"
Plan(c) == IF Back(c) THEN Rec(c).back ELSE Rec(c).pending

Goto(c, pc) == job' = [job EXCEPT ![c].pc = pc] /\ UNCHANGED lease
Update(c, r, pc) == job' = [job EXCEPT ![c] = [@ EXCEPT !.pc = pc, !.rec = r]] /\ UNCHANGED lease

\* The command returns; release_execution_lease lets go of a lease it still has.
End(c) ==
    /\ job' = [job EXCEPT ![c] = NoJob]
    /\ lease' = IF lease = c /\ ~At(c, "lease") /\ ~At(c, "approve") THEN Nobody ELSE lease

Store(r) == record' = r /\ crossed' = (crossed \/ Crossed(r))
Unsaved == UNCHANGED <<record, crossed>>
Busy == other # NoPlan \/ \E c \in Callers : At(c, "applying")

Fault == faults < MaxFaults /\ faults' = faults + 1
Smooth == UNCHANGED trouble
StoreFault == Fault /\ UNCHANGED <<cut, overlapped>>

\* The record that the caller loaded is still the stored one, or it is not.
Current(c) ==
    IF record = Rec(c) THEN Smooth
    ELSE Fault /\ overlapped' = TRUE /\ UNCHANGED cut

PendingState(r) == IF r.pending = NoPlan THEN "computed" ELSE State(r.pending)

\* The error arm of step_locked: a plan that succeeded all the same is
\* accepted, one that started needs a recovery.
AfterError(r) ==
    CASE PendingState(r) = "succeeded" -> [Accept(r, r.pending) EXCEPT !.back = r.back]
      [] PendingState(r) = "computed" -> WithStatus(r, "failed")
      [] OTHER -> WithStatus(r, "recovery_required")

\* What a failed command makes of its record; rollback_locked has one way to.
Outcome(c) ==
    IF Back(c) THEN WithStatus(Rec(c), "recovery_required") ELSE AfterError(Rec(c))

\* A command fails.  A pending plan that cannot be loaded counts as one that
\* never started, whatever it did.
Failed(c) ==
    \/ Update(c, Outcome(c), "save") /\ Smooth
    \/ /\ ~Back(c) /\ Rec(c).pending # NoPlan
       /\ Update(c, WithStatus(Rec(c), "failed"), "save") /\ StoreFault

\* A caller moves on with no change to what is stored.
Still == Unsaved /\ UNCHANGED <<plans, other, deployed, lock>>
Local == Still /\ Smooth

-----------------------------------------------------------------------------
(* Admission, approval, and the load of the record. *)

\* admit and persist_new.
Admit ==
    /\ record = NoRecord
    /\ record' = [NoRecord EXCEPT !.status = "admitted"]
    /\ Smooth
    /\ UNCHANGED <<lease, plans, other, deployed, lock, job, crossed>>

\* load_in and the checks on what it returned.
Load(c, op) ==
    /\ At(c, "idle") /\ record # NoRecord
    /\ IF op = "approve" THEN record.status = "admitted" ELSE record.approved
    /\ job' = [job EXCEPT ![c] = [pc |-> IF op = "approve" THEN "approve" ELSE "lease",
                                  op |-> op, rec |-> record]]
    /\ Local /\ UNCHANGED lease

\* approve_in puts the record it loaded, without the execution lease.
Approve(c) ==
    /\ At(c, "approve")
    /\ Store([Rec(c) EXCEPT !.approved = TRUE])
    /\ Current(c)
    /\ End(c)
    /\ UNCHANGED <<plans, other, deployed, lock>>

\* The statuses from which a command starts.
Startable(op, r) ==
    CASE op = "execute" -> r.status = "admitted" \/ (r.status = "running" /\ r.receipts # <<>>)
      [] op = "resume" -> r.status = "running"
      [] OTHER -> TRUE

\* The record it starts with: an execution raises the fence generation, and a
\* rollback of what never started is done.
Enter(c) ==
    LET r == Rec(c)
        next == IF Back(c) /\ r.status \in {"admitted", "rolled_back"}
                THEN [job[c] EXCEPT !.pc = "save", !.rec.status = "rolled_back"]
                ELSE IF ~Back(c) /\ r.status = "admitted"
                     THEN [job[c] EXCEPT !.pc = "lock", !.rec.gen = @ + 1, !.rec.status = "running"]
                     ELSE [job[c] EXCEPT !.pc = "lock"]
    IN  next.rec.gen <= MaxGeneration /\ job' = [job EXCEPT ![c] = next]

\* acquire_execution_lease refuses while the lease is held; a command that
\* cannot start from the record's status lets it go again.
AcquireLease(c) ==
    /\ At(c, "lease")
    /\ \/ /\ lease = Nobody /\ Startable(job[c].op, Rec(c))
          /\ lease' = c
          /\ Current(c)
          /\ Enter(c)
       \/ /\ lease # Nobody \/ ~Startable(job[c].op, Rec(c))
          /\ End(c) /\ Smooth
    /\ Unsaved /\ UNCHANGED <<plans, other, deployed, lock>>

\* acquire_environment_lock, under a claim of the environment.  It is refused
\* when another apply holds the claim or another migration the lock.  A claim
\* that cannot be released ends the command with the lock in place.
AcquireLock(c) ==
    /\ At(c, "lock")
    /\ \/ ~Busy /\ locked' = TRUE /\ Goto(c, "next") /\ Smooth
       \/ UNCHANGED locked /\ End(c) /\ Smooth
       \/ ~Busy /\ locked' = TRUE /\ End(c) /\ Fault /\ cut' = TRUE /\ UNCHANGED overlapped
    /\ Unsaved /\ UNCHANGED <<plans, other, deployed, allowed>>

-----------------------------------------------------------------------------
(* One checkpoint. *)

PinsHold == deployed \in {"source", "target"}

\* execute_checkpoint: the lease is refreshed and the pins are revalidated,
\* which a recall or a changed catalog makes fail as well.  A compensating
\* checkpoint goes on with the plan it has, or creates one.
ExecuteCheckpoint(c) ==
    LET r == Rec(c)
        class == Checkpoints[Len(r.receipts) + 1] IN
    /\ At(c, "next") /\ ~Back(c)
    /\ \/ /\ lease = c /\ PinsHold
          /\ IF class # "compensating" THEN Update(c, Accept(r, NoPlan), "save")
             ELSE Goto(c, IF r.pending # NoPlan THEN "authorize" ELSE "create")
          /\ Smooth
       \/ Failed(c)
    /\ Still

NewPlan(k) == [for |-> k, state |-> "computed", done |-> FALSE, stray |-> FALSE]

\* create_pin_plan: the plan is stored, and then its identity in the record.
CreatePlan(c) ==
    /\ At(c, "create")
    /\ \/ LET p == Len(plans) + 1
              k == IF Back(c) THEN Restore ELSE Len(Rec(c).receipts) + 1 IN
          /\ p <= MaxPlans
          /\ plans' = Append(plans, NewPlan(k))
          /\ Update(c, IF Back(c) THEN [Rec(c) EXCEPT !.back = p] ELSE [Rec(c) EXCEPT !.pending = p],
                    "pending")
          /\ Smooth
       \/ UNCHANGED plans /\ Failed(c)
    /\ Unsaved /\ UNCHANGED <<other, deployed, lock>>

\* Mutant: the plan is applied before the record names it.
ApplyUnrecorded(c) == At(c, "pending") /\ Goto(c, "authorize") /\ Local

\* The record names the plan before it is applied.
PersistPending(c) ==
    /\ At(c, "pending")
    /\ Store(Rec(c))
    /\ Goto(c, "authorize")
    /\ Smooth /\ UNCHANGED <<plans, other, deployed, lock>>

\* The lease is refreshed, and the plan needs an approval of its own: without
\* one an execution waits and a rollback gives up.
AuthorizePlan(c) ==
    /\ At(c, "authorize")
    /\ \/ lease = c /\ locked /\ allowed' = Plan(c) /\ Goto(c, "apply") /\ Smooth
       \/ UNCHANGED allowed /\ Failed(c)
       \/ lease = c /\ ~Back(c) /\ UNCHANGED allowed /\ Goto(c, "save") /\ Smooth
    /\ Unsaved /\ UNCHANGED <<plans, other, deployed, locked>>

\* execute_with_options loads the plan and checks its state, once.
Applicable(p) == State(p) \in {"computed", "blocked"}

\* The plan is checked or refused; an executor or a registry that cannot be set
\* up fails the command with its plan still authorized.
CheckPlan(c) ==
    /\ At(c, "apply")
    /\ \/ Applicable(Plan(c)) /\ Goto(c, "claim") /\ Smooth
       \/ Goto(c, "erred") /\ Smooth
       \/ Failed(c)
    /\ Still

\* The claim of the environment: one apply at a time, and the lock lets its
\* plan through.
Claimable(p) == ~Busy /\ (locked => allowed = p)

\* The plan is written as taken up, whatever its state is by now.
TakeUp(p, state, stray) ==
    plans' = [plans EXCEPT ![p].state = state, ![p].stray = @ \/ stray]

\* The rest of execute_with_options: refused by the claim or by admission,
\* blocked by a window or a gate, or begun.
BeginApply(c) ==
    /\ At(c, "claim")
    /\ \/ /\ Claimable(Plan(c))
          /\ \/ TakeUp(Plan(c), "running", FALSE) /\ Goto(c, "applying")
             \/ TakeUp(Plan(c), "blocked", FALSE) /\ Goto(c, "erred")
       \/ UNCHANGED plans /\ Goto(c, "erred")
    /\ Unsaved /\ Smooth /\ UNCHANGED <<other, deployed, lock>>

\* A plan that failed may have restored the old version, have left the new one
\* behind a failed gate, or have left the deployment unknown.
Applied(p, ok) ==
    LET pin == IF plans[p].for = Restore THEN "source" ELSE "target" IN
    /\ plans' = [plans EXCEPT ![p].state = IF ok THEN "succeeded" ELSE "failed", ![p].done = @ \/ ok]
    /\ IF ok THEN deployed' = pin ELSE deployed' \in {deployed, pin, "other"}

EndApply(c) ==
    /\ At(c, "applying")
    /\ \/ Applied(Plan(c), TRUE) /\ Goto(c, "applied")
       \/ Applied(Plan(c), FALSE) /\ Goto(c, "erred")
    /\ Unsaved /\ Smooth /\ UNCHANGED <<other, lock>>

\* clear_authorized_plan, the last refresh of an execution, and the plan's
\* state read back.  A plan that cannot be cleared fails the command.
AfterApply(c) ==
    LET r == Rec(c)
        good == At(c, "applied") /\ State(Plan(c)) = "succeeded" /\ (Back(c) \/ lease = c) IN
    /\ At(c, "applied") \/ At(c, "erred")
    /\ \/ /\ allowed' = NoPlan /\ good
          /\ Update(c, IF Back(c) THEN RolledBack(r) ELSE Accept(r, r.pending), "save") /\ Smooth
       \/ allowed' = NoPlan /\ ~good /\ Failed(c)
       \/ UNCHANGED allowed /\ Update(c, Outcome(c), "save") /\ StoreFault
    /\ Unsaved /\ UNCHANGED <<plans, other, deployed, locked>>

-----------------------------------------------------------------------------
(* Rollback. *)

\* Mutant: an irreversible checkpoint does not stop a rollback.
NothingIsIrreversible(r) == r # r

\* The loop over the receipts: something accepted cannot be undone.
BeyondRollback(r) == Crossed(r)

\* rollback_locked from its lock to the first change: the target must still be
\* deployed if it was ever applied, and nothing accepted be irreversible.
Reverse(c) ==
    LET r == Rec(c)
        raised == [r EXCEPT !.gen = @ + 1] IN
    /\ At(c, "next") /\ Back(c)
    /\ IF Attempted(r) /\ deployed # "target"
       THEN Update(c, WithStatus(r, "recovery_required"), "save")
       ELSE /\ r.gen < MaxGeneration
            /\ \/ /\ BeyondRollback(r)
                  /\ Update(c, WithStatus(raised, "recovery_required"), "save")
               \/ /\ ~BeyondRollback(r) /\ Attempted(r)
                  /\ IF lease = c
                     THEN Update(c, raised, IF r.back # NoPlan THEN "authorize" ELSE "create")
                     ELSE Update(c, WithStatus(raised, "recovery_required"), "save")
               \/ /\ ~BeyondRollback(r) /\ ~Attempted(r)
                  /\ Update(c, RolledBack(raised), "save")
    /\ Local

-----------------------------------------------------------------------------
(* The end of a command. *)

\* Mutant: only a migration that succeeded gives its lock back.
KeepsLockUnlessDone(c) == Rec(c).status # "succeeded"

\* A command that leaves the migration unfinished keeps the lock, and so does
\* an execution that ends in recovery_required.
KeepsLock(c) ==
    \/ Rec(c).status = "running"
    \/ ~Back(c) /\ Rec(c).status = "recovery_required"

\* persist: the record is put as it is, whatever is stored.
Save(c) ==
    /\ At(c, "save")
    /\ Store(Rec(c))
    /\ IF KeepsLock(c) THEN End(c) ELSE Goto(c, "unlock")
    /\ Smooth /\ UNCHANGED <<plans, other, deployed, lock>>

\* release_environment_lock.
ReleaseLock(c) ==
    /\ At(c, "unlock")
    /\ locked' = FALSE /\ allowed' = NoPlan
    /\ End(c)
    /\ Unsaved /\ Smooth /\ UNCHANGED <<plans, other, deployed>>

-----------------------------------------------------------------------------
(* Faults, and what others do to the environment. *)

\* The lease and the lock stay behind.
Crash(c) ==
    /\ ~At(c, "idle")
    /\ Fault /\ cut' = TRUE
    /\ job' = [job EXCEPT ![c] = NoJob]
    /\ Unsaved /\ UNCHANGED <<lease, plans, other, deployed, lock, overlapped>>

\* The lease of a crashed command lapses in the end; a command that takes
\* longer than two hours between two refreshes loses its own.
Lapse ==
    /\ lease # Nobody /\ lease' = Nobody
    /\ IF job[lease].pc \in {"idle", "lease", "approve"} THEN Smooth
       ELSE Fault /\ overlapped' = TRUE /\ UNCHANGED cut
    /\ Unsaved /\ UNCHANGED <<plans, other, deployed, lock, job>>

\* Other applies and other migrations.
OtherApply ==
    /\ ~locked /\ ~Busy
    /\ deployed' \in Versions
    /\ Unsaved /\ Smooth /\ UNCHANGED <<lease, plans, other, lock, job>>

\* The reconciler's select_plan takes any executable plan of the environment,
\* and an operator applies the plan he names: a plan of the migration too.  It
\* may have been loaded long before the claim, when it was still executable.
OtherBegins(p) ==
    /\ Claimable(p)
    /\ \/ /\ Cardinality(Strays \cup {p}) <= MaxStrays
          /\ TakeUp(p, "running", TRUE) /\ other' = p
       \/ TakeUp(p, "blocked", FALSE) /\ UNCHANGED other
    /\ IF Applicable(p) THEN Smooth ELSE StoreFault
    /\ Unsaved /\ UNCHANGED <<lease, deployed, lock, job>>

\* It ends, or dies with its plan left running.
OtherEnds ==
    /\ other # NoPlan /\ other' = NoPlan
    /\ \/ \E ok \in BOOLEAN : Applied(other, ok)
       \/ UNCHANGED plans /\ deployed' \in Versions
    /\ Unsaved /\ Smooth /\ UNCHANGED <<lease, lock, job>>

Next ==
    \/ Admit \/ Lapse \/ OtherApply \/ OtherEnds
    \/ \E p \in DOMAIN plans : OtherBegins(p)
    \/ \E c \in Callers :
          \/ \E op \in Ops : Load(c, op)
          \/ Approve(c) \/ AcquireLease(c) \/ AcquireLock(c)
          \/ ExecuteCheckpoint(c)
          \/ CreatePlan(c) \/ PersistPending(c) \/ AuthorizePlan(c)
          \/ CheckPlan(c) \/ BeginApply(c) \/ EndApply(c) \/ AfterApply(c)
          \/ Reverse(c) \/ Save(c) \/ ReleaseLock(c) \/ Crash(c)

Spec == Init /\ [][Next]_vars

-----------------------------------------------------------------------------
(* Properties. *)

PlansFor(k) == {p \in DOMAIN plans : plans[p].for = k}

\* What the record says happened.  An accepted checkpoint that applies the
\* target names a plan of its own that succeeded, whichever of the two paths
\* through an error or a lost answer recorded it.  And a migration is called
\* rolled back only if no irreversible checkpoint was ever accepted and the
\* source was restored over every plan that the migration ran, by a plan that
\* succeeded.  Of a plan that another apply took up the record need not know:
\* a plan that was never applied stays executable when the lock is gone, and the
\* reconciler may install the target under a record that says rolled_back.
RecordIsHonest ==
    /\ \A k \in Accepted(record) : Checkpoints[k] = "compensating" =>
          record.receipts[k].plan \in {p \in PlansFor(k) : plans[p].done}
    /\ record.status = "rolled_back" /\ ~overlapped =>
          /\ ~crossed
          /\ (\E p \in DOMAIN plans \ Strays : Started(p)) =>
                /\ \E p \in PlansFor(Restore) : plans[p].done
                /\ locked /\ Strays = {} => deployed = "source"

\* The migration applies the target once for a checkpoint, however often callers
\* crash, resume and retry, because the record names the plan before it is
\* applied.  What is excepted is a plan that another apply runs: one orphaned by a
\* crash before the record named it is never withdrawn, and the reconciler may
\* apply it beside the one that replaced it.
NoReplay == ~overlapped =>
    \A k \in 1..NumCheckpoints : Cardinality({p \in PlansFor(k) \ Strays : Started(p)}) <= 1

\* While the stored record says running, the environment is locked for it,
\* between commands and after crashes too; and when no command runs and none was
\* cut off, it is locked only for a migration that has more to do or that needs
\* a recovery.
LockFollowsRecord ==
    ~overlapped =>
       /\ record.status = "running" => locked
       /\ ~cut /\ locked /\ (\A c \in Callers : At(c, "idle")) =>
             record.status \in {"running", "recovery_required"}

=============================================================================
