---------------------------- MODULE PlanExecution ----------------------------
(***************************************************************************)
(* How one plan is applied to one environment: the attempts that execute   *)
(* it, the commands they run against the deployment target, what they      *)
(* write to the environment's deployment record and to the plan, and the   *)
(* reconciler's recovery of a plan that its attempt left running.          *)
(*                                                                         *)
(* An attempt is a process that calls execute_with_options; it may call it *)
(* again when it returned.  It works under the environment lease, given    *)
(* here by GenerationFence: every write and every command is refused once  *)
(* the generation is no longer accepted.  Commands run under the mutation  *)
(* lock that FencedMutation specifies: one at a time, started under the    *)
(* newest generation, ended before the lock is free.                       *)
(*                                                                         *)
(* A fault is one store call or command that fails; an ambiguous store     *)
(* fault commits and reports an error.  Products are the ones deployed by  *)
(* an install and an uninstall command; restarts, removals, host steps and *)
(* delegated delivery are left out.                                        *)
(***************************************************************************)
EXTENDS GenerationFence

CONSTANTS
    Attempts,       \* processes that apply the plan
    Operator,       \* who runs `tenkaictl env unlock`
    NumSteps,       \* steps of the plan
    Fresh,          \* the steps that install a product for the first time
    MaxFaults,      \* bound: faults in one behaviour
    Hazards,        \* what else may happen: "crash", "lapse", "unlock"
    GateOutcomes    \* what a failing health gate may ask for

Steps == 1..NumSteps

ASSUME PlanAssumption ==
    /\ NumSteps \in Nat \ {0} /\ Fresh \subseteq Steps
    /\ MaxFaults \in Nat /\ MaxGeneration \in Nat
    /\ Hazards \subseteq {"crash", "lapse", "unlock"}
    /\ GateOutcomes \subseteq {"halt", "rollback", "blocked"}
    /\ Owners = Attempts \cup {Operator}
    /\ NoOwner \notin Owners /\ Operator \notin Attempts

VARIABLES
    released,   \* environment_lease_status finds no holder
    plan,       \* the stored state of the plan
    pc,         \* where each attempt is
    gen,        \* the generation it claimed
    step,       \* the step it executes
    clean,      \* attempts whose removal of the failed release worked
    target,     \* what is installed, per step's product
    record,     \* what the environment object says is deployed
    mutex,      \* the attempt whose command runs
    recovery,   \* where the reconciler's recovery is
    faults,     \* faults so far
    interrupted,\* history: a step was cut off in the middle: crash, lost lease, lost fence
    succeeded   \* history: the plan was once stored as succeeded

attempt == <<pc, gen, step, clean>>
world == <<target, record, mutex>>
history == <<interrupted, succeeded>>
vars == <<generation, owner, live, released, plan, pc, gen, step, clean, target, record, mutex,
          recovery, faults, interrupted, succeeded>>

PlanStates == {"computed", "blocked", "running", "succeeded", "failed"}
Terminal == {"succeeded", "failed"}

\* Commands: removing the outgoing release of a rollback, installing the new
\* release (over it, or where it was removed), cleaning up and restoring after
\* a failed install, undoing after a failed record, undoing for a health gate.
Removals == {"outgoing", "cleanup", "undo", "gateUndo"}
Installs == {"install", "replace"}
Restores == {"restore", "redo", "gateRestore"}
Commands == Removals \cup Installs \cup Restores

RecordWrites == {"record", "halt", "live", "unchanged", "unknown", "recordOld", "markUnknown"}
MidStep == Commands \cup RecordWrites \cup {"gate"}
Unheld == {"idle", "claim"}
Pcs == MidStep \cup Unheld
       \cup {"authorize", "admit", "start", "started", "step", "recorded", "block", "gateBlock",
             "fail", "finish", "finishFailed", "release"}

\* Every variable has its type; only an attempt at a command runs one.
TypeOK ==
    /\ generation \in 0..MaxGeneration /\ owner \in Owners \cup {NoOwner} /\ live \in BOOLEAN
    /\ released \in BOOLEAN
    /\ plan \in PlanStates
    /\ pc \in [Attempts -> Pcs]
    /\ gen \in [Attempts -> 0..MaxGeneration]
    /\ step \in [Attempts -> Steps]
    /\ clean \in SUBSET Attempts
    /\ target \in [Steps -> {"none", "old", "new", "broken"}]
    /\ record \in [Steps -> {"none", "old", "new", "unknown"}]
    /\ mutex \in Attempts \cup {NoOwner}
    /\ recovery \in {"idle", "listed", "checked", "validated"}
    /\ faults \in 0..MaxFaults
    /\ interrupted \in BOOLEAN /\ succeeded \in BOOLEAN
    /\ \A a \in Attempts : mutex = a => pc[a] \in Commands

\* step.from and step.restore: what the plan was computed from.
From(s) == IF s \in Fresh THEN "none" ELSE "old"

Init ==
    /\ FenceInit /\ released = TRUE
    /\ plan = "computed"
    /\ pc = [a \in Attempts |-> "idle"] /\ gen = [a \in Attempts |-> 0]
    /\ step = [a \in Attempts |-> 1] /\ clean = {}
    /\ target = [s \in Steps |-> From(s)] /\ record = [s \in Steps |-> From(s)]
    /\ mutex = NoOwner
    /\ recovery = "idle"
    /\ faults = 0 /\ interrupted = FALSE /\ succeeded = FALSE

-----------------------------------------------------------------------------
(* Moves of an attempt. *)

Goto(a, next) == pc' = [pc EXCEPT ![a] = next] /\ UNCHANGED <<gen, step, clean>>

\* The call returns, or its process is gone.
End(a) ==
    /\ pc' = [pc EXCEPT ![a] = "idle"]
    /\ gen' = [gen EXCEPT ![a] = 0]
    /\ step' = [step EXCEPT ![a] = 1]
    /\ clean' = clean \ {a}

Fault == faults < MaxFaults /\ faults' = faults + 1
NoFault == UNCHANGED faults

Held(a) == pc[a] \notin Unheld /\ Accepts(gen[a])

\* Mutant: an attempt whose plan write failed returns with the lease held.
EndHeld(a) == End(a)

\* An error from the plan's store goes past the steps to the release.
AfterPlanError(a) == Goto(a, "release")

\* plan::transition with Persistence::Guarded.  The write is fenced and does
\* not consult the stored state.  When it fails and is to be confirmed, the
\* plan is read back and the write counts as done if its state is there.
PlanWrite(a, state, confirm, next) ==
    /\ Held(a)
    /\ \/ plan' = state /\ Goto(a, next) /\ NoFault
       \/ /\ Fault
          /\ plan' \in {plan, state}
          /\ IF confirm /\ plan' = state THEN Goto(a, next) ELSE AfterPlanError(a)
    /\ succeeded' = IF plan' = "succeeded" THEN TRUE ELSE succeeded
    /\ UNCHANGED <<fence, released, world, recovery, interrupted>>

\* A fenced write of one product's deployment record.
RecordWrite(a, value, next, onError) ==
    /\ Held(a)
    /\ \/ record' = [record EXCEPT ![step[a]] = value] /\ Goto(a, next) /\ NoFault
       \/ /\ Fault
          /\ record' \in {record, [record EXCEPT ![step[a]] = value]}
          /\ Goto(a, onError)
    /\ UNCHANGED <<fence, released, plan, target, mutex, recovery, history>>

\* record_deployment_observation reads a failed write back.  A committed one
\* counts as done, unless (with a remote store) it was the second of two writes
\* that failed.
Observe(a, value, next, onError) ==
    \/ RecordWrite(a, value, next, onError)
    \/ /\ Held(a) /\ Fault
       /\ record' = [record EXCEPT ![step[a]] = value]
       /\ Goto(a, next)
       /\ UNCHANGED <<fence, released, plan, target, mutex, recovery, history>>

\* A step that reads and decides.
Decide(a, next) ==
    /\ Held(a)
    /\ Goto(a, next)
    /\ NoFault
    /\ UNCHANGED <<fence, released, plan, world, recovery, history>>

\* A check that errs or refuses half-way through moves the attempt on.
ReadFault(a, next) ==
    /\ Held(a) /\ Fault
    /\ Goto(a, next)
    /\ UNCHANGED <<fence, released, plan, world, recovery, history>>

-----------------------------------------------------------------------------
(* Claim, admission and start. *)

\* The plan is loaded and its state checked, here and never again.
Load(a) ==
    /\ pc[a] = "idle" /\ plan \in {"computed", "blocked"}
    /\ Goto(a, "claim")
    /\ NoFault
    /\ UNCHANGED <<fence, released, plan, world, recovery, history>>

Claim(a) ==
    /\ pc[a] = "claim"
    /\ Grant(a)
    /\ released' = FALSE
    /\ pc' = [pc EXCEPT ![a] = "authorize"]
    /\ gen' = [gen EXCEPT ![a] = generation + 1]
    /\ NoFault
    /\ UNCHANGED <<step, clean, plan, world, recovery, history>>

\* Another apply holds the lease, or the environment is retired, locked by a
\* migration or run by a runtime (EnvironmentLease).
ClaimRefused(a) ==
    /\ pc[a] = "claim"
    /\ End(a)
    /\ NoFault
    /\ UNCHANGED <<fence, released, plan, world, recovery, history>>

\* authorize_maintenance: outside the window the plan is blocked at once.
Authorize(a) == pc[a] = "authorize" /\ \E next \in {"admit", "block"} : Decide(a, next)

\* Mutant: the plan is not checked against the record before it runs.
AdmitsAnyRecord == TRUE

\* Every product is still deployed in the version the plan starts from.
AdmitsRecord == \A s \in Steps : record[s] = From(s)

\* execution_admission::admit and the delivery hold.
Admit(a) ==
    /\ pc[a] = "admit"
    /\ \/ AdmitsRecord /\ Decide(a, "start")
       \/ Decide(a, "release")

\* The release gates and the last look at the maintenance window.
Blocked(a) ==
    /\ pc[a] = "start"
    /\ \E next \in {"block", "gateBlock", "release"} : Decide(a, next)

Block(a) == pc[a] = "block" /\ PlanWrite(a, "blocked", FALSE, "release")
GateBlock(a) == pc[a] = "gateBlock" /\ PlanWrite(a, "blocked", TRUE, "release")
StartRunning(a) == pc[a] = "start" /\ PlanWrite(a, "running", TRUE, "started")

\* The window may have closed during that write; the plan's artifacts and
\* executors are checked before the first step.
Started(a) ==
    /\ pc[a] = "started"
    /\ \/ \E next \in {"block", "fail", "step"} : Decide(a, next)
       \/ ReadFault(a, "release")

-----------------------------------------------------------------------------
(* One step. *)

\* The releases of the step are admitted.  A rollback removes the outgoing
\* release first when it has an uninstall command.
StepAdmission(a) ==
    /\ pc[a] = "step"
    /\ \/ Decide(a, "install")
       \/ Decide(a, "fail")
       \/ step[a] \notin Fresh /\ Decide(a, "outgoing")

\* activate refuses before it touches the target: nothing to clean up, unless
\* the outgoing release is gone.
RefuseActivation(a) ==
    /\ mutex # a
    /\ \/ pc[a] = "install" /\ Decide(a, "fail")
       \/ pc[a] = "replace" /\ ReadFault(a, "markUnknown")

Goal(c) == IF c \in Installs THEN "new" ELSE IF c \in Restores THEN "old" ELSE "none"

\* What a command that failed or was cut off may leave behind.
MayLeave(a) == {target, [target EXCEPT ![step[a]] = Goal(pc[a])],
                [target EXCEPT ![step[a]] = "broken"]}

\* The guard has the lock and the controller refreshed the lease under it.
BeginCommand(a) ==
    /\ pc[a] \in Commands /\ mutex = NoOwner /\ Held(a)
    /\ mutex' = a
    /\ NoFault
    /\ UNCHANGED <<fence, released, plan, attempt, target, record, recovery, history>>

\* Where an attempt goes when a command ended, well or not.
AfterCommand(a, ok) ==
    LET fresh == step[a] \in Fresh
        To(next) == pc' = [pc EXCEPT ![a] = next]
    IN
    /\ clean' = IF pc[a] \in {"cleanup", "undo"} /\ ok THEN clean \cup {a} ELSE clean
    /\ \/ pc[a] = "outgoing"    /\ To(IF ok THEN "replace" ELSE "unknown")
       \/ pc[a] \in Installs    /\ To(IF ok THEN "gate" ELSE "cleanup")
       \/ pc[a] = "cleanup"     /\ To(IF fresh THEN IF ok THEN "unchanged" ELSE "unknown" ELSE "restore")
       \/ pc[a] = "restore"     /\ To(IF ok /\ a \in clean THEN "unchanged" ELSE "unknown")
       \/ pc[a] = "gateUndo"    /\ To(IF ok THEN "gateRestore" ELSE "unknown")
       \/ pc[a] = "gateRestore" /\ To(IF ok THEN "unchanged" ELSE "unknown")
       \/ pc[a] = "undo"        /\ To("markUnknown")
       \/ pc[a] = "undo"        /\ ~fresh /\ To("redo")
       \/ pc[a] = "redo"        /\ To(IF ok THEN "recordOld" ELSE "markUnknown")
    /\ UNCHANGED <<gen, step>>

\* The command returned and the lease was still held when it did.
EndCommand(a) ==
    /\ mutex = a /\ Held(a)
    /\ mutex' = NoOwner
    /\ \/ /\ target' = [target EXCEPT ![step[a]] = Goal(pc[a])]
          /\ AfterCommand(a, TRUE) /\ NoFault
       \/ /\ target' \in MayLeave(a)
          /\ AfterCommand(a, FALSE) /\ Fault
    /\ UNCHANGED <<fence, released, plan, record, recovery, history>>

\* A release without an uninstall command: the removal fails where one was
\* needed, and is passed over where the health gate restores.
SkipRemoval(a) ==
    /\ mutex # a /\ Held(a)
    /\ \/ pc[a] \in {"cleanup", "undo"} /\ AfterCommand(a, FALSE)
       \/ pc[a] = "gateUndo" /\ AfterCommand(a, TRUE)
    /\ NoFault
    /\ UNCHANGED <<fence, released, plan, world, recovery, history>>

\* health_gate::decide_after_success.
Gate(a) ==
    /\ pc[a] = "gate"
    /\ \/ Decide(a, "record")
       \/ "halt" \in GateOutcomes /\ Decide(a, "halt")
       \/ "rollback" \in GateOutcomes /\ step[a] \notin Fresh /\ Decide(a, "gateUndo")
       \/ "blocked" \in GateOutcomes /\ step[a] \notin Fresh /\ Decide(a, "live")
       \/ ReadFault(a, "undo")

\* Mutant: a record that could not be written is not compensated.
NoCompensation == "fail"

\* compensate_or_fence: where a failed record after an activation leads.
Compensation == "undo"

\* A step that succeeded is recorded.
Record(a) == pc[a] = "record" /\ Observe(a, "new", "recorded", Compensation)

\* The loop of execute_locked: the next step, or the end.
NextStep(a) ==
    /\ pc[a] = "recorded" /\ Held(a)
    /\ IF step[a] = NumSteps
       THEN Goto(a, "finish")
       ELSE /\ pc' = [pc EXCEPT ![a] = "step"]
            /\ step' = [step EXCEPT ![a] = @ + 1]
            /\ UNCHANGED <<gen, clean>>
    /\ NoFault
    /\ UNCHANGED <<fence, released, plan, world, recovery, history>>

\* The gate halts the plan with the new release in place.
RecordHalt(a) == pc[a] = "halt" /\ Observe(a, "new", "finishFailed", Compensation)

\* record_live_restore_failure: the gate's rollback could not be started.
RecordLive(a) == pc[a] = "live" /\ Observe(a, "new", "finishFailed", "fail")

\* The step failed and the earlier release is back.
RecordUnchanged(a) ==
    pc[a] = "unchanged" /\ Observe(a, record[step[a]], "finishFailed", "fail")

\* The step failed and nobody knows what is installed.
RecordUnknown(a) == pc[a] = "unknown" /\ Observe(a, "unknown", "finishFailed", "fail")

\* compensate_activation records the release that it restored, and marks the
\* product unknown when any part of the compensation failed.
RecordOld(a) ==
    pc[a] = "recordOld" /\ RecordWrite(a, "old", IF a \in clean THEN "fail" ELSE "markUnknown",
                                       "markUnknown")

MarkUnknown(a) == pc[a] = "markUnknown" /\ RecordWrite(a, "unknown", "fail", "fail")

-----------------------------------------------------------------------------
(* Completion. *)

Fail(a) == pc[a] = "fail" /\ PlanWrite(a, "failed", FALSE, "release")
Finish(a) == pc[a] = "finish" /\ PlanWrite(a, "succeeded", TRUE, "release")
FinishFailed(a) == pc[a] = "finishFailed" /\ PlanWrite(a, "failed", TRUE, "release")

Release(a) ==
    /\ pc[a] = "release" /\ Held(a)
    /\ End(a)
    /\ \/ live' = FALSE /\ released' = TRUE /\ NoFault
       \/ Fault /\ UNCHANGED <<live, released>>
    /\ UNCHANGED <<generation, owner, plan, world, recovery, history>>

\* Without the lease every call the attempt still makes is refused.
GiveUp(a) ==
    /\ pc[a] \notin Unheld /\ ~Accepts(gen[a]) /\ mutex # a
    /\ End(a)
    /\ interrupted' = (interrupted \/ pc[a] \in MidStep)
    /\ NoFault
    /\ UNCHANGED <<fence, released, plan, world, recovery, succeeded>>

\* Mutant: the lock of a command that was cut off stays taken.
CutOffLocked(a) ==
    /\ target' \in MayLeave(a)
    /\ UNCHANGED mutex

\* The command is stopped wherever it was, or finished just before.
CutOff(a) ==
    /\ target' \in MayLeave(a)
    /\ mutex' = NoOwner

\* The supervisor finds the lease lost and stops the command.
LoseCommand(a) ==
    /\ mutex = a /\ ~Accepts(gen[a])
    /\ CutOff(a)
    /\ End(a)
    /\ interrupted' = TRUE
    /\ NoFault
    /\ UNCHANGED <<fence, released, plan, record, recovery, succeeded>>

\* Where an error of the refresh leaves the step: its compensation is given up
\* too, except that its own record writes only log the error.
Refreshing == (MidStep \ {"recordOld", "markUnknown"}) \cup {"step"}

\* map_held_lease_error and renew_within: for an apply that a wave drives, or
\* whose executor runs in this process, a refresh that merely failed counts as
\* a lost fence.  The running command is stopped, the step is neither
\* compensated nor recorded, the plan is not failed, and the lease, still held,
\* is released.
LoseFence(a) ==
    /\ Held(a) /\ pc[a] \in Refreshing /\ Fault
    /\ IF mutex = a THEN CutOff(a) ELSE UNCHANGED <<target, mutex>>
    /\ Goto(a, "release")
    /\ interrupted' = (interrupted \/ pc[a] \in MidStep)
    /\ UNCHANGED <<fence, released, plan, record, recovery, succeeded>>

\* The attempt's process dies; its guard ends the command with it.
Crash(a) ==
    /\ "crash" \in Hazards /\ pc[a] # "idle"
    /\ IF mutex = a THEN CutOff(a) ELSE UNCHANGED <<target, mutex>>
    /\ End(a)
    /\ interrupted' = (interrupted \/ pc[a] \in MidStep)
    /\ NoFault
    /\ UNCHANGED <<fence, released, plan, record, recovery, succeeded>>

-----------------------------------------------------------------------------
(* The lease, the operator and the reconciler. *)

\* The lease expires when nobody renews it.  With the "lapse" hazard the
\* holder may also be stalled for longer than the lease lasts.
Expire ==
    /\ "lapse" \in Hazards \/ ~\E a \in Attempts : Held(a)
    /\ owner # Operator
    /\ Lapse
    /\ NoFault
    /\ UNCHANGED <<released, plan, attempt, world, recovery, history>>

\* unlock_environment: takes over an expired lease nobody released ...
Unlock ==
    /\ "unlock" \in Hazards /\ ~released
    /\ Grant(Operator)
    /\ NoFault
    /\ UNCHANGED <<released, plan, attempt, world, recovery, history>>

\* ... and releases it.
UnlockReleases ==
    /\ live /\ owner = Operator
    /\ live' = FALSE /\ released' = TRUE
    /\ NoFault
    /\ UNCHANGED <<generation, owner, plan, attempt, world, recovery, history>>

Recover(from, to) ==
    /\ recovery = from /\ recovery' = to
    /\ NoFault
    /\ UNCHANGED <<fence, released, attempt, world, interrupted>>

\* recover_or_detect_active_plan lists the running plans of the environment.
ListRunning == plan = "running" /\ Recover("idle", "listed") /\ UNCHANGED <<plan, succeeded>>

\* environment_lease_status is None: the latest grant was released.  A lease
\* that expired unreleased still has its holder.
NoLeaseHolder == released

CheckHolder ==
    /\ \/ NoLeaseHolder /\ Recover("listed", "checked")
       \/ ~NoLeaseHolder /\ Recover("listed", "idle")
    /\ UNCHANGED <<plan, succeeded>>

\* validated_plan_object: from running to failed is a transition it allows.
ValidateRecovery ==
    /\ IF plan = "running" THEN Recover("checked", "validated") ELSE Recover("checked", "idle")
    /\ UNCHANGED <<plan, succeeded>>

\* The put itself is neither fenced nor conditional.  One that fails leaves
\* the plan to the next tick.
PutFailed == plan' = "failed" /\ Recover("validated", "idle") /\ UNCHANGED succeeded

RecoveryStep == ListRunning \/ CheckHolder \/ ValidateRecovery \/ PutFailed

AttemptStep(a) ==
    \/ Load(a) \/ Claim(a) \/ ClaimRefused(a) \/ Authorize(a) \/ Admit(a)
    \/ Blocked(a) \/ Block(a) \/ GateBlock(a) \/ StartRunning(a) \/ Started(a)
    \/ StepAdmission(a) \/ RefuseActivation(a)
    \/ BeginCommand(a) \/ EndCommand(a) \/ SkipRemoval(a) \/ LoseCommand(a)
    \/ Gate(a) \/ Record(a) \/ NextStep(a) \/ RecordHalt(a) \/ RecordLive(a)
    \/ RecordUnchanged(a) \/ RecordUnknown(a) \/ RecordOld(a) \/ MarkUnknown(a)
    \/ Fail(a) \/ Finish(a) \/ FinishFailed(a) \/ Release(a) \/ GiveUp(a) \/ LoseFence(a)

Next ==
    \/ \E a \in Attempts : AttemptStep(a) \/ Crash(a)
    \/ Expire \/ Unlock \/ UnlockReleases
    \/ RecoveryStep

Safety == Init /\ [][Next]_vars

\* A live attempt goes on, its commands end, leases nobody renews expire and
\* the reconciler ticks.  Nobody has to crash, stall or unlock.
Spec ==
    /\ Safety
    /\ \A a \in Attempts : WF_vars(AttemptStep(a))
    /\ WF_vars(~(\E a \in Attempts : Held(a)) /\ Expire)
    /\ WF_vars(UnlockReleases)
    /\ WF_vars(RecoveryStep)

-----------------------------------------------------------------------------
(* Properties. *)

\* Once the plan was stored as succeeded, every product is installed and
\* recorded in its new version, whatever attempts that loaded the plan earlier,
\* commands of attempts that lost the lease, or the recovery do afterwards.
SucceededIsDeployed ==
    succeeded => \A s \in Steps : target[s] = "new" /\ record[s] = "new"

Quiescent == mutex = NoOwner /\ \A a \in Attempts : pc[a] \notin MidStep

\* One failed command or store call, an ambiguous one included, that the step
\* answers itself never leaves a record that names another version than the one
\* installed: the step either compensates for it or marks the product unknown.
\* A step that was cut off in the middle answers nothing: by a crash, by the
\* loss of the lease, or by a single failed refresh that counts as that loss
\* (LoseFence), after which the record may be old and the target new.
OneFaultKeepsRecord ==
    Quiescent /\ ~interrupted /\ faults <= 1
        => \A s \in Steps : record[s] \in {target[s], "unknown"}

\* A plan that runs is left in some other state, by its attempt or, when the
\* attempt could not write it, by the reconciler.
RunningIsLeft == plan = "running" ~> plan # "running"
=============================================================================
