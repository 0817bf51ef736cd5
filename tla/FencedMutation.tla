--------------------------- MODULE FencedMutation ---------------------------
(***************************************************************************)
(* How a deployment command is kept from running beside another one.  A    *)
(* controller that holds the environment lease spawns a guard process,     *)
(* which takes a file lock, reports ready, waits for the controller's go   *)
(* on a pipe, runs the command in a process group of its own, and kills    *)
(* the group when the pipe closes.  An in-process mutation does the same   *)
(* with a blocking thread in the guard's place and channels for the pipe.  *)
(*                                                                         *)
(* A run is one call of fenced_mutation::run or run_guarded_mutation.  A   *)
(* controller makes its runs one after the other under one generation.     *)
(* The lease is the fence that EnvironmentLease implements: it may lapse   *)
(* between any two steps, and anybody may then be granted the next         *)
(* generation.  A refresh that succeeds changes nothing here, so only the  *)
(* refreshes that decide something are steps.                              *)
(*                                                                         *)
(* A controller may crash (its process dies: pipes close, threads and the  *)
(* locks they hold go with it).  Its future may also be dropped, as when   *)
(* an HTTP client of a served apply disconnects: the process lives on, the *)
(* pipe closes, and kill_on_drop sends the guard SIGKILL.                  *)
(***************************************************************************)
EXTENDS GenerationFence

CONSTANTS
    Runs,           \* calls of run, each made once
    InProcess,      \* those of run_guarded_mutation, with a thread as guard
    Cancellable     \* runs whose future may be dropped

ASSUME RunAssumption ==
    /\ InProcess \subseteq Runs /\ Cancellable \subseteq Runs
    /\ NoOwner \notin Runs
    /\ Owners = Runs
    /\ MaxGeneration \in Nat

VARIABLES
    runGen,     \* generation under which each run is made
    ctl,        \* the controller's side of each run
    guard,      \* the guard process or thread of each run
    closed,     \* runs whose control pipe or go channel is closed
    go,         \* runs whose go was written
    group,      \* the process group (or the work) of each run
    holder,     \* the run whose guard holds the mutation lock
    lastStarted \* history: generation of the latest command started

guardVars == <<generation, owner, live, runGen, ctl, guard, closed, go, group, holder, lastStarted>>

CtlSteps == {"idle", "start", "waiting", "ready", "go", "running", "interrupted", "fenceLost",
             "dropping", "returned", "lost"}
GuardSteps == {"none", "locking", "ready", "supervising", "cleaning", "reaping", "exited"}
GroupStates == {"none", "running", "leftover", "killed", "gone"}

\* A guard in one of these steps has the lock.
LockedSteps == {"ready", "supervising", "cleaning", "reaping"}

\* Every variable has its type, and the lock belongs to a guard that is alive
\* and past its flock, to nobody else.
GuardTypeOK ==
    /\ generation \in 0..MaxGeneration /\ owner \in Runs \cup {NoOwner} /\ live \in BOOLEAN
    /\ runGen \in [Runs -> 0..MaxGeneration]
    /\ ctl \in [Runs -> CtlSteps]
    /\ guard \in [Runs -> GuardSteps]
    /\ closed \in SUBSET Runs /\ go \in SUBSET Runs
    /\ group \in [Runs -> GroupStates]
    /\ holder \in Runs \cup {NoOwner}
    /\ lastStarted \in 0..MaxGeneration
    /\ \A r \in Runs : guard[r] \in LockedSteps <=> holder = r

\* The command, or a descendant that it left in its group, may still mutate.
Mutating(r) == group[r] \in {"running", "leftover", "killed"}

Shell(r) == r \notin InProcess

CtlGoto(r, step) == ctl' = [ctl EXCEPT ![r] = step]

\* Mutant: a guard that ends leaves the lock taken.
ExitKeepsLock(r) == guard' = [guard EXCEPT ![r] = "exited"] /\ UNCHANGED holder

\* Process exit closes the lock file, and with it releases the lock.
GuardExit(r) ==
    /\ guard' = [guard EXCEPT ![r] = "exited"]
    /\ holder' = IF holder = r THEN NoOwner ELSE holder

\* An early return or a dropped future: the control pipe goes first, then the
\* guard process is killed; a thread is left to itself.
Drop(r) ==
    /\ closed' = closed \cup {r}
    /\ CtlGoto(r, IF Shell(r) THEN "dropping" ELSE "lost")

-----------------------------------------------------------------------------
(* The controller. *)

\* A controller acquires the environment and makes its first run.
Claim(r) ==
    /\ ctl[r] = "idle"
    /\ Grant(r)
    /\ runGen' = [runGen EXCEPT ![r] = generation + 1]
    /\ CtlGoto(r, "start")
    /\ UNCHANGED <<guard, closed, go, group, holder, lastStarted>>

\* The same controller makes its next run, the earlier ones having returned.
Continue(r) ==
    /\ ctl[r] = "idle"
    /\ \E q \in Runs :
          /\ ctl[q] = "returned"
          /\ \A s \in Runs : runGen[s] = runGen[q] => ctl[s] = "returned"
          /\ runGen' = [runGen EXCEPT ![r] = runGen[q]]
    /\ CtlGoto(r, "start")
    /\ UNCHANGED <<fence, guard, closed, go, group, holder, lastStarted>>

\* The first refresh, and the spawn of the guard.
Start(r) ==
    /\ ctl[r] = "start"
    /\ \/ /\ Accepts(runGen[r])
          /\ guard' = [guard EXCEPT ![r] = "locking"]
          /\ CtlGoto(r, "waiting")
       \/ /\ ~Accepts(runGen[r])
          /\ CtlGoto(r, "lost")
          /\ UNCHANGED guard
    /\ UNCHANGED <<fence, runGen, closed, go, group, holder, lastStarted>>

\* A periodic refresh fails while the guard waits for the lock.
LoseWaiting(r) ==
    /\ ctl[r] = "waiting" /\ ~Accepts(runGen[r])
    /\ Drop(r)
    /\ UNCHANGED <<fence, runGen, guard, go, group, holder, lastStarted>>

ReadReady(r) ==
    /\ ctl[r] = "waiting" /\ guard[r] = "ready"
    /\ CtlGoto(r, "ready")
    /\ UNCHANGED <<fence, runGen, guard, closed, go, group, holder, lastStarted>>

\* Mutant: the go follows the ready without a refresh under the lock.
NoRefreshUnderLock(r) ==
    /\ ctl[r] = "ready"
    /\ CtlGoto(r, "go")
    /\ UNCHANGED <<fence, runGen, guard, closed, go, group, holder, lastStarted>>

\* The lock is held; the fence is validated before anything is authorized.
RefreshUnderLock(r) ==
    /\ ctl[r] = "ready"
    /\ \/ /\ Accepts(runGen[r])
          /\ CtlGoto(r, "go")
          /\ UNCHANGED closed
       \/ /\ ~Accepts(runGen[r])
          /\ Drop(r)
    /\ UNCHANGED <<fence, runGen, guard, go, group, holder, lastStarted>>

WriteGo(r) ==
    /\ ctl[r] = "go"
    /\ go' = go \cup {r}
    /\ CtlGoto(r, "running")
    /\ UNCHANGED <<fence, runGen, guard, closed, group, holder, lastStarted>>

\* A periodic refresh fails while the command runs: a guard is told by closing
\* the pipe and waited for, a thread is left running under the lock.
LoseRunning(r) ==
    /\ ctl[r] = "running" /\ ~Accepts(runGen[r])
    /\ closed' = closed \cup {r}
    /\ CtlGoto(r, IF Shell(r) THEN "fenceLost" ELSE "lost")
    /\ UNCHANGED <<fence, runGen, guard, go, group, holder, lastStarted>>

\* The ten minute timeout, SIGINT or SIGTERM.
Interrupt(r) ==
    /\ ctl[r] = "running" /\ Shell(r)
    /\ closed' = closed \cup {r}
    /\ CtlGoto(r, "interrupted")
    /\ UNCHANGED <<fence, runGen, guard, go, group, holder, lastStarted>>

\* The guard exited: after a stop the run returns what stopped it, otherwise
\* a last refresh decides whether the result may be used.
Finish(r) ==
    /\ ctl[r] \in {"running", "interrupted", "fenceLost"} /\ guard[r] = "exited"
    /\ CtlGoto(r, IF ctl[r] = "interrupted" \/ (ctl[r] = "running" /\ Accepts(runGen[r]))
               THEN "returned" ELSE "lost")
    /\ UNCHANGED <<fence, runGen, guard, closed, go, group, holder, lastStarted>>

\* kill_on_drop.  The group is not the guard's own and outlives it.
KillGuard(r) ==
    /\ ctl[r] = "dropping"
    /\ GuardExit(r)
    /\ CtlGoto(r, "lost")
    /\ UNCHANGED <<fence, runGen, closed, go, group, lastStarted>>

\* The future is dropped.
Cancel(r) ==
    /\ r \in Cancellable
    /\ ctl[r] \in {"waiting", "ready", "go", "running", "interrupted", "fenceLost"}
    /\ Drop(r)
    /\ UNCHANGED <<fence, runGen, guard, go, group, holder, lastStarted>>

\* The controller's process dies, and its threads with it.
CrashController(r) ==
    /\ ctl[r] \notin {"idle", "returned", "lost"}
    /\ closed' = closed \cup {r}
    /\ CtlGoto(r, "lost")
    /\ IF Shell(r) \/ guard[r] = "none"
       THEN UNCHANGED <<guard, group, holder>>
       ELSE /\ GuardExit(r)
            /\ group' = [group EXCEPT ![r] = "gone"]
    /\ UNCHANGED <<fence, runGen, go, lastStarted>>

-----------------------------------------------------------------------------
(* The guard: supervise, or with_mutation_lock_authorized in a thread. *)

\* flock(LOCK_EX) returns and readiness is reported.
TakeLock(r) ==
    /\ guard[r] = "locking" /\ holder = NoOwner
    /\ holder' = r
    /\ guard' = [guard EXCEPT ![r] = "ready"]
    /\ UNCHANGED <<fence, runGen, ctl, closed, go, group, lastStarted>>

\* The go is read (also when the pipe closed behind it) and the command starts.
StartCommand(r) ==
    /\ guard[r] = "ready" /\ r \in go
    /\ guard' = [guard EXCEPT ![r] = "supervising"]
    /\ group' = [group EXCEPT ![r] = "running"]
    /\ lastStarted' = runGen[r]
    /\ UNCHANGED <<fence, runGen, ctl, closed, go, holder>>

\* Mutant: a guard without a go exits only once its controller has returned.
GiveUpLate(r) ==
    /\ guard[r] = "ready" /\ r \notin go /\ r \in closed /\ ctl[r] = "returned"
    /\ GuardExit(r)
    /\ UNCHANGED <<fence, runGen, ctl, closed, go, group, lastStarted>>

\* End of file in place of the go.
GiveUp(r) ==
    /\ guard[r] = "ready" /\ r \notin go /\ r \in closed
    /\ GuardExit(r)
    /\ UNCHANGED <<fence, runGen, ctl, closed, go, group, lastStarted>>

\* The shell exits, with or without descendants left in its group.
CommandExits(r) ==
    /\ Shell(r) /\ group[r] = "running"
    /\ \E after \in {"leftover", "gone"} : group' = [group EXCEPT ![r] = after]
    /\ UNCHANGED <<fence, runGen, ctl, guard, closed, go, holder, lastStarted>>

\* In-process work returns; its thread releases the lock.
WorkReturns(r) ==
    /\ ~Shell(r) /\ guard[r] = "supervising"
    /\ group' = [group EXCEPT ![r] = "gone"]
    /\ GuardExit(r)
    /\ UNCHANGED <<fence, runGen, ctl, closed, go, lastStarted>>

\* Mutant: supervise waits for the child only.
IgnoreClosed(r) ==
    /\ Shell(r) /\ guard[r] = "supervising"
    /\ group[r] # "running"
    /\ guard' = [guard EXCEPT ![r] = "cleaning"]
    /\ UNCHANGED <<fence, runGen, ctl, closed, go, group, holder, lastStarted>>

\* The select of supervise: the child has been reaped, or the pipe is closed.
StopSupervising(r) ==
    /\ Shell(r) /\ guard[r] = "supervising"
    /\ group[r] # "running" \/ r \in closed
    /\ guard' = [guard EXCEPT ![r] = "cleaning"]
    /\ UNCHANGED <<fence, runGen, ctl, closed, go, group, holder, lastStarted>>

\* SIGKILL to the whole group.
KillGroup(r) ==
    /\ guard[r] = "cleaning"
    /\ guard' = [guard EXCEPT ![r] = "reaping"]
    /\ group' = [group EXCEPT ![r] = IF group[r] = "gone" THEN "gone" ELSE "killed"]
    /\ UNCHANGED <<fence, runGen, ctl, closed, go, holder, lastStarted>>

GroupDies(r) ==
    /\ group[r] = "killed"
    /\ group' = [group EXCEPT ![r] = "gone"]
    /\ UNCHANGED <<fence, runGen, ctl, guard, closed, go, holder, lastStarted>>

\* Mutant: the guard does not wait for the group it killed.
ExitUnreaped(r) ==
    /\ guard[r] = "reaping"
    /\ GuardExit(r)
    /\ UNCHANGED <<fence, runGen, ctl, closed, go, group, lastStarted>>

\* wait_for_process_group_exit, then the guard exits.
ExitReaped(r) ==
    /\ guard[r] = "reaping" /\ group[r] = "gone"
    /\ GuardExit(r)
    /\ UNCHANGED <<fence, runGen, ctl, closed, go, group, lastStarted>>

-----------------------------------------------------------------------------

LapseLease == Lapse /\ UNCHANGED <<runGen, ctl, guard, closed, go, group, holder, lastStarted>>

GuardInit ==
    /\ FenceInit
    /\ runGen = [r \in Runs |-> 0]
    /\ ctl = [r \in Runs |-> "idle"]
    /\ guard = [r \in Runs |-> "none"]
    /\ closed = {} /\ go = {}
    /\ group = [r \in Runs |-> "none"]
    /\ holder = NoOwner
    /\ lastStarted = 0

\* What a live controller, a guard and the kernel do by themselves.
ControllerStep(r) ==
    \/ Start(r) \/ LoseWaiting(r) \/ ReadReady(r) \/ RefreshUnderLock(r) \/ WriteGo(r)
    \/ LoseRunning(r) \/ Interrupt(r) \/ Finish(r) \/ KillGuard(r)

GuardStep(r) ==
    \/ TakeLock(r) \/ StartCommand(r) \/ GiveUp(r) \/ WorkReturns(r)
    \/ StopSupervising(r) \/ KillGroup(r) \/ GroupDies(r) \/ ExitReaped(r)

GuardNext ==
    \/ \E r \in Runs : \/ Claim(r) \/ Continue(r) \/ Cancel(r) \/ CrashController(r)
                       \/ ControllerStep(r) \/ GuardStep(r) \/ CommandExits(r)
    \/ LapseLease

Safety == GuardInit /\ [][GuardNext]_guardVars

\* A controller that has not crashed, a guard and the kernel go on; the timer
\* of a running command expires.  Nothing obliges a command to exit by itself,
\* a lease to lapse, or anybody to crash or cancel.  In-process work returns.
Fairness == \A r \in Runs : WF_guardVars(ControllerStep(r)) /\ WF_guardVars(GuardStep(r))

GuardSpec == Safety /\ Fairness
-----------------------------------------------------------------------------
(* Properties. *)

\* "A local supervisor holds the process fence while mutation commands" run:
\* nothing of a command outlives the lock it was started under, through
\* crashes, timeouts, a lost lease and descendants that outlive the shell.
LockCoversCommand == \A r \in Runs : Mutating(r) => holder = r

\* Commands start in generation order: a run that queued on the lock while its
\* lease was taken over never starts after its replacement did.
StartsInOrder == [][lastStarted' >= lastStarted]_guardVars

\* Every run ends, whoever dies: a waiter gets the lock or learns that its
\* lease is gone, a command that hangs meets the timeout.
EveryRunEnds == \A r \in Runs : ctl[r] = "start" ~> ctl[r] \in {"returned", "lost"}

\* The mutation lock of a controller that is gone is released.
LockIsFreed == \A r \in Runs : holder = r /\ r \in closed ~> holder # r
=============================================================================
