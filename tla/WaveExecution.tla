---------------------------- MODULE WaveExecution ----------------------------
(***************************************************************************)
(* Rollout waves: a wave upgrades the environments of a cohort one after   *)
(* the other, each by a plan of its own, and may be stopped, resumed and   *)
(* rolled back.  Its record is kept under a fenced lease.  Environments    *)
(* are replicas of topologies that must keep a minimum of them available,  *)
(* so a wave takes the lease of every topology it touches, in name order,  *)
(* and checks the minimum under it before it changes a replica.            *)
(*                                                                         *)
(* A controller is a process that runs one command at a time on one wave:  *)
(* start, advance, stop or rollback.  It works on a copy of the record and *)
(* persists it under the wave lease.  A controller crashes anywhere; a     *)
(* lease lapses two hours after its last refresh, which happens to a       *)
(* controller that crashed, or to one that is stalled for as long.  What a *)
(* command does from its claim of the wave to its first persist is one     *)
(* step: only the wave's holder changes the record, and a persist after    *)
(* the lease was lost changes nothing.  So is the end of an execution with *)
(* the persist that follows, or the crash or lapse that prevents it.       *)
(*                                                                         *)
(* A plan is executed as PlanExecution specifies: under the environment    *)
(* lease, one at a time in an environment, and with the wave's and the     *)
(* topologies' leases validated before every command.  Here an execution   *)
(* is its begin, which takes the replica down, and its end.                *)
(* The waves are of one product and every plan changes its replica.        *)
(***************************************************************************)
EXTENDS Integers, FiniteSets, Sequences

CONSTANTS
    NumWaves,       \* the waves of the product, in the order of their releases
    Controllers,    \* processes that run wave commands
    Nobody,         \* no controller
    Envs,           \* the environments, each a replica of every topology
    Cohort,         \* the environments of each wave, in order
    StopOnFailure,  \* waves whose fail policy is stop_on_failure
    NumTopologies,  \* topologies, numbered in the order of their names
    Touched,        \* the topologies a wave's releases declare
    Minimum,        \* min_available of every topology
    Reversible,     \* bound: the waves that are stopped and rolled back
    MaxFaults       \* bound: crashes, stalls and lost answers

Waves == 1..NumWaves
Topologies == 1..NumTopologies

ASSUME WaveAssumption ==
    /\ Nobody \notin Controllers /\ NumWaves \in Nat \ {0}
    /\ IsFiniteSet(Envs)
    /\ Cohort \in [Waves -> Seq(Envs)]
    /\ StopOnFailure \subseteq Waves /\ Reversible \subseteq Waves
    /\ NumTopologies \in Nat
    /\ Touched \in [Waves -> SUBSET Topologies]
    /\ Minimum \in Nat /\ Minimum < Cardinality(Envs)
    /\ MaxFaults \in Nat

VARIABLES
    head,       \* the wave whose release the channel names
    wave,       \* the stored record of each wave
    plan,       \* the stored state of the plans of each wave's environments
    lease,      \* who holds each wave's lease
    top,        \* who holds each topology's lease
    health,     \* environments whose deployment_health is healthy
    up,         \* environments whose product really runs
    pc,         \* where each controller is
    job,        \* what it remembers
    executor,   \* the controller that executes a plan in each environment
    faults,     \* faults so far
    asked,      \* history: waves that were asked to roll back
    misrecorded \* history: environments recovery left healthy on record and down

stored == <<head, wave, plan>>
replicas == <<health, up, executor>>
history == <<asked, misrecorded>>
vars == <<head, wave, plan, lease, top, health, up, pc, job, executor, faults, asked, misrecorded>>

Order(w) == DOMAIN Cohort[w]
Started == {"running", "succeeded", "failed"}
PlanStates == Started \cup {"none", "computed", "blocked"}
Ended == {"succeeded", "failed", "blocked"}

\* The plans of an environment of a wave: its upgrade, its rollback, and one more
\* rollback, made when the first could not be loaded (bound: no third is made).
\* A history marks an upgrade that could not be loaded when its execution had
\* returned an error.
Rollbacks == {"rollback", "again"}
Kinds == {"upgrade"} \cup Rollbacks
PlansOfOne == [upgrade : PlanStates, rollback : PlanStates, again : PlanStates,
               outcome : {"read", "unread"}]
NoPlans == [upgrade |-> "none", rollback |-> "none", again |-> "none", outcome |-> "read"]

WaveTerminal == {"Succeeded", "Failed", "RolledBack", "RecoveryRequired"}
WaveStatus == WaveTerminal \cup {"Absent", "Admitted", "Running", "AwaitingApproval", "Stopped",
                                 "RollingBack"}
Complete == {"Succeeded", "Failed", "Blocked", "Skipped", "RolledBack"}
Pending == {"Unstarted", "AwaitingApproval", "Running"}

\* An environment of a wave: its status and the plan its record names.
Entries == [status : Complete \cup Pending, plan : {"none"} \cup Kinds]
Records(w) == [status : WaveStatus, envs : [Order(w) -> Entries]]
NoRecord(w) == [status |-> "Absent",
                envs |-> [p \in Order(w) |-> [status |-> "Unstarted", plan |-> "none"]]]

\* The wave, its record as the controller has it, the positions still to roll
\* back, and the topology leases it holds.
NoJob == [wave |-> 1, rec |-> NoRecord(1), todo |-> {}, held |-> {}]

Advancing == {"topology", "begin", "executing"}
Reversing == {"next", "topologyBack", "executingBack"}
Pcs == Advancing \cup Reversing \cup {"idle", "dead"}
Executing == {"executing", "executingBack"}

First(s) == CHOOSE p \in s : \A q \in s : p <= q
Last(s) == CHOOSE p \in s : \A q \in s : p >= q
PendingAt(r) == {p \in DOMAIN r.envs : r.envs[p].status \in Pending}

\* The position a controller works on: the first pending one, or the last one
\* still to roll back.
Wave(c) == job[c].wave
Rec(c) == job[c].rec
Back(c) == pc[c] \in Reversing
At(c) == IF Back(c) THEN Last(job[c].todo) ELSE First(PendingAt(Rec(c)))
Env(c) == Cohort[Wave(c)][At(c)]

\* Every variable has its type; an executor is a controller that executes there.
TypeOK ==
    /\ head \in 0..NumWaves
    /\ \A w \in Waves : wave[w] \in Records(w)
    /\ \A w \in Waves : plan[w] \in [Order(w) -> PlansOfOne]
    /\ lease \in [Waves -> Controllers \cup {Nobody}]
    /\ top \in [Topologies -> Controllers \cup {Nobody}]
    /\ health \in SUBSET Envs /\ up \in SUBSET Envs
    /\ pc \in [Controllers -> Pcs]
    /\ \A c \in Controllers :
          /\ job[c].wave \in Waves
          /\ job[c].rec \in Records(job[c].wave)
          /\ job[c].todo \subseteq Order(job[c].wave)
          /\ job[c].held \subseteq Touched[job[c].wave]
          /\ job[c].held # {} => pc[c] \notin {"idle", "dead", "next"}
    /\ executor \in [Envs -> Controllers \cup {Nobody}]
    /\ \A e \in Envs : executor[e] # Nobody =>
          pc[executor[e]] \in Executing /\ e = Env(executor[e])
    /\ faults \in 0..MaxFaults
    /\ asked \in SUBSET Waves /\ misrecorded \in SUBSET Envs

Init ==
    /\ head = 0
    /\ wave = [w \in Waves |-> NoRecord(w)]
    /\ plan = [w \in Waves |-> [p \in Order(w) |-> NoPlans]]
    /\ lease = [w \in Waves |-> Nobody] /\ top = [t \in Topologies |-> Nobody]
    /\ health = Envs /\ up = Envs
    /\ pc = [c \in Controllers |-> "idle"] /\ job = [c \in Controllers |-> NoJob]
    /\ executor = [e \in Envs |-> Nobody]
    /\ faults = 0 /\ asked = {} /\ misrecorded = {}

-----------------------------------------------------------------------------
(* What a controller reads and how it moves. *)

Free(w) == lease[w] = Nobody
Entry(c) == Rec(c).envs[At(c)]
Kind(c) == IF Back(c) THEN Entry(c).plan ELSE "upgrade"
PlanOf(c) == plan[Wave(c)][At(c)][Kind(c)]
Named(c) == plan[Wave(c)][At(c)][Entry(c).plan]

Goto(c, next) == pc' = [pc EXCEPT ![c] = next]
Fault == faults < MaxFaults /\ faults' = faults + 1

\* The controller still holds the wave lease and every topology lease it took.
HoldsWave(c) == lease[Wave(c)] = c
HoldsAll(c) == HoldsWave(c) /\ \A t \in job[c].held : top[t] = c

\* finish_wave_lease: the command ends and the wave lease is released.
End(c) ==
    /\ Goto(c, "idle")
    /\ job' = [job EXCEPT ![c] = NoJob]
    /\ lease' = IF HoldsWave(c) THEN [lease EXCEPT ![Wave(c)] = Nobody] ELSE lease

\* release_topology_leases: best effort, a lapsed lease is left alone.
ReleaseTopologies(c) ==
    top' = [t \in Topologies |-> IF t \in job[c].held /\ top[t] = c THEN Nobody ELSE top[t]]

\* Mutant: the record is written whoever holds the wave.
FencedByNothing(c) == TRUE

\* refresh_lease and guarded_update accept the controller's token.
Fenced(c) == HoldsWave(c)

\* The record is persisted under the lease, and the command goes on or ends.
\* A stale controller fails at the refresh and ends.
Persist(c, r, next, todo) ==
    IF ~Fenced(c) THEN End(c) /\ UNCHANGED wave
    ELSE /\ wave' = [wave EXCEPT ![Wave(c)] = r]
         /\ IF next = "end" THEN End(c)
            ELSE /\ Goto(c, next) /\ UNCHANGED lease
                 /\ job' = [job EXCEPT ![c].rec = r, ![c].todo = todo, ![c].held = {}]

With(r, status, p, entry) == [status |-> status, envs |-> [r.envs EXCEPT ![p] = entry]]
EntryStatus(r, p, s) == [r.envs[p] EXCEPT !.status = s]

-----------------------------------------------------------------------------
(* The verdict on an environment and on the wave. *)

Verdict(state) == CASE state = "succeeded" -> "Succeeded"
                    [] state = "failed" -> "Failed"
                    [] state = "blocked" -> "Blocked"

AllComplete(r) == \A p \in DOMAIN r.envs : r.envs[p].status \in Complete
Has(r, statuses) == \E p \in DOMAIN r.envs : r.envs[p].status \in statuses

\* Mutant: a failed environment leaves the later ones to be started.
FailPolicyGoesOn(w, r, p) == [r EXCEPT !.status = "Running"]

\* apply_fail_policy
FailPolicy(w, r, p) ==
    IF w \in StopOnFailure
    THEN [status |-> "Failed",
          envs |-> [q \in DOMAIN r.envs |->
                       IF q > p /\ r.envs[q].status = "Unstarted"
                       THEN EntryStatus(r, q, "Skipped") ELSE r.envs[q]]]
    ELSE [r EXCEPT !.status = IF AllComplete(r) THEN "Failed" ELSE "Running"]

\* refresh_wave_status
Refreshed(r) ==
    [r EXCEPT !.status =
        IF @ \in {"Stopped", "RolledBack", "RecoveryRequired"} THEN @
        ELSE IF Has(r, {"AwaitingApproval"}) THEN "AwaitingApproval"
        ELSE IF ~AllComplete(r) THEN "Running"
        ELSE IF Has(r, {"Failed", "Blocked"}) THEN "Failed" ELSE "Succeeded"]

\* The record after the plan of position p ended.
Settled(w, r, p, state) ==
    LET s == With(r, r.status, p, EntryStatus(r, p, Verdict(state))) IN
    IF state = "succeeded" THEN Refreshed(s) ELSE FailPolicy(w, s, p)

-----------------------------------------------------------------------------
(* Commands. *)

\* claim_wave_lease: any live lease is refused.  The record is loaded under it.
Claim(c, w, r, next, todo) ==
    /\ lease' = [lease EXCEPT ![w] = c]
    /\ wave' = [wave EXCEPT ![w] = r]
    /\ Goto(c, next)
    /\ job' = [job EXCEPT ![c] = [NoJob EXCEPT !.wave = w, !.rec = r, !.todo = todo]]

\* A command that only changes the record.
Edit(w, r) ==
    /\ Free(w)
    /\ wave' = [wave EXCEPT ![w] = r]
    /\ UNCHANGED <<head, plan, lease, top, replicas, pc, job, faults, history>>

\* The channel is moved on to the release of the next wave, and the wave is
\* admitted (admit_locked): its record is created once.
Admit(w) ==
    /\ w = head + 1 /\ Free(w)
    /\ head' = w
    /\ wave' = [wave EXCEPT ![w].status = "Admitted"]
    /\ UNCHANGED <<plan, lease, top, replicas, pc, job, faults, history>>

\* stop_wave
Stop(w) ==
    /\ w \in Reversible
    /\ wave[w].status \notin WaveTerminal \cup {"Absent"}
    /\ Edit(w, [wave[w] EXCEPT !.status = "Stopped"])

\* A wave whose advance goes on: it is not terminal, and runs again if stopped.
Active(w) == wave[w].status \notin WaveTerminal \cup {"Absent", "Stopped"}

\* advance_locked: a stopped wave is running again; one with nothing pending
\* gets its verdict.
Resume(w) == wave[w].status = "Stopped" /\ Edit(w, [wave[w] EXCEPT !.status = "Running"])
Conclude(w) == Active(w) /\ PendingAt(wave[w]) = {} /\ Edit(w, Refreshed(wave[w]))

\* A running plan is left for the environment's reconciliation.
Unclear(w, r, p) == With(r, "RecoveryRequired", p, EntryStatus(r, p, "Running"))

\* resume_existing_plan
ResumePlan(w) ==
    /\ Active(w) /\ PendingAt(wave[w]) # {}
    /\ LET p == First(PendingAt(wave[w]))
           kind == wave[w].envs[p].plan
       IN  /\ kind # "none"
           /\ \/ /\ plan[w][p][kind] \in Ended
                 /\ Edit(w, Settled(w, wave[w], p, plan[w][p][kind]))
              \/ /\ plan[w][p][kind] = "running"
                 /\ Edit(w, Unclear(w, wave[w], p))

\* revalidate_environment: the channel still names the release and nobody
\* applies to the environment.
Revalidated(w, p) == head = w /\ executor[Cohort[w][p]] = Nobody

\* The first pending environment is upgraded.  A new plan is made and recorded
\* before it is approved; a computed one is used again; a rollback plan that
\* is pending is refused.
Advance(c, w) ==
    /\ pc[c] = "idle" /\ Free(w)
    /\ Active(w) /\ PendingAt(wave[w]) # {}
    /\ LET p == First(PendingAt(wave[w]))
           entry == wave[w].envs[p]
       IN  /\ Revalidated(w, p)
           /\ \/ /\ entry.plan = "none"
                 /\ plan' = [plan EXCEPT ![w][p].upgrade = "computed"]
                 /\ Claim(c, w, With(wave[w], wave[w].status, p,
                                    [status |-> "AwaitingApproval", plan |-> "upgrade"]),
                          "topology", {})
              \/ /\ entry.plan = "upgrade" /\ plan[w][p].upgrade = "computed"
                 /\ Claim(c, w, wave[w], "topology", {})
                 /\ UNCHANGED plan
    /\ UNCHANGED <<head, top, replicas, faults, history>>

\* The record with a new status of the wave and of the position at hand.
On(c, status, s) == With(Rec(c), status, At(c), EntryStatus(Rec(c), At(c), s))

Claiming == {"topology", "topologyBack"}

\* A check, the approval or the store refuses: the command ends with an error.
Refuse(c) ==
    /\ pc[c] = "next" \/ (pc[c] \in Claiming /\ job[c].held = {})
    /\ End(c)
    /\ UNCHANGED <<stored, top, replicas, faults, history>>

\* Without a signed approval of the plan the wave waits for it.
AwaitApproval(c) ==
    /\ pc[c] \in Claiming /\ job[c].held = {}
    /\ Persist(c, On(c, "AwaitingApproval", "AwaitingApproval"), "end", {})
    /\ UNCHANGED <<head, plan, top, replicas, faults, history>>

-----------------------------------------------------------------------------
(* claim_topology_leases *)

RunningIn(e) ==
    \E w \in Waves : \E p \in Order(w) :
       Cohort[w][p] = e /\ \E kind \in Kinds : plan[w][p][kind] = "running"
Available == {e \in health : ~RunningIn(e)}

\* Mutant: a replica counts as available while a plan changes it.
SparesHealthy(e) == e \in health => Cardinality(health \ {e}) >= Minimum

\* check_availability: a replica that does not serve may always be changed.
Spares(e) == e \in health => Cardinality(Available \ {e}) >= Minimum

\* Mutant: each wave begins with another topology.
WantedInAnyOrder(c) == LET left == Touched[Wave(c)] \ job[c].held
                       IN  IF Back(c) THEN Last(left) ELSE First(left)

\* The topology whose lease comes next.
Wanted(c) == First(Touched[Wave(c)] \ job[c].held)

\* The next lease is taken and the minimum is checked under it; when either
\* fails all are released.
TakeTopology(c) ==
    /\ pc[c] \in Claiming /\ job[c].held # Touched[Wave(c)]
    /\ IF top[Wanted(c)] = Nobody /\ Spares(Env(c))
       THEN /\ top' = [top EXCEPT ![Wanted(c)] = c]
            /\ job' = [job EXCEPT ![c].held = @ \cup {Wanted(c)}]
            /\ UNCHANGED <<pc, lease>>
       ELSE ReleaseTopologies(c) /\ End(c)
    /\ UNCHANGED <<stored, replicas, faults, history>>

\* All are held, and an upgrade is recorded as running before it begins.
Mark(c) ==
    /\ pc[c] = "topology" /\ job[c].held = Touched[Wave(c)]
    /\ IF Fenced(c)
       THEN /\ wave' = [wave EXCEPT ![Wave(c)] = On(c, "Running", "Running")]
            /\ job' = [job EXCEPT ![c].rec = On(c, "Running", "Running")]
            /\ Goto(c, "begin") /\ UNCHANGED <<top, lease>>
       ELSE ReleaseTopologies(c) /\ End(c) /\ UNCHANGED wave
    /\ UNCHANGED <<head, plan, replicas, faults, history>>

-----------------------------------------------------------------------------
(* The execution of the plan. *)

SetPlan(c, state) == plan' = [plan EXCEPT ![Wave(c)][At(c)][Kind(c)] = state]
Rest(c) == job[c].todo \ {At(c)}

\* capture_plan_evidence, or record_execute_error when the execution returned an
\* error and the plan can be loaded.
SettleUpgrade(c, state, ok) ==
    Persist(c, IF state = "running" \/ (state = "succeeded" /\ ~ok)
               THEN On(c, "RecoveryRequired", "Running")
               ELSE IF state = "computed" THEN On(c, "AwaitingApproval", "AwaitingApproval")
               ELSE Settled(Wave(c), Rec(c), At(c), state), "end", {})

\* The same of a rollback plan, in rollback_locked.
SettleRollback(c, state, ok) ==
    IF ~ok THEN Persist(c, [Rec(c) EXCEPT !.status = "RecoveryRequired"], "end", {})
    ELSE IF state = "succeeded" THEN Persist(c, On(c, Rec(c).status, "RolledBack"), "next", Rest(c))
    ELSE Persist(c, On(c, "RecoveryRequired", Verdict(state)), "end", {})

\* The execution returned: the topologies are released and the record is
\* persisted.
Settle(c, state, ok) ==
    /\ ReleaseTopologies(c)
    /\ IF Back(c) THEN SettleRollback(c, state, ok) ELSE SettleUpgrade(c, state, ok)

\* record_execute_error when the plan cannot be loaded: the upgrade is recorded
\* as awaiting its approval, whatever became of it.
Unread(c, state) ==
    /\ ~Back(c) /\ Fault
    /\ plan' = [plan EXCEPT ![Wave(c)][At(c)] =
                  [@ EXCEPT !.upgrade = state, !.outcome = "unread"]]
    /\ ReleaseTopologies(c)
    /\ Persist(c, On(c, "AwaitingApproval", "AwaitingApproval"), "end", {})

\* The process ends; its leases are left.
Die(c) == Goto(c, "dead") /\ job' = [job EXCEPT ![c] = NoJob]

\* The plan ended.  The controller settles it, or crashes before it does (a
\* load that fails in capture_plan_evidence leaves the same record), or has an
\* error for an answer and cannot load the plan.
Ends(c, state) ==
    \/ /\ SetPlan(c, state)
       /\ \/ Settle(c, state, TRUE) /\ UNCHANGED faults
          \/ Fault /\ Die(c) /\ UNCHANGED <<wave, lease, top>>
    \/ Unread(c, state)

\* Everything is ready for execute_plan.
Ready(c) == pc[c] = "begin" \/ (pc[c] = "topologyBack" /\ job[c].held = Touched[Wave(c)])

\* The execution is refused (the plan is not to be run, another apply holds the
\* environment, the approval expired), or blocked by a gate, or a lost lease is
\* noticed before the first command.
NotExecuted(c) ==
    /\ Ready(c)
    /\ \/ Settle(c, PlanOf(c), FALSE) /\ UNCHANGED <<plan, faults>>
       \/ Unread(c, PlanOf(c))
       \/ /\ PlanOf(c) \in {"computed", "blocked"} /\ executor[Env(c)] = Nobody
          /\ \/ Ends(c, "blocked")
             \/ /\ ~HoldsAll(c)
                /\ \/ SetPlan(c, "running") /\ Settle(c, "running", FALSE) /\ UNCHANGED faults
                   \/ Unread(c, "running")
    /\ UNCHANGED <<head, replicas, history>>

\* refresh_environment_lease: every held lease is validated in one transaction.
Validates(c) == HoldsAll(c)

\* The environment lease is taken, the plan is running and its first command
\* takes the replica down.
Execute(c) ==
    /\ Ready(c) /\ Validates(c)
    /\ PlanOf(c) \in {"computed", "blocked"} /\ executor[Env(c)] = Nobody
    /\ SetPlan(c, "running")
    /\ executor' = [executor EXCEPT ![Env(c)] = c]
    /\ up' = up \ {Env(c)} /\ misrecorded' = misrecorded \ {Env(c)}
    /\ Goto(c, IF Back(c) THEN "executingBack" ELSE "executing")
    /\ UNCHANGED <<head, wave, lease, top, health, job, faults, asked>>

\* The plan ends: the replica runs its new release; or it failed and the old
\* one was restored; or its state is unknown.  The answer of an execution that
\* succeeded may be an error.
EndExecution(c) ==
    /\ pc[c] \in Executing /\ Validates(c)
    /\ executor' = [executor EXCEPT ![Env(c)] = Nobody]
    /\ \/ /\ health' = health \cup {Env(c)} /\ up' = up \cup {Env(c)}
          /\ \/ Ends(c, "succeeded")
             \/ Fault /\ SetPlan(c, "succeeded") /\ Settle(c, "succeeded", FALSE)
       \/ Ends(c, "failed") /\ up' = up \cup {Env(c)} /\ UNCHANGED health
       \/ Ends(c, "failed") /\ health' = health \ {Env(c)} /\ UNCHANGED up
    /\ UNCHANGED <<head, history>>

\* A lease is lost: the command is killed and the plan is left running.
FenceLost(c) ==
    /\ pc[c] \in Executing /\ ~Validates(c)
    /\ executor' = [executor EXCEPT ![Env(c)] = Nobody]
    /\ \/ Settle(c, "running", FALSE) /\ UNCHANGED <<plan, faults>>
       \/ Unread(c, "running")
    /\ UNCHANGED <<head, health, up, history>>

-----------------------------------------------------------------------------
(* rollback_locked: the environments that succeeded, the last one first. *)

RollBack(c, w) ==
    /\ pc[c] = "idle" /\ Free(w) /\ w \in Reversible
    /\ wave[w].status \notin {"Absent", "RolledBack"}
    /\ Claim(c, w, [wave[w] EXCEPT !.status = "RollingBack"], "next",
             {p \in Order(w) : wave[w].envs[p].status \in {"Succeeded", "AwaitingApproval"}})
    /\ asked' = asked \cup {w}
    /\ UNCHANGED <<head, plan, top, replicas, faults, misrecorded>>

Target(c) == pc[c] = "next" /\ job[c].todo # {}

\* The plan an entry that succeeded names is no rollback plan, or cannot be
\* loaded.
NoneLoaded(c) ==
    /\ Entry(c).status = "Succeeded"
    /\ \/ Entry(c).plan = "upgrade" /\ UNCHANGED faults
       \/ Entry(c).plan \in Rollbacks /\ Fault

\* Targets that need no execution: an upgrade that waits, as the record has it,
\* is skipped; a rollback that succeeded is recorded; one that is running or
\* failed, or cannot be planned, stops the command.
SettleTarget(c) ==
    /\ Target(c)
    /\ \/ /\ Entry(c).status = "AwaitingApproval" /\ Entry(c).plan = "upgrade"
          /\ Persist(c, On(c, Rec(c).status, "Skipped"), "next", Rest(c))
          /\ UNCHANGED faults
       \/ /\ Entry(c).status = "Succeeded" /\ Entry(c).plan \in Rollbacks
          /\ Named(c) = "succeeded"
          /\ Persist(c, On(c, Rec(c).status, "RolledBack"), "next", Rest(c))
          /\ UNCHANGED faults
       \/ /\ \/ /\ Entry(c).status = "Succeeded" /\ Entry(c).plan \in Rollbacks
                /\ Named(c) \in {"running", "failed"} /\ UNCHANGED faults
             \/ NoneLoaded(c)
          /\ Persist(c, [Rec(c) EXCEPT !.status = "RecoveryRequired"], "end", {})
    /\ UNCHANGED <<head, plan, top, replicas, history>>

\* A rollback plan is made, also where there is one that cannot be loaded; or
\* the one already made is taken up.
MakeRollback(c) ==
    /\ Target(c)
    /\ \/ /\ NoneLoaded(c) /\ Entry(c).plan # "again"
          /\ LET kind == IF Entry(c).plan = "upgrade" THEN "rollback" ELSE "again"
             IN  /\ plan' = [plan EXCEPT ![Wave(c)][At(c)][kind] =
                                IF Fenced(c) THEN "computed" ELSE @]
                 /\ Persist(c, With(Rec(c), Rec(c).status, At(c),
                                    [status |-> "Succeeded", plan |-> kind]),
                            "topologyBack", job[c].todo)
       \/ /\ Entry(c).plan \in Rollbacks
          /\ Entry(c).status = "AwaitingApproval" \/ Named(c) \in {"computed", "blocked"}
          /\ Goto(c, "topologyBack")
          /\ UNCHANGED <<wave, plan, lease, job, faults>>
    /\ UNCHANGED <<head, top, replicas, history>>

\* Every target is done.
RolledBack(c) ==
    /\ pc[c] = "next" /\ job[c].todo = {}
    /\ Persist(c, [Rec(c) EXCEPT !.status = "RolledBack"], "end", {})
    /\ UNCHANGED <<head, plan, top, replicas, faults, history>>

-----------------------------------------------------------------------------
(* The surroundings. *)

\* The controller's process ends; a guard kills its command (FencedMutation).
Crash(c) ==
    /\ pc[c] \notin {"idle", "dead"} /\ Fault
    /\ Die(c)
    /\ executor' = [e \in Envs |-> IF executor[e] = c THEN Nobody ELSE executor[e]]
    /\ UNCHANGED <<stored, lease, top, health, up, history>>

Unheld(holder, keys) == [k \in DOMAIN holder |-> IF k \in keys THEN Nobody ELSE holder[k]]
WavesOf(c) == {w \in Waves : lease[w] = c}
TopologiesOf(c) == {t \in Topologies : top[t] = c}

\* The leases a crashed controller left lapse; another process may take its
\* place.
Expire(c) ==
    /\ pc[c] = "dead"
    /\ lease' = Unheld(lease, WavesOf(c)) /\ top' = Unheld(top, TopologiesOf(c))
    /\ Goto(c, "idle")
    /\ UNCHANGED <<stored, replicas, job, faults, history>>

\* A controller is stalled for longer than its leases last: the wave's, the
\* topologies', which were refreshed together, or both.
Stall(c) ==
    /\ pc[c] \notin {"idle", "dead"} /\ Fault
    /\ \E ws \in {{}, WavesOf(c)}, ts \in {{}, TopologiesOf(c)} :
          /\ ws # {} \/ ts # {}
          /\ lease' = Unheld(lease, ws) /\ top' = Unheld(top, ts)
    /\ UNCHANGED <<stored, replicas, pc, job, history>>

\* The environment's reconciler fails a plan that was left running.
Recover(w, p, kind) ==
    /\ plan[w][p][kind] = "running" /\ executor[Cohort[w][p]] = Nobody
    /\ plan' = [plan EXCEPT ![w][p][kind] = "failed"]
    /\ misrecorded' = misrecorded \cup {e \in health \ up : ~RunningIn(e)'}
    /\ UNCHANGED <<head, wave, lease, top, replicas, pc, job, faults, asked>>

Next ==
    \/ \E w \in Waves :
         \/ Admit(w) \/ Stop(w) \/ Resume(w) \/ Conclude(w) \/ ResumePlan(w)
         \/ \E c \in Controllers : Advance(c, w) \/ RollBack(c, w)
    \/ \E c \in Controllers :
         \/ Refuse(c) \/ AwaitApproval(c) \/ TakeTopology(c) \/ Mark(c)
         \/ NotExecuted(c) \/ Execute(c) \/ EndExecution(c) \/ FenceLost(c)
         \/ SettleTarget(c) \/ MakeRollback(c) \/ RolledBack(c)
         \/ Crash(c) \/ Expire(c) \/ Stall(c)
    \/ \E w \in Waves : \E p \in Order(w), kind \in Kinds : Recover(w, p, kind)

Spec == Init /\ [][Next]_vars

-----------------------------------------------------------------------------
(* Properties. *)

\* The waves never take down more replicas than the topologies can spare,
\* whatever crashes, stalls and lapses (check_availability and
\* claim_topology_leases).  A replica that a crash left down, and that recovery
\* left healthy on record, counts: no later check can see that it is down.
MinimumKept == Cardinality(up \cup misrecorded) >= Minimum

\* Two controllers never wait for each other's topology: a lease is refused
\* only by one that can go on (the name order of claim_topology_leases).
NoCrossedClaims ==
    \A c, d \in Controllers :
       LET Blocks(a, b) == /\ pc[b] \in Claiming /\ job[b].held # Touched[Wave(b)]
                           /\ top[Wanted(b)] = a /\ Wanted(b) \in job[a].held
       IN  ~(c # d /\ Blocks(c, d) /\ Blocks(d, c))

\* An environment is upgraded only after every earlier one of its wave has a
\* plan that ended, or that the record has as blocked (a stale controller that
\* notices its loss before the first command leaves a blocked plan running), or
\* was skipped by a rollback; under stop_on_failure only after all of them succeeded.  Crashes,
\* stale controllers and a resumed wave included (ADR 0017, rule 3).
InOrder ==
    \A w \in Waves : \A p, q \in Order(w) :
       p < q /\ plan[w][q].upgrade \in Started =>
          \/ plan[w][p].upgrade = "succeeded"
          \/ /\ w \notin StopOnFailure
             /\ plan[w][p].upgrade \in Ended \/ wave[w].envs[p].status = "Blocked"
          \/ w \in asked

\* A wave that succeeded upgraded every environment, unless it was asked to
\* roll back; a wave that rolled back has undone every upgrade that succeeded,
\* except where its record shows a failed or unfinished environment, or where it
\* skipped one whose outcome a controller could not read (rollback_locked,
\* record_execute_error).
TruthfulVerdict ==
    \A w \in Waves : \A p \in Order(w) :
       /\ wave[w].status = "Succeeded" /\ w \notin asked => plan[w][p].upgrade = "succeeded"
       /\ wave[w].status = "RolledBack" /\ plan[w][p].upgrade = "succeeded" =>
             \/ "succeeded" \in {plan[w][p].rollback, plan[w][p].again}
             \/ wave[w].envs[p].status \in {"Running", "Failed", "Blocked"}
             \/ wave[w].envs[p].status = "Skipped" /\ plan[w][p].outcome = "unread"
=============================================================================
