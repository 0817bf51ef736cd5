--------------------------- MODULE RuntimeDelivery ---------------------------
(***************************************************************************)
(* How the plans of an environment are executed by its own runtime: the    *)
(* agent polls the server for work, the server grants a claim with a       *)
(* generation, the agent executes the steps under heartbeats and reports   *)
(* one completion, which the server stores and then applies to the plan    *)
(* and to the deployment record.                                           *)
(*                                                                         *)
(* An instance is one process of the agent; it makes one request at a      *)
(* time, so its program counter also stands for the handler that serves    *)
(* it.  A handler stops anywhere: its client times out and goes away, or   *)
(* the server stops.  A crashed agent's executor lives in the group of a   *)
(* guard process, which kills it when the agent's pipe closes.             *)
(*                                                                         *)
(* Time is counted in ticks of half a minute, as ages: how long ago a      *)
(* claim was renewed, how long ago an agent began its request or heartbeat *)
(* (no request lasts for more than a tick, because its client times out).  *)
(* An agent that runs an executor asks again within Beat ticks, timeouts   *)
(* included, unless the process itself is stalled.                         *)
(*                                                                         *)
(* The server may have begun the first plan before the runtime enrolled.   *)
(* EnvironmentLease shows that a runtime finds the server gone only once   *)
(* its lease is released or taken over; here that is one variable.         *)
(***************************************************************************)
EXTENDS Integers

CONSTANTS
    Instances,      \* processes of the runtime agent
    Nobody,         \* the owner of a claim nobody made
    Steady,         \* instances that are not crashed, revoked or stalled
    NumPlans,       \* plans of the environment, oldest first
    NumSteps,       \* steps of a plan; step s deploys product s
    Lifetime,       \* a claim lasts for this many ticks
    Beat,           \* an agent renews its claim after at most this many
    MaxFaults       \* bound: crashes, stalls, revocations, lost requests and refusals

Plans == 1..NumPlans
Steps == 1..NumSteps

ASSUME DeliveryAssumption ==
    /\ Nobody \notin Instances
    /\ Steady \subseteq Instances
    /\ NumPlans \in Nat \ {0} /\ NumSteps \in Nat \ {0} /\ MaxFaults \in Nat
    /\ Lifetime \in Nat /\ Beat \in Nat /\ 0 < Beat /\ Beat < Lifetime

VARIABLES
    plan,       \* the stored state of each plan
    claim,      \* the claim on each plan: owner, generation, age, completion
    record,     \* the plan whose release the environment records, per product
    target,     \* the plan whose release is installed, per product
    server,     \* whether the server still executes the first plan
    pc,         \* where each instance is
    job,        \* what an instance, or its handler, remembers
    group,      \* the process group of its executor
    revoked,    \* instances whose credential is revoked
    faults,     \* faults so far
    contested   \* history: two handlers applied one completion at once, or an
                \* executor ended under an agent that was stalled

vars == <<plan, claim, record, target, server, pc, job, group, revoked, faults, contested>>

Unreported == -1
Terminal == {"succeeded", "failed"}
PlanStates == {"absent", "computed", "running"} \cup Terminal

\* A completion is the number of steps it calls succeeded; the first that did
\* not is followed by none.
Claims == [owner : Instances \cup {Nobody}, gen : Nat, age : 0..Lifetime,
           done : {Unreported} \cup 0..NumSteps]

Records == [Steps -> 0..NumPlans]

\* The plan, its state when it was chosen, the generation granted, the steps
\* executed or reported, the record as read, ticks since the last request, and whether
\* the process or its request is stalled.
Jobs == [plan : Plans, seen : {"computed", "running"}, gen : Nat, done : 0..NumSteps,
         snap : Records, age : 0..Lifetime, stall : BOOLEAN]
NoJob == [plan |-> 1, seen |-> "computed", gen |-> 0, done |-> 0, snap |-> [s \in Steps |-> 0],
          age |-> 0, stall |-> FALSE]

\* A completion is being applied; a request is being served.
Applying == {"load", "putRunning", "read", "put"}
Serving == {"claim", "lapsed", "abandon", "validate", "store"} \cup Applying
Pcs == Serving \cup {"idle", "ready", "executing", "dead"}

\* Every variable has its type, and an executor runs for an instance that is
\* executing, or is left by one that crashed.
TypeOK ==
    /\ plan \in [Plans -> PlanStates]
    /\ claim \in [Plans -> Claims]
    /\ record \in Records /\ target \in Records
    /\ server \in {"executing", "gone"}
    /\ pc \in [Instances -> Pcs]
    /\ job \in [Instances -> Jobs]
    /\ group \in [Instances -> {"none", "alive", "orphan"}]
    /\ revoked \in SUBSET Instances
    /\ faults \in 0..MaxFaults
    /\ contested \in BOOLEAN
    /\ \A i \in Instances :
          /\ group[i] = "alive" <=> pc[i] = "executing"
          /\ group[i] = "orphan" => pc[i] = "dead"
          /\ group[i] # "none" => job[i].done < NumSteps

Live(p) == claim[p].age < Lifetime
Pending(p) == plan[p] \in {"computed", "running"}
Verdict(i) == IF job[i].done = NumSteps THEN "succeeded" ELSE "failed"
Goto(i, step) == pc' = [pc EXCEPT ![i] = step]

\* The request and the poll end; what they remembered is gone.
End(i) == Goto(i, "idle") /\ job' = [job EXCEPT ![i] = NoJob]

Fault == faults < MaxFaults /\ faults' = faults + 1

\* The agent has not asked in time: it is stalled.
Stalled(i) == job[i].age > Beat
Install(i) == [target EXCEPT ![job[i].done + 1] = job[i].plan]

\* The executor ends, with its step carried out or not.
Ends(i, outcomes) ==
    /\ group' = [group EXCEPT ![i] = "none"]
    /\ target' \in outcomes
    /\ contested' = (contested \/ Stalled(i))

\* A handler begins to apply the completion of its plan.
Apply(i) ==
    /\ Goto(i, "load")
    /\ contested' = \/ contested
                    \/ \E j \in Instances \ {i} :
                          pc[j] \in Applying /\ job[j].plan = job[i].plan

-----------------------------------------------------------------------------
(* Planning and the server's own execution. *)

\* reconcile_runtime_managed makes a plan when none is pending.
PlanNext(p) ==
    /\ plan[p] = "absent"
    /\ \A q \in Plans : q < p => plan[q] \in Terminal
    /\ plan' = [plan EXCEPT ![p] = "computed"]
    /\ UNCHANGED <<claim, record, target, server, pc, job, group, revoked, faults, contested>>

\* The server ends the plan it began before the enrollment.
ServerFinish ==
    /\ server = "executing"
    /\ server' = "gone"
    /\ \/ /\ plan' = [plan EXCEPT ![1] = "succeeded"]
          /\ record' = [s \in Steps |-> 1] /\ target' = [s \in Steps |-> 1]
       \/ /\ plan' = [plan EXCEPT ![1] = "failed"]
          /\ UNCHANGED <<record, target>>
    /\ UNCHANGED <<claim, pc, job, group, revoked, faults, contested>>

\* The server stops in the middle of it, and its lease lapses.
ServerStop ==
    /\ server = "executing"
    /\ server' = "gone"
    /\ UNCHANGED <<plan, claim, record, target, pc, job, group, revoked, faults, contested>>

-----------------------------------------------------------------------------
(* claim_work. *)

\* pending_work: the oldest plan that waits or runs; none ends the poll.
Choose(i) ==
    \E p \in Plans :
        /\ Pending(p) /\ \A q \in Plans : q < p => ~Pending(q)
        /\ job' = [job EXCEPT ![i].plan = p, ![i].seen = plan[p]]
        /\ Goto(i, "claim")

\* The agent asks for work; the credential is admitted, and the server's own
\* execution has ended (runtime_may_take_over), which it does for good.
Poll(i) ==
    /\ pc[i] = "idle" /\ i \notin revoked
    /\ server = "gone"
    /\ Choose(i)
    /\ UNCHANGED <<plan, claim, record, target, server, group, revoked, faults, contested>>

\* The owner's completion is durable: the agent reports it once more.
Replay(i) ==
    LET c == claim[job[i].plan] IN
    /\ c.done # Unreported /\ c.owner = i
    /\ job' = [job EXCEPT ![i].seen = "computed", ![i].gen = c.gen, ![i].done = c.done,
                          ![i].age = 0]
    /\ Goto(i, "validate")
    /\ UNCHANGED claim

\* The claim of another instance, live or with a completion.
Refused(i) ==
    LET c == claim[job[i].plan] IN
    /\ c.owner # i
    /\ \/ /\ c.done # Unreported
          /\ job' = [job EXCEPT ![i].seen = "computed"]
          /\ Goto(i, "lapsed")
       \/ c.done = Unreported /\ Live(job[i].plan) /\ End(i)
    /\ UNCHANGED claim

\* Mutant: a lapsed claim is replaced although its completion is stored.
GrantedOverCompletion(i) ==
    LET p == job[i].plan
        g == IF Live(p) THEN claim[p].gen ELSE claim[p].gen + 1
    IN /\ Live(p) => claim[p].owner = i /\ claim[p].done = Unreported
       /\ claim' = [claim EXCEPT ![p] = [owner |-> i, gen |-> g, age |-> 0, done |-> Unreported]]
       /\ job' = [job EXCEPT ![i].seen = "computed", ![i].gen = g]
       /\ Goto(i, IF job[i].seen = "running" THEN "abandon" ELSE "ready")

\* A live claim of this instance is extended; a lapsed one is replaced by the
\* next generation.  A plan that was running was begun by the server.
Granted(i) ==
    LET p == job[i].plan
        g == IF Live(p) THEN claim[p].gen ELSE claim[p].gen + 1
    IN /\ claim[p].done = Unreported
       /\ Live(p) => claim[p].owner = i
       /\ claim' = [claim EXCEPT ![p] = [owner |-> i, gen |-> g, age |-> 0, done |-> Unreported]]
       /\ job' = [job EXCEPT ![i].seen = "computed", ![i].gen = g]
       /\ Goto(i, IF job[i].seen = "running" THEN "abandon" ELSE "ready")

\* claim_runtime_plan, one transaction.  Work is also withheld by a delivery
\* hold or a compatibility check before it, and by topology placement after.
\* A drifted clock grants nothing; only an own completion is replayed.
Claim(i) ==
    /\ pc[i] = "claim"
    /\ \/ (Replay(i) \/ Refused(i) \/ Granted(i)) /\ UNCHANGED faults
       \/ /\ Fault
          /\ \/ Replay(i)
             \/ End(i) /\ UNCHANGED claim
    /\ UNCHANGED <<plan, record, target, server, group, revoked, contested>>

\* Mutant: what another instance reported is left to that instance.
LapsedIgnored(i) ==
    /\ pc[i] = "lapsed"
    /\ End(i)
    /\ UNCHANGED <<plan, claim, record, target, server, group, revoked, faults, contested>>

\* The completion of another instance whose claim lapsed is applied here.
Lapsed(i) ==
    /\ pc[i] = "lapsed"
    /\ \/ /\ ~Live(job[i].plan)
          /\ job' = [job EXCEPT ![i].done = claim[job[i].plan].done]
          /\ Apply(i)
       \/ Live(job[i].plan) /\ End(i) /\ UNCHANGED contested
    /\ UNCHANGED <<plan, claim, record, target, server, group, revoked, faults>>

\* The plan that the server left running is failed, not run again.
Abandon(i) ==
    /\ pc[i] = "abandon"
    /\ plan' = [plan EXCEPT ![job[i].plan] = IF @ = "running" THEN "failed" ELSE @]
    /\ End(i)
    /\ UNCHANGED <<claim, record, target, server, group, revoked, faults, contested>>

-----------------------------------------------------------------------------
(* The agent: steps under heartbeats. *)

\* renew_runtime_plan finds the row.
Renewable(i) ==
    LET c == claim[job[i].plan]
    IN c.owner = i /\ c.gen = job[i].gen /\ c.age < Lifetime /\ c.done = Unreported

\* A heartbeat that the server answers.
Renew(i) ==
    /\ i \notin revoked /\ Renewable(i)
    /\ claim' = [claim EXCEPT ![job[i].plan].age = 0]
    /\ job' = [job EXCEPT ![i].age = 0]

\* It is refused because the claim is no longer active.
Conflict(i) == i \notin revoked /\ ~Renewable(i) /\ UNCHANGED <<claim, faults>>

\* A heartbeat whose answer is an error or is lost, committed or not.
RenewFails(i) ==
    \/ i \in revoked /\ UNCHANGED <<claim, faults>>
    \/ /\ i \notin revoked /\ Fault
       /\ \/ UNCHANGED claim
          \/ Renewable(i) /\ claim' = [claim EXCEPT ![job[i].plan].age = 0]

\* A heartbeat before every step; then the guard and the executor start.  A
\* refused heartbeat ends the poll.
StartStep(i) ==
    /\ pc[i] = "ready"
    /\ \/ /\ Renew(i)
          /\ group' = [group EXCEPT ![i] = "alive"]
          /\ Goto(i, "executing")
          /\ UNCHANGED faults
       \/ (Conflict(i) \/ RenewFails(i)) /\ End(i) /\ UNCHANGED group
    /\ UNCHANGED <<plan, record, target, server, revoked, contested>>

\* The heartbeat timer of execute_step fires while the executor runs.
Heartbeat(i) ==
    /\ pc[i] = "executing"
    /\ Renew(i)
    /\ UNCHANGED <<plan, record, target, server, pc, group, revoked, faults, contested>>

\* Mutant: a heartbeat that fails lets the executor run on.
KeepRunning(i) ==
    /\ pc[i] = "executing"
    /\ Conflict(i) \/ RenewFails(i)
    /\ job' = [job EXCEPT ![i].age = 0]
    /\ UNCHANGED <<plan, record, target, server, pc, group, revoked, contested>>

\* A refused heartbeat kills the group, and the step counts as failed; after
\* any other failure the group is killed and the poll ends in an error.
Killed(i) ==
    /\ pc[i] = "executing"
    /\ \/ Conflict(i) /\ Goto(i, "validate") /\ job' = [job EXCEPT ![i].age = 0]
       \/ RenewFails(i) /\ End(i)
    /\ Ends(i, {target, Install(i)})
    /\ UNCHANGED <<plan, record, server, revoked>>

\* The executor ends.  After the last step, or a failed one, the agent reports.
StepEnds(i) ==
    /\ pc[i] = "executing"
    /\ \/ /\ Ends(i, {Install(i)})
          /\ job' = [job EXCEPT ![i].done = @ + 1, ![i].age = 0]
          /\ Goto(i, IF job'[i].done = NumSteps THEN "validate" ELSE "ready")
       \/ /\ Ends(i, {target, Install(i)})
          /\ job' = [job EXCEPT ![i].age = 0]
          /\ Goto(i, "validate")
    /\ UNCHANGED <<plan, claim, record, server, revoked, faults>>

-----------------------------------------------------------------------------
(* complete, and complete_runtime_work. *)

\* Go on to step, or end with an error.
Unless(i, ok, step) == IF ok THEN Goto(i, step) /\ UNCHANGED job ELSE End(i)

\* The credential is admitted and the completion fits the plan.
Validate(i) ==
    /\ pc[i] = "validate"
    /\ Unless(i, i \notin revoked /\ plan[job[i].plan] \in {"computed", "running", Verdict(i)},
              "store")
    /\ UNCHANGED <<plan, claim, record, target, server, group, revoked, faults, contested>>

\* complete_runtime_plan: the first completion under the live claim is stored,
\* the same one again is accepted, every other one is refused.
Store(i) ==
    /\ pc[i] = "store"
    /\ LET p == job[i].plan
           held == claim[p].owner = i /\ claim[p].gen = job[i].gen
           first == held /\ claim[p].done = Unreported /\ Live(p)
           again == held /\ claim[p].done = job[i].done
       IN \/ /\ first
             /\ claim' = [claim EXCEPT ![p].done = job[i].done]
             /\ Apply(i) /\ UNCHANGED job
          \/ again /\ Apply(i) /\ UNCHANGED <<claim, job>>
          \/ ~first /\ ~again /\ End(i) /\ UNCHANGED <<claim, contested>>
    /\ UNCHANGED <<plan, record, target, server, group, revoked, faults>>

\* The plan is loaded, and the transition to running validated against it
\* once more.  A terminal one was completed before.
Load(i) ==
    /\ pc[i] = "load"
    /\ Unless(i, Pending(job[i].plan),
              IF plan[job[i].plan] = "computed" THEN "putRunning" ELSE "read")
    /\ UNCHANGED <<plan, claim, record, target, server, group, revoked, faults, contested>>

\* The put of the running plan.
PutRunning(i) ==
    /\ pc[i] = "putRunning"
    /\ plan' = [plan EXCEPT ![job[i].plan] = "running"]
    /\ Goto(i, "read")
    /\ UNCHANGED <<claim, record, target, server, job, group, revoked, faults, contested>>

\* The environment object is read, if the server executes nothing, and the
\* terminal transition validated (validated_plan_object).
Read(i) ==
    /\ pc[i] = "read"
    /\ LET ok == server = "gone" /\ plan[job[i].plan] \in {"running", Verdict(i)} IN
          \/ ok /\ job' = [job EXCEPT ![i].snap = record] /\ Goto(i, "put")
          \/ ~ok /\ End(i)
    /\ UNCHANGED <<plan, claim, record, target, server, group, revoked, faults, contested>>

\* Mutant: a failed completion records none of its steps, a successful one
\* only the step it ends with.
PutLastStep(i) ==
    /\ pc[i] = "put"
    /\ plan' = [plan EXCEPT ![job[i].plan] = Verdict(i)]
    /\ record' = [s \in Steps |-> IF s = job[i].done THEN job[i].plan ELSE job[i].snap[s]]
    /\ End(i)
    /\ UNCHANGED <<claim, target, server, group, revoked, faults, contested>>

\* One transaction: the plan, and the record with the steps that succeeded.
Put(i) ==
    /\ pc[i] = "put"
    /\ plan' = [plan EXCEPT ![job[i].plan] = Verdict(i)]
    /\ record' = [s \in Steps |-> IF s <= job[i].done THEN job[i].plan ELSE job[i].snap[s]]
    /\ End(i)
    /\ UNCHANGED <<claim, target, server, group, revoked, faults, contested>>

-----------------------------------------------------------------------------
(* What goes wrong, and time. *)

\* The client times out or the server stops: the handler ends where it is.
Timeout(i) ==
    /\ pc[i] \in Serving
    /\ Fault
    /\ End(i)
    /\ UNCHANGED <<plan, claim, record, target, server, group, revoked, contested>>

\* A host is suspended, a runtime starved: the agent or its request is slow.
Stall(i) ==
    /\ i \notin Steady /\ pc[i] \notin {"idle", "dead"} /\ ~job[i].stall
    /\ Fault
    /\ job' = [job EXCEPT ![i].stall = TRUE]
    /\ UNCHANGED <<plan, claim, record, target, server, pc, group, revoked, contested>>

\* The agent's process dies; the kernel closes the guard's pipe.
Crash(i) ==
    /\ i \notin Steady /\ pc[i] # "dead"
    /\ Fault
    /\ Goto(i, "dead")
    /\ IF group[i] = "alive"
       THEN group' = [group EXCEPT ![i] = "orphan"] /\ UNCHANGED job
       ELSE job' = [job EXCEPT ![i] = NoJob] /\ UNCHANGED group
    /\ UNCHANGED <<plan, claim, record, target, server, revoked, contested>>

\* The guard reads the end of its pipe and kills its group.
GuardKills(i) ==
    /\ group[i] = "orphan"
    /\ Ends(i, {target, Install(i)})
    /\ job' = [job EXCEPT ![i] = NoJob]
    /\ UNCHANGED <<plan, claim, record, server, pc, revoked, faults>>

\* An operator revokes the credential.
Revoke(i) ==
    /\ i \notin Steady \cup revoked
    /\ Fault
    /\ revoked' = revoked \cup {i}
    /\ UNCHANGED <<plan, claim, record, target, server, pc, job, group, contested>>

\* Half a minute passes.  A request has begun within it, an agent that is not
\* stalled has asked for a renewal within Beat ticks or killed its executor,
\* and a guard has reacted.
Tick ==
    /\ \A i \in Instances : group[i] # "orphan"
    /\ \A i \in Instances :
          /\ pc[i] \in Serving \cup {"ready"} => job[i].stall \/ job[i].age = 0
          /\ group[i] = "alive" => job[i].stall \/ job[i].age < Beat
    /\ \E p \in Plans : Live(p)
    /\ claim' = [p \in Plans |-> [claim[p] EXCEPT !.age = IF @ < Lifetime THEN @ + 1 ELSE @]]
    /\ job' = [i \in Instances |->
                  IF pc[i] \in Serving \cup {"ready", "executing"} /\ job[i].age < Lifetime
                  THEN [job[i] EXCEPT !.age = @ + 1] ELSE job[i]]
    /\ UNCHANGED <<plan, record, target, server, pc, group, revoked, faults, contested>>

Init ==
    /\ \/ server = "executing" /\ plan = [p \in Plans |-> IF p = 1 THEN "running" ELSE "absent"]
       \/ server = "gone" /\ plan = [p \in Plans |-> IF p = 1 THEN "computed" ELSE "absent"]
    /\ claim = [p \in Plans |->
                   [owner |-> Nobody, gen |-> 0, age |-> Lifetime, done |-> Unreported]]
    /\ record = [s \in Steps |-> 0] /\ target = [s \in Steps |-> 0]
    /\ pc = [i \in Instances |-> "idle"]
    /\ job = [i \in Instances |-> NoJob]
    /\ group = [i \in Instances |-> "none"]
    /\ revoked = {}
    /\ faults = 0
    /\ contested = FALSE

\* The steps that an instance takes by itself.
Proceed(i) ==
    \/ Poll(i) \/ Claim(i) \/ Lapsed(i) \/ Abandon(i)
    \/ StartStep(i) \/ Killed(i) \/ StepEnds(i)
    \/ Validate(i) \/ Store(i) \/ Load(i) \/ PutRunning(i)
    \/ Read(i) \/ Put(i)

Next ==
    \/ \E p \in Plans : PlanNext(p)
    \/ ServerFinish \/ ServerStop
    \/ \E i \in Instances :
          Proceed(i) \/ Heartbeat(i) \/ Timeout(i) \/ Stall(i) \/ Crash(i) \/ GuardKills(i) \/ Revoke(i)
    \/ Tick

\* Live processes take their steps, an executor ends, and time passes.
Fairness ==
    /\ WF_vars(ServerFinish \/ ServerStop)
    /\ WF_vars(Tick)
    /\ \A i \in Instances : WF_vars(Proceed(i)) /\ WF_vars(GuardKills(i))

Spec == Init /\ [][Next]_vars /\ Fairness

-----------------------------------------------------------------------------
(* Properties. *)

\* terminate_process_group fences the complete command tree before another
\* runtime may claim the plan: of two executors in one environment, orphans of
\* crashed agents included, one belongs to an agent that is stalled right now.
OneExecutor ==
    \A i, j \in Instances :
        i # j /\ group[i] # "none" /\ group[j] # "none" => Stalled(i) \/ Stalled(j)

\* While nobody has been granted a later plan, a plan that succeeded is what is
\* installed and what the environment records, whoever executed it, crashed in
\* it or reported it late, unless two handlers applied a completion at once or
\* an executor ran on under a stalled agent.
SucceededIsInstalled ==
    \A p \in Plans :
        plan[p] = "succeeded" /\ (\A q \in Plans : q > p => claim[q].gen = 0) =>
            (target = [s \in Steps |-> p] /\ record = target) \/ contested

\* A durable completion decides its plan: the plan never ends in another state,
\* be it by another completion or by the abandonment of what the server began.
CompletionDecides ==
    \A p \in Plans : claim[p].done # Unreported =>
        plan[p] \in {"computed", "running",
                     IF claim[p].done = NumSteps THEN "succeeded" ELSE "failed"}

\* A plan is not stranded: revoked, crashed or fenced, its runtime is replaced,
\* what the server left running is failed, and a stored completion is applied.
PlansEnd == \A p \in Plans : Pending(p) ~> plan[p] \in Terminal
=============================================================================
