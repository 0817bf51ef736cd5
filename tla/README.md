# Tenkai: a TLA+ verification project

Tenkai is a deployment control plane: it plans changes for many environments,
applies them under a lease, and rolls back what fails. This project models the
protocols on which that stands: who may work on an environment, how a deployment
command is kept from running beside another one, what the plan and the
deployment record say after any failure, and the coordinators above a single
plan: delivery to runtimes, the agent's upgrade of itself, rollout waves, package
migrations, the outbox of events and the replicas of a hub. Paths below are
relative to the repository's crate (`src/apply/...` is `src/src/apply/...` in
`PROJECT.json`).

## Inventory

`PROJECT.json` lists every component with its sources. The ones that carry the
core logic:

| component | state it keeps | operations | how it meets the others |
|---|---|---|---|
| environment lease (`src/apply/execution_lease.rs`, `src/storage/sqlite_objects/namespaced_leases.rs`) | one row per environment (owner, token, generation, status, expiry), a claim object and a link for older binaries | claim, adopt, refresh, guarded write, release, take over, unlock, status | every writer of an environment presents its token |
| fenced mutation (`src/fenced_mutation.rs`) | a file lock, a guard process, two pipes, a process group | start, handshake, supervise, kill, reap | runs the commands of a step under the lease |
| plan execution (`src/apply.rs`, `src/apply/*`) | the attempt's position, the environment's deployment record | load, claim, admit, start, step, recover, record, finish, release | uses both of the above and the plan store |
| plan lifecycle (`src/plan/lifecycle.rs`) | the state of each plan | guarded and validated transitions | written by executions and by the reconciler |
| reconciler (`src/reconciler*`, `src/reconcile_fence.rs`, `src/writer_fence.rs`) | a cached writer role, a tick claim, backoff, environments in flight | lead, admit, tick, execute, recover an orphan | calls plan execution; recovers what it left |
| runtime delivery (`src/runtime_delivery.rs`, `src/storage/runtime_plans.rs`) | enrollment mark, a claim with a generation per plan | pull, claim, renew, complete, revoke | excludes server execution of the environment |
| runtime agent (`crates/tenkai-runtime`) | an executor process, links to its own versions, a pending switch | poll, execute, report, stage, switch, revert | the other end of runtime delivery |
| package migration (`src/package_migration/*`) | a lock per environment, a record with receipts, an execution lease | approve, execute, resume, roll back | the lock refuses other applies |
| waves (`src/wave/*`) | a record per wave, wave and topology leases | start, advance, stop, resume, roll back | drive plan executions |
| provider events (`src/provider_event.rs`) | an outbox with claims, a sequence per kind | enqueue, claim, deliver, acknowledge, defer | written in the transactions of the others |
| canaries, connectivity upgrades, trains, host releases | durable coordinators | evaluate, promote, advance | drive plan executions |
| catalog, approvals, bundles, identities | immutable releases, policies, keys | publish, promote, approve, verify | their verdicts are inputs of planning and start |

What is hard here: nearly every operation is a sequence of store calls with an
`await` between them, made by several processes (servers, command line,
runtimes, operators); leases expire under their holders; writes fail after they
committed; commands are processes that outlive their parents; futures are
dropped. `hazards` in `PROJECT.json` names each place and the properties about
it.

## Modules

* `GenerationFence`: the abstract promise of a lease. There is a generation, an
  owner and whether it is live; a grant takes the next generation when nothing
  is live, and a fence accepts a generation only while it is the live one.
* `EnvironmentLease`: the lease row and every protocol on it, one action per
  store call. Claims follow `claim_environment_with_options` line by line:
  retirement, migration lock, legacy claim, link, row, claim object, gate,
  acquire, create, link, adopt, second look at the lock. Beside them run
  refreshes, guarded writes and releases, package migration locks, the
  enrollment of a runtime and its polls, `env unlock` and `env retire`.
  The row is shown to implement `GenerationFence` (`ImplementsFence`).
* `FencedMutation`: controllers, guards, process groups and the lock, over
  `GenerationFence`. Shell runs follow `run` and `supervise`, in-process ones
  `run_guarded_mutation` and `with_mutation_lock_authorized`.
* `PlanExecution`: attempts to execute one plan, over `GenerationFence` for the
  lease and a lock that behaves as `FencedMutation` establishes. It holds the
  plan's stored state, the deployment record and what is really installed, so
  properties can compare them; a fault is a failed command or store call, where
  an ambiguous store call commits and reports an error.
* `RuntimeDelivery`: the server's handlers and the processes of the agent. An
  agent polls, is granted a claim with a generation, executes the steps under
  heartbeats and reports one completion, which the server stores and then applies
  to plan and record in further steps. Requests are lost at any store call,
  agents crash, stall, are revoked and replaced, an executor outlives its agent
  until its guard kills it, and the server's own execution hands over. Time is a
  count of ages, so that claim and heartbeat intervals are related.
* `AgentUpgrade`: the agent's switch to another version of itself over the links
  `current` and `previous`, `pending.json`, the attempt counter and the FAILED
  marks, with the supervisor's prestart, a crash between any two writes, writes
  that fail before or after their rename, and a revert by hand beside it.
* `ProviderEvents`: the outbox that outcome, feedback, operational and webhook
  workers share: batches are claimed for as long as their deliveries may take,
  metadata is bound once in the database, a delivery may be accepted and time
  out, failures are deferred with a growing delay.
* `WaveExecution`: controllers that start, advance, stop, resume and roll back
  waves with overlapping cohorts, under the wave lease, the topology leases in
  name order and the environment's execution. It holds what is really up, beside
  the records that the availability check reads.
* `HubReplicas`: the writer lease with its database clock, each replica's cached
  role and local deadline, the fenced transaction, the tick claim with the
  hosts' own clocks, and tick admission with its queue, its set of environments
  in flight and its backoff. The writer lease is shown to implement
  `GenerationFence`.
* `PackageMigration`: callers that approve, execute, resume and roll back one
  migration over its record, its execution lease, the environment lock and the
  plans it creates. Others change the environment while it is not locked, and
  the reconciler or an operator may take up a plan that the migration left.
* `EnvironmentLeaseProofs` (also about `FencedMutation`), `PlanExecutionProofs`,
  `RuntimeDeliveryProofs`, `AgentUpgradeProofs`, `ProviderEventsProofs`,
  `WaveExecutionProofs`, `HubReplicasProofs`, `PackageMigrationProofs`: the
  theorems.
* `MC...`: the symmetry sets, and the sequences and functions given to constants,
  of the runs.

The modules compose along these promises: `FencedMutation` and `PlanExecution`
take the lease as the `GenerationFence` that `EnvironmentLease` implements;
`PlanExecution` takes the lock as `FencedMutation` shows it;
`WaveExecution` and `PackageMigration` take the execution of a plan as the begin
and the end that `PlanExecution` allows, and `RuntimeDelivery` takes the server's
departure from `EnvironmentLease`.

`map` in `PROJECT.json` gives the lines behind each definition. Operators whose
comment begins with "Mutant:" are plausible bugs; each breaks the property
`mutants` pairs it with.

### Abstractions worth knowing

* A fencing token is a fresh uuid per generation, so the generation stands for
  it. The clock of the embedded store is one trusted source; `clock_guard`
  refuses claims otherwise. `HubReplicas` has one clock per host.
* `EnvironmentLease` merges reads where the order cannot matter: unlock reads
  legacy claim, object and link in `UnlockInspect`; a poll reads link and object
  in `PollClaims`, which differs from two reads only toward refusing; `HandOff`
  merges the lease read with the start of the claim. Unlock's second read of the
  lease equals a crash at its first. A refused acquire reads the row again, but
  with the clock of the claim's start it can never find it expired. A runtime's
  claim is open or not there; `RuntimeDelivery` has its generations.
* In `PlanExecution` install and health probe are one command. A check that errs
  is a fault. `Expire` ends the lease when nobody renews it; with the hazard
  "lapse" a holder may also be stalled past its expiry.
* `PlanExecution` takes the lock as exclusive. That holds unless the future of a
  shell run is dropped (see Observations): its theorems are about executions
  whose controllers crash, stall or finish, not about dropped ones.
* In `RuntimeDelivery` an agent makes one request at a time, so its program
  counter is also the handler's. In `ProviderEvents` the token of an ended batch
  is `Stale`, since every batch has a fresh one. In `WaveExecution` a command
  from its claim to its first persist is one step, because only the wave's holder
  changes the record. In `HubReplicas` the generation of a tick claim is left
  out, because a row that names the owner of a guard carries its generation.
  Each module's header has the rest.
* History variables (`contested`, `disturbed`, `interrupted`, `asked`, `crossed`,
  `overlapped`, `cut`, `dropped`, the `stray` of a migration's plan and the
  `outcome` of a wave's) record that a case named under Observations happened. No action
  reads them; properties except the cases with them.

## Runs

Behaviours end in every model but `HubReplicas`: generations, time and faults are
bounded, a plan ends, a wave or a migration reaches its verdict. Those
configurations say `CHECK_DEADLOCK FALSE`. The replicas of a hub never stop, and
TLC checks that.

| run | shows | distinct states |
|---|---|---|
| `lease_fencing` | `FencedWritesInOrder`, `OnlyHolderChangesLiveLease`, `ImplementsFence` with two executions, an unlock, expiry and crashes | 1 480 239 |
| `lease_exclusion` | an execution, a migration, a runtime and a retirement in one environment: a fenced execution and a runtime's open claim never overlap (`ServerRuntimeExclusive`), no live lease and no open delivery on a retired environment (`RetiredIsQuiet`), only a plan the migration lock authorized runs under it (`MigrationExcludesApply`) | 1 737 962 |
| `mutation_guard` | whatever lives of a command is covered by the lock (`LockCoversCommand`), commands start in generation order (`StartsInOrder`), and under fairness every run returns (`EveryRunEnds`) and a dead controller's lock is freed (`LockIsFreed`) | 161 501 |
| `plan_safety` | a plan that succeeded stays deployed (`SucceededIsDeployed`) with crashes, stalls, unlocks and two faults; one fault that a step answers itself never leaves a wrong record (`OneFaultKeepsRecord`) | 623 857 |
| `plan_progress` | a running plan is left (`RunningIsLeft`), under fairness, with every outcome of the health gate | 18 484 |
| `runtime_safety` | of two executors in one environment one belongs to an agent that is stalled (`OneExecutor`); a plan that succeeded is installed and recorded (`SucceededIsInstalled`); the first stored completion decides the plan (`CompletionDecides`) | 848 530 |
| `runtime_progress` | with one agent that keeps polling every plan ends (`PlansEnd`) | 300 759 |
| `agent_upgrade` | the host comes back to a version that runs (`Recoverable`), a step is reported as what happened, or as failed where its version could not be staged again (`HonestReport`), a failed version is not tried again (`FailedStaysOut`), and every switch is reported or dropped (`AgentReturns`) | 288 351 |
| `provider_events` | a retry repeats the metadata of the first delivery (`StableMetadata`), delivered means accepted (`DeliveredWasAccepted`), two workers deliver one event at once only when one is stalled (`OneSender`), and no event is lost behind failures or poison (`EventuallyDelivered`) | 445 235 |
| `wave` | topologies keep their minimum (`MinimumKept`), controllers never wait for each other's topology (`NoCrossedClaims`), a cohort is upgraded in order under its failure policy (`InOrder`), a verdict agrees with the plans, up to an upgrade whose outcome could not be read (`TruthfulVerdict`) | 929 854 |
| `hub_replicas` | a replica that reads itself as leader holds the lease (`LeaderHoldsLease`), commits are in generation order (`CommitsInOrder`), ticks within their claim are alone (`OneTickPerClaim`), the writer lease is a fence (`ImplementsFence`), reconciliation goes on (`ReconcileGoesOn`) | 438 875 |
| `package_migration` | receipts and a rollback's verdict are true of the plans the migration ran (`RecordIsHonest`), it applies a checkpoint's target once (`NoReplay`), the environment is locked while the record says running and given back afterwards (`LockFollowsRecord`) | 3 172 643 |

`plan_safety` leaves out one outcome of the health gate, the one place where a
single fault does leave a wrong record (Observations), and so does the theorem
`FaultIsRecorded`; `plan_progress` and the theorem `SuccessIsDeployed` have it. `plan_progress` leaves out crashes, after
which an expired lease keeps the plan running until an operator unlocks.

### Bounds

* Leases: three generations, a holder, the one that replaces it and a third, so
  that a stale actor meets both its successor and a lease released again. In
  `lease_fencing` time runs two lifetimes, so that a lease can expire, be
  replaced and expire again, and an unlock lives for one tick, an execution for
  two. In `lease_exclusion`, with more actors, one expiry happens. Two executions
  are enough for every property that relates a stale holder to a live one; a
  runtime, a migration or a retirement is added where it is asked about.
* Mutations: three runs of commands, one of them in process: one holds the lock,
  one waits, one is new.
* Plans: two steps, one an upgrade and one a first installation, so that a later
  step fails after an earlier one succeeded, with and without a release to
  restore. Two faults: one in a step and one in its recovery.
* Runtimes: an agent and its replacement (the second never crashes), two plans,
  two steps (one in `runtime_progress`), a claim of three ticks against a
  heartbeat of one, one fault. A claim can so lapse under a stalled agent and be
  granted again while the first completion is on its way.
* Agent: three versions, one of which does not start, three starts before a
  revert as in the code, two plans and three faults: one in the switch, one in
  the revert, one in the report.
* Events: two deliverable events and one poison, two workers, batches of two, so
  that a batch both fills up and leaves an event behind; one fault.
* Waves: two waves whose cohorts share an environment, the first one with two
  environments, stopped on failure and rolled back; two topologies with a
  minimum of one, two controllers, one fault: a crash, a stall, or a plan that
  cannot be loaded. Of one environment at most two rollback plans are made, the
  second because the first could not be loaded; no third is, also in the proofs.
* Hub: two replicas whose clocks differ by one unit, a lease of two units, a
  claim of three, three generations and one fault.
* Migrations: a compensating checkpoint and an irreversible one, two callers, two
  plans (the target's and the one to restore, or an orphan of a crash and the one
  that replaces it), two fence generations (an execution and its rollback), one
  plan that another apply runs, one fault. An orphan, its replacement and a
  restore together, and rollbacks after the first, are left to the proofs.

Where a property is proved, the theorem removes all of these bounds; caps on
time, generations and faults are arbitrary naturals there.

### Fairness

* `FencedMutation!GuardSpec` is weakly fair to live controllers, to guards and to the
  kernel's delivery of SIGKILL. A live controller takes its next step because its
  event loop and its ten-minute command timer do; each run takes the lock once, so
  weak fairness of the lock suffices. Nothing obliges a command to exit, a lease
  to lapse or a process to crash. In-process work is assumed to return.
* `PlanExecution!Spec` is weakly fair to attempts (commands end by the same
  timer), to the expiry of a lease that nobody renews, to the second half of an
  unlock and to the reconciler, which ticks periodically. Nobody has to crash,
  stall or unlock.
* `RuntimeDelivery!Spec` is weakly fair to time, to a guard that kills the group
  of a dead agent, to an agent's and its handler's next step, and to the server's
  end of its own execution (or its stop). Crashes, stalls, revocations and lost
  requests may happen and need not.
* `AgentUpgrade!Spec` is weakly fair to the supervisor, the running process and
  an operator who has begun a revert. New plans and faults need not come.
* `ProviderEvents!Spec` is weakly fair to time and to each worker, which polls on
  a timer. A provider may reject as often as the faults allow.
* `HubReplicas!Spec` is weakly fair to time, to each replica's lease task (a
  timer) and to each stage of its ticks (the periodic loop). It obliges no
  outcome of a tick and no dropped request.
* `WaveExecution` and `PackageMigration` have no fairness: their commands are
  given by operators.

## Proofs

TLAPS checks, for all sets of processes, all lifetimes and all bounds (under
`ProcessAssumption` and `BoundAssumption`, `RunAssumption`, `PlanAssumption`,
`DeliveryAssumption`, `UpgradeAssumption`, `EventsAssumption`, `WaveAssumption`,
`HubAssumption`, `MigrationAssumption`, which say that names differ and numbers are
numbers, that a heartbeat is shorter than a claim, that events and environments
are finite in number and some replica can be spared, and bound the clocks of the
hosts by `Skew`):

* `EnvironmentLeaseProofs`. The inductive invariant `IndInv` adds to the types
  that no token and no committed write is ahead of the row (`NotAhead`), that
  the current token is in its owner's hands only (`TokenIsOwners`), and that a
  runtime polls only once enrolled. From it: `TypeCorrect`, `WritesInOrder`,
  `LiveLeaseIsHolders` and the refinement `LeaseIsFence` step by step;
  `ExclusiveExecution`, `RetirementIsQuiet` and `MigrationIsExclusive` are
  inductive relative to it. The last needs `MigrationInv`, which also covers an
  apply between its second look at the lock and its work.
  The module's second part is about `FencedMutation`. `GuardInv` says that exactly
  the guards past their flock hold the lock, that the handshake goes in order, and
  that while a guard with the lock may be told to go no newer command has started.
  From it `GuardTypeCorrect` and `CommandsInOrder`;
  `CommandsAreCovered` adds `CoverInv` and assumes that no shell run is dropped
  (`Cancellable \subseteq InProcess`), because a dropped future does break it
  (Observations).
* `PlanExecutionProofs`. `SucceededIsDeployed` is not inductive: a stale attempt
  might still write. `Inv` adds that only the latest grant is accepted and by its
  owner (`TokenIsOwners`), that the holder has deployed every step before its own
  (`Progress`), that once it ran a command no command of an earlier generation is
  left (`Alone`), and that after the success nobody gets past the admission
  (`Done`). Hence `SuccessIsDeployed`, and `TypeCorrect`. `FaultIsRecorded` needs
  to know what is installed at every place of a step. `Untouched` says that the
  steps the holder has not finished are recorded as the plan found them; `Kept`
  that a product whose record is wrong is in the hands of an attempt that will
  set it right (`Settling`), because the places with one write left are reached
  only after a fault, so that this write is not the one that fails. An attempt
  that lost its lease in the middle of a step cannot finish it (`Doomed`) and
  ends as interrupted, and so does one whose refresh merely failed where that
  counts as the loss. The theorem assumes `"blocked" \notin GateOutcomes`,
  because that outcome does break the property.
* `RuntimeDeliveryProofs`. `Inv` joins what is shared to what each instance knows
  of its plan. Only a computed plan without a completion is executed (`Known`),
  one plan at a time is computed (`Ordered`), and an executor whose agent asked in
  time is covered by the agent's claim (`Covered`): so two covered executors would
  hold one claim, which gives `ExecutorExclusion`. `StoredCompletionDecides` rests
  on handlers carrying the stored completion, not the one they were sent.
  `InstalledIsRecorded` adds, while nothing was contested, that one handler at a
  time applies a completion (`OneHandler`), finds the plan as it left it
  (`Undisturbed`) and that what is reported is installed (`Reported`).
* `AgentUpgradeProofs`. `Inv` relates the links, the marks and the recorded switch
  at every place where the process may die: a recorded switch starts from a
  version that is neither broken nor marked, and a marked or broken version is
  current only as its target (`Links`); a revert is carried out before anything
  runs (`Reverted`); what prestart and agent read still stands (`Read`); starts
  are counted only for a recorded switch (`Counted`); and the switch is the one
  the claimed step asks for (`Asked`). All but the types excepts `disturbed`. Hence
  `HostComesBack`, and the action properties `ReportsAreHonest` and
  `MarkedStaysOut`. A version that could not be staged is refused while no switch
  is recorded and the current version runs, which `ReportsAreHonest` states of it.
* `ProviderEventsProofs`. A worker that stalled past its claim still sends what
  it read. `Inv` therefore follows the metadata from the sequence (`Sequenced`)
  to the copy a worker read (`ReadIsBound`), to what it reserved (`Reserved`),
  to what the provider received (`Sent`) and to the acknowledgement
  (`Acknowledged`). Hence `MetadataIsStable` and `OnlyAcceptedIsDelivered`.
  `SendersAreAlone` counts: a worker in time holds every event left of its batch,
  with a timeout left for each of them and the slack (`Guarded`), whatever the
  size of the batch.
* `WaveExecutionProofs`. None of the four invariants of the run is inductive: each
  speaks of stored state, which controllers write from copies. Three invariants
  build on each other.
  `Inv` says of every stored record, and of every copy in the hands of a controller
  that holds its wave, that each environment's status matches the plan it names
  (`Matches`), that an environment is given a plan only after those before it were
  tried under the failure policy (`Forward`), and what a rollback has undone
  (`Undone`), each up to an upgrade that could not be read; `Own` says where a controller is and what it may write from there,
  also once its lease is lost. Hence `VerdictsAreTruthful` and `UpgradesInOrder`.
  `Claims` says that the topologies a controller holds are the first ones of its
  wave in name order, and all of them once it may execute. Of two controllers that
  wait for each other, each would want a name above all it holds: hence
  `ClaimsNeverCross`.
  `Replicated` says that a replica which is healthy on record serves or has a plan
  running; that at least `Minimum` of the healthy ones serve (`Good`); that a
  controller with all its topologies can spare its replica as long as their leases
  last (`Spared`); and that where one executes the replica is down. Hence
  `MinimumIsKept`, by counting. It assumes `Shared`: any two waves declare a topology
  in common, as waves of one product do; without a common lease two waves may each
  take a replica down and count on the other's.
* `HubReplicasProofs`. `Inv` joins the lease (`LeaseInv`: an answer on its way
  promises no more time than the row has left, and so does a cached role), the
  open transaction (`WriteInv`) and the tick (`TickInv`: one younger than the
  claim's life, less the skew, still owns the claim row, which has at least the
  rest of that life left on its own clock).
  Hence `LeadersHoldTheLease`, `CommitsAreOrdered`, `TicksAreExclusive` and the
  refinement `WriterLeaseIsAFence`.
* `PackageMigrationProofs`. The record is copied before the lease, so `Inv` speaks
  of the stored record and of every copy. Each is consistent with the plans it
  names, whatever overlaps (`Consistent`, `Own`), which gives the receipts of
  `RecordsAreHonest`. While no commands overlapped, the record speaks for the
  environment (`Speaks`: every plan that started and that no other apply ran is
  named in it), the command past its lease has the stored record or what it is
  about to store and holds the lock (`Follows`), the migration applied a target
  once (`Once`) and the lock is accounted for (`LockHeld`). Hence the rest of
  `RecordsAreHonest`, `NothingIsReplayed` and `LocksFollowRecords`.

Model-checked only: the liveness properties (`EveryRunEnds`, `LockIsFreed`,
`RunningIsLeft`, `PlansEnd`, `AgentReturns`, `EventuallyDelivered`,
`ReconcileGoesOn`), since fairness and `ENABLED` are out of the prover's reach.
Every invariant and every safety property of a step that a run checks is proved.
Induction over data, which recursive definitions need, is out of reach as well.
The inductive invariants of the agent's upgrade (also with four faults and three
plans, 3 945 580 states), of package migration and of `FaultIsRecorded` were
model-checked on the instances of their runs before they were proved.

## Observations

What the models show the code to do that a text of the repository contradicts, or
that a property excepts. None is a claim about how often it happens.

Lease and execution.

* A claim that finds a foreign migration lock on its second look
  (`execution_lease.rs:357`) releases the row and leaves its claim object. Later
  claims are refused until `env unlock`, although no older controller ran.
* `unlock_environment` on an idle environment ends with an unguarded put and
  unlink (`:95`): a claim granted after it read the lease loses its mark and its
  link while live. The comment at `:815` says the link is retained.
* The expiry gate of configuration changes (`:270`) uses a clock reading and a row
  older than the acquire: a lease that expires in between is replaced silently,
  against the comment at `:266`.
* A dropped future kills the guard (`fenced_mutation.rs:224`, `kill_on_drop`)
  before it acts on the closed pipe; the lock is free while the command, in its own
  group, runs on. `docs/run-tenkai-server.md:772` promises the contrary for the
  death of a controller.
* The plan's state is checked before the claim and never again
  (`plan/lifecycle.rs:126`): an attempt that loaded the plan before another failed
  it stores Blocked over Failed. The recovery of orphans, four steps without a
  fence, may overwrite a terminal plan too.
* A gate rollback that cannot start, and whose record fails
  (`step_lifecycle.rs:1076`), leaves the earlier version recorded and the new one
  live, against the comment at `:817`.
* A crashed execution's lease that expired still counts as held
  (`reconciler/environment_lifecycle.rs:363`), so its plan stays running until an unlock;
  `docs/run-tenkai-server.md:19` says it is terminated after the lease expires.
* Where a wave holds leases for an apply, any error of a refresh becomes a lost
  fence (`execution_lease.rs:466`), and `run_with_lease_renewal` treats a renewal
  that stalls alike. The step then returns without compensation and without
  failing the plan: one failed store call may leave the new version installed,
  the old one recorded and the plan running. `OneFaultKeepsRecord` excepts it
  (`interrupted`); `SucceededIsDeployed` and `RunningIsLeft` do not.

Runtimes and the agent.

* Two handlers that apply one completion at once lose an update of the record,
  and so does an executor that runs on under a stalled agent (`contested`).
* A switch whose rename succeeded and whose directory sync failed is reported as
  failed with its pending record cleared, while `current` is the new version;
  a revert by hand beside the running process races its writes, and one whose
  record was replaced since it was read may make a failed version current again
  (`disturbed`).
* A download or verification that fails is reported as a failed step before the
  agent looks at what is current (`runtime_agent.rs:576`): a plan run again after
  its answer was lost may report a version as failed that is running.
* `clear_pending` ignores a start counter that it cannot remove
  (`runtime_self_upgrade.rs:365`): the next switch is then reverted after fewer
  starts.

Waves.

* When an upgrade's execution returns an error and its plan cannot be loaded
  (`wave/execution.rs:1429`), the record says awaiting_approval whatever the plan
  did. The next `advance` reads the plan again; a `rollback` marks the environment
  skipped and the wave rolled back although the upgrade succeeded. In a rollback a
  plan that cannot be loaded is replaced by a second rollback plan (`:1304`).
  `TruthfulVerdict` excepts the skipped environment (`outcome`).
* A crash in a rollback leaves the wave rolling back; `advance` then goes on
  upgrading, or calls it succeeded. A crash between the success of an upgrade and
  the persist, followed by a rollback, yields rolled back with the environment
  still upgraded. A failed rollback marks the environment failed, and a second
  rollback then reports rolled back. `TruthfulVerdict` excepts these through the
  record and `asked`.
* An environment that waits for the approval of a rollback whose plan already
  succeeded is never settled by `rollback`, and `advance` records it as succeeded.
* `RecoveryRequired` is terminal for `advance`, where ADR 0017 rule 5 says "until
  normal environment reconciliation".
* A crash in an upgrade and the recovery of its plan leave `deployment_health`
  healthy for a replica that may be down, against `topology.rs:11`. The history
  variable `misrecorded` collects these, and `MinimumKept` counts them as serving,
  because no later check can tell.
* A controller whose wave went on without it, and which notices the lost lease
  after it stored a blocked plan as running and before its first command, leaves
  that plan running while the wave's record has it as blocked. Recovery fails the
  plan later; `InOrder` therefore also looks at the record.

Hub.

* A reconcile request that is dropped while `runtime_managed` is awaited in tick
  admission leaves its environment in flight until the process restarts, against
  the comment at `tick_admission.rs:194` (`dropped`). A busy fence clears the
  backoff. A queued tick does not look at the leader role again after the lock.

Migrations.

* The record is loaded before the execution lease and put unconditionally
  (`overlapped`): a second command that loaded meanwhile replays an accepted
  checkpoint, where `docs/package-migrations.md` says a restart "does not replay
  accepted checkpoints", or rolls back past an accepted irreversible one and
  reports it rolled back, where ADR 0024 rule 6 says it "never reports rollback
  success". `approve` puts its record without the lease. An apply longer than the
  two-hour lease lets another command in.
* A crash in a rollback leaves the status running: `resume` goes forward over the
  restore and may end succeeded with the source deployed, and a later rollback
  creates a second restore plan. `RecordIsHonest` says nothing of these records.
* Nothing withdraws a plan that the migration created and did not run. Once the
  lock is gone, the reconciler's `select_plan`
  (`reconciler/environment_lifecycle.rs:137`) takes it up: after the rollback of a
  checkpoint that waited for its approval the target is installed under a record
  that says rolled_back, and a plan orphaned by a crash between
  `checkpoint.rs:103` and `:105` is a second application of its checkpoint.
  `RecordIsHonest` and `NoReplay` except plans that others ran (`stray`).
* An error whose pending plan cannot be loaded counts as one that never started
  (`execute.rs:201`): the record says failed and the lock is given back, although
  the plan may have run.
* A crash between the last persist and the release leaves the lock, which only
  `rollback` gives back, and so does a claim that cannot be released after the
  lock was made (`leases.rs:138`); `LockFollowsRecord` excepts both (`cut`). A
  registry or an executor that cannot be set up (`checkpoint.rs:141`, `:144`)
  leaves the plan authorized on the lock.
* A target plan blocked by a maintenance window counts as started and ends in
  `recovery_required`, from which neither `resume` nor `rollback` leads out.
* `authorize_plan_on_lock` does not look at the lock's owner. In tenant mode the
  lock's id carries the partition, while `reject_foreign_migration_lock` looks
  for the one without; the models have one tenant.

## Not modelled

The repository has about 206 000 lines of implementation, of which the models
stand for about 8 300. Most of the rest is transport, file formats, cryptography,
executors for Kubernetes, Helm and Docker, reports and the command line: code
whose state is a single validated write or whose outcome is an input here.
`PROJECT.json` gives the reason for each component.

Within the modelled parts: the drill claim, and how soon an in-process executor
looks at the stop flag of `run_with_lease_renewal`; a guard killed from outside and descendants that leave
their process group; restart, remove and host steps; products with atomic cleanup
(routing, models), worker-pool drain; canary evidence and the delivery bridge
around an attempt; certificate renewal and inventory of the agent; the contents
of events; poison events that fill whole batches; the report of a wave; a put of a
migration's record, or a delete of its lock, that fails; signed envelopes and validation of a migration's
declaration; remote stores, and of PostgreSQL all but the writer lease, its
fenced transactions and the tick claim.

## Plan

Done: the environment lease, fenced mutation, plan execution with the orphan
recovery, runtime delivery, the agent's upgrade, provider events, waves, hub
replicas, package migrations. Next, in this order:

1. Proofs: the runtime claim as a refinement of the open claim of
   `EnvironmentLease`.
2. Canaries: evidence, promotion and the recovery of an attempt around a plan.
3. Connectivity upgrades, a coordinator over bundles, runtimes and plans.
4. `HostApply` with its own fence, worker-pool drain and the remaining actions of
   a step.
5. Pure algorithms as operators against reference definitions: maintenance
   windows, release selection, step ordering and convergence.
