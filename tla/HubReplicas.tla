---------------------------- MODULE HubReplicas ----------------------------
(***************************************************************************)
(* The replicas of one hub.  They share a database and two fences in it:   *)
(* the writer lease, which one replica holds, renews and checks again in   *)
(* every transaction that writes, and the tick claim, which keeps two      *)
(* replicas from reconciling one environment at once.  A replica reads its *)
(* own role from memory, until a deadline it computed when it asked.       *)
(*                                                                         *)
(* One unit of time is the interval between two renewals, a third of the   *)
(* writer lease.  The writer lease is timed by the database's clock, the   *)
(* tick claim by the clock of whichever host looks at it.                  *)
(*                                                                         *)
(* The claim's generation is left out: a replica runs one tick at a time   *)
(* and a claim of its own is renewed at its generation, so that a row that *)
(* names the owner of a guard always carries the guard's generation.       *)
(***************************************************************************)
EXTENDS Integers

CONSTANTS
    Replicas,       \* the hub's processes
    Nobody,         \* a holder that no running process is
    Lifetime,       \* of the writer lease
    ClaimLife,      \* of a tick claim, which is not renewed under way
    Clock,          \* how far ahead of the database each host's clock runs
    Skew,           \* bound: on Clock
    MaxBackoff,     \* the longest wait after a failed tick
    MaxGeneration,  \* bound: the last generation of the writer lease
    MaxFaults       \* bound: crashes, stalls, lost answers, failed checks, releases

ASSUME HubAssumption ==
    /\ Nobody \notin Replicas
    /\ Lifetime \in Nat \ {0} /\ ClaimLife \in Nat \ {0}
    /\ Skew \in Nat /\ Clock \in [Replicas -> 0 .. Skew]
    /\ MaxBackoff \in Nat \ {0} /\ MaxGeneration \in Nat /\ MaxFaults \in Nat

VARIABLES
    lease,          \* the row of the writer lease
    role,           \* each replica's cached role, generation 0: standby
    call,           \* its lease task
    txn,            \* the generation its open transaction was begun at, or 0
    committed,      \* history: the generation of the last write committed
    claim,          \* the row of the environment's tick claim
    queued,         \* a tick was admitted and waits for the replica's tick lock
    tick,           \* each replica's reconcile tick
    inFlight,       \* the environment is in its set of those being reconciled
    wait,           \* how long it is deferred after a failure
    dropped,        \* history: a tick was dropped before its guard existed
    faults          \* faults so far

leasing == <<lease, role, call, txn, committed>>
ticking == <<claim, queued, tick, inFlight, wait, dropped>>
vars == <<leasing, ticking, faults>>

At(place) == [at |-> place, age |-> 0, gen |-> 0]
Standby == [gen |-> 0, left |-> 0]
NoTick == [at |-> "none", age |-> 0]

Lower(m, n) == IF m <= n THEN m ELSE n

Generations == 0 .. MaxGeneration

TypeOK ==
    /\ lease \in [holder : Replicas \union {Nobody}, gen : Generations, left : 0 .. Lifetime]
    /\ role \in [Replicas -> [gen : Generations, left : 0 .. Lifetime]]
    /\ call \in [Replicas -> [at : {"idle", "due", "asked", "answered", "releasing"},
                              age : 0 .. Lifetime, gen : Generations]]
    /\ txn \in [Replicas -> Generations]
    /\ committed \in Generations
    /\ claim \in [owner : Replicas \union {Nobody}, left : 0 .. ClaimLife + Skew]
    /\ queued \in [Replicas -> BOOLEAN]
    /\ tick \in [Replicas -> [at : {"none", "admitted", "running"}, age : 0 .. ClaimLife]]
    /\ inFlight \in [Replicas -> BOOLEAN]
    /\ wait \in [Replicas -> 0 .. MaxBackoff]
    /\ dropped \in [Replicas -> BOOLEAN]
    /\ faults \in 0 .. MaxFaults

\* A hub that starts: no row yet, every replica about to ask for the lease.
Init ==
    /\ lease = [holder |-> Nobody, gen |-> 0, left |-> 0]
    /\ role = [r \in Replicas |-> Standby]
    /\ call = [r \in Replicas |-> At("due")]
    /\ txn = [r \in Replicas |-> 0]
    /\ committed = 0
    /\ claim = [owner |-> Nobody, left |-> 0]
    /\ queued = [r \in Replicas |-> FALSE]
    /\ tick = [r \in Replicas |-> NoTick]
    /\ inFlight = [r \in Replicas |-> FALSE]
    /\ wait = [r \in Replicas |-> 0]
    /\ dropped = [r \in Replicas |-> FALSE]
    /\ faults = 0

\* Something goes wrong, if it should.
Fault(wrong) ==
    /\ wrong => faults < MaxFaults
    /\ faults' = IF wrong THEN faults + 1 ELSE faults

-----------------------------------------------------------------------------
(* The writer lease.                                                       *)

\* WriterFence::role: past its deadline a leader reads as standby.
Leads(r) == role[r].gen > 0 /\ role[r].left > 0

\* The store answered its health check, or is busy: WriterLease::renew notes
\* the time and asks.
Request(r) ==
    /\ call[r].at = "due"
    /\ call' = [call EXCEPT ![r] = At("asked")]
    /\ UNCHANGED <<lease, role, txn, committed, ticking, faults>>

\* Mutant: a renewal takes the next generation too.
AcquiredAnew(r) ==
    [holder |-> r, gen |-> lease.gen + 1, left |-> Lifetime]

\* acquire_writer_lease: the row after r asked for it.
Acquired(r) ==
    [holder |-> r, gen |-> IF lease.left > 0 THEN lease.gen ELSE lease.gen + 1,
     left |-> Lifetime]

\* The transaction of acquire_writer_lease: a live lease of another replica
\* leaves this one a standby, one of its own is renewed, a lapsed one taken.
Acquire(r) ==
    /\ call[r].at = "asked"
    /\ IF lease.left > 0 /\ lease.holder # r
       THEN /\ call' = [call EXCEPT ![r] = [at |-> "answered", age |-> call[r].age, gen |-> 0]]
            /\ UNCHANGED lease
       ELSE /\ Acquired(r).gen <= MaxGeneration
            /\ lease' = Acquired(r)
            /\ call' = [call EXCEPT ![r] =
                 [at |-> "answered", age |-> call[r].age, gen |-> Acquired(r).gen]]
    /\ UNCHANGED <<role, txn, committed, ticking, faults>>

\* Mutant: counted from the answer.
DeadlineOfAnswer(c) == Lifetime

\* The deadline of the role an answer brings, counted from the request.
Deadline(c) == Lifetime - c.age

\* The answer arrives: set_until with the deadline counted from the request.
Publish(r) ==
    /\ call[r].at = "answered"
    /\ role' = [role EXCEPT ![r] =
         IF call[r].gen = 0 THEN Standby
         ELSE [gen |-> call[r].gen, left |-> Deadline(call[r])]]
    /\ call' = [call EXCEPT ![r] = At("idle")]
    /\ UNCHANGED <<lease, txn, committed, ticking, faults>>

\* The renewal fails, before or after the database granted it: standby.
RenewalFails(r) ==
    /\ call[r].at \in {"asked", "answered"} /\ Fault(TRUE)
    /\ role' = [role EXCEPT ![r] = Standby]
    /\ call' = [call EXCEPT ![r] = At("idle")]
    /\ UNCHANGED <<lease, txn, committed, ticking>>

\* The store fails its health check: standby at once, the row comes next.
StepDown(r) ==
    /\ call[r].at = "due" /\ Fault(TRUE)
    /\ role' = [role EXCEPT ![r] = Standby]
    /\ call' = [call EXCEPT ![r] = At("releasing")]
    /\ UNCHANGED <<lease, txn, committed, ticking>>

\* release_writer_lease lapses the row if it still names the replica; an
\* error is ignored and leaves the row to expire.
Release(r) ==
    /\ call[r].at = "releasing"
    /\ \E reached \in BOOLEAN :
         /\ Fault(~reached)
         /\ lease' = IF reached /\ lease.holder = r THEN [lease EXCEPT !.left = 0] ELSE lease
    /\ call' = [call EXCEPT ![r] = At("idle")]
    /\ UNCHANGED <<role, txn, committed, ticking>>

\* with_writer_schema: only a leader opens a transaction that writes.
BeginWrite(r) ==
    /\ Leads(r) /\ txn[r] = 0
    /\ txn' = [txn EXCEPT ![r] = role[r].gen]
    /\ UNCHANGED <<lease, role, call, committed, ticking, faults>>

\* Mutant: the generation is not compared.
RequireHolder(r) == lease.holder = r /\ lease.left > 0

\* require_writer, on the row it keeps locked until the commit.
RequireWriter(r) == lease.holder = r /\ lease.gen = txn[r] /\ lease.left > 0

\* The transaction commits under require_writer, or is refused.
EndWrite(r) ==
    /\ txn[r] # 0
    /\ committed' = IF RequireWriter(r) THEN txn[r] ELSE committed
    /\ txn' = [txn EXCEPT ![r] = 0]
    /\ UNCHANGED <<lease, role, call, ticking, faults>>

-----------------------------------------------------------------------------
(* The reconcile ticks.                                                    *)

\* finish: the environment leaves the set; after a failure it is deferred for
\* a wait that doubles up to MaxBackoff, here any wait up to it.
Finish(r, w) ==
    /\ inFlight' = [inFlight EXCEPT ![r] = FALSE]
    /\ wait' = [wait EXCEPT ![r] = w]

\* A leader's timer fires, or a request writes its audit record: the tick
\* waits for the lock, and does not ask again who leads when it has it.
TickAsked(r) ==
    /\ Leads(r) /\ ~queued[r]
    /\ queued' = [queued EXCEPT ![r] = TRUE]
    /\ UNCHANGED <<leasing, claim, tick, inFlight, wait, dropped, faults>>

\* The tick has the lock and comes to the environment.
Reaches(r) ==
    /\ queued[r] /\ tick[r].at = "none"
    /\ queued' = [queued EXCEPT ![r] = FALSE]

\* SchedulerState::begin: it is in flight, or deferred after a failure.
PassedOver(r) == inFlight[r] \/ wait[r] > 0

TickPasses(r) ==
    /\ Reaches(r) /\ PassedOver(r)
    /\ UNCHANGED <<leasing, claim, tick, inFlight, wait, dropped, faults>>

MayTick(r) == Reaches(r) /\ ~PassedOver(r)

\* try_begin, by the host's own clock: the claim is another's and live.
ClaimedByOther(r) == claim.owner # r /\ claim.left > Clock[r]

\* try_begin grants or renews the claim.
TickStarts(r) ==
    /\ MayTick(r) /\ ~ClaimedByOther(r)
    /\ claim' = [owner |-> r, left |-> ClaimLife + Clock[r]]
    /\ tick' = [tick EXCEPT ![r] = [at |-> "admitted", age |-> 0]]
    /\ inFlight' = [inFlight EXCEPT ![r] = TRUE]
    /\ UNCHANGED <<leasing, wait, dropped, faults>>

\* Mutant: the environment stays in the set of those being reconciled.
TickBusyKeepsPlace(r) ==
    /\ MayTick(r) /\ ClaimedByOther(r)
    /\ inFlight' = [inFlight EXCEPT ![r] = TRUE]
    /\ UNCHANGED <<leasing, claim, tick, wait, dropped, faults>>

\* Another host has the claim: no failure of this one, so its place in the
\* set and its earlier failures are forgotten.
TickBusy(r) ==
    /\ MayTick(r) /\ ClaimedByOther(r)
    /\ Finish(r, 0)
    /\ UNCHANGED <<leasing, claim, tick, dropped, faults>>

\* The claim cannot be asked for.
TickErrs(r) ==
    /\ MayTick(r) /\ Fault(TRUE)
    /\ \E w \in 1 .. MaxBackoff : Finish(r, w)
    /\ UNCHANGED <<leasing, claim, tick, dropped>>

\* runtime_managed has answered: the environment's job is spawned.
TickRuns(r) ==
    /\ tick[r].at = "admitted"
    /\ tick' = [tick EXCEPT ![r] = [at |-> "running", age |-> tick[r].age]]
    /\ UNCHANGED <<leasing, claim, queued, inFlight, wait, dropped, faults>>

\* Mutant: a host that outlived its claim ends the claim of its successor.
ReleasedByAnyone(r) == [claim EXCEPT !.left = Lower(claim.left, Clock[r])]

\* FenceGuard's drop: release ends a claim the row still gives to r.
Released(r) ==
    IF claim.owner = r THEN [claim EXCEPT !.left = Lower(claim.left, Clock[r])] ELSE claim

\* Its error is ignored: the claim then lasts until it expires.
ReleaseClaim(r) == \E fails \in BOOLEAN :
    /\ Fault(fails)
    /\ claim' = IF fails THEN claim ELSE Released(r)

\* The job ends, or is aborted because whoever asked for the tick went away.
TickEnds(r) ==
    /\ tick[r].at = "running"
    /\ \E w \in 0 .. MaxBackoff : Finish(r, w)
    /\ ReleaseClaim(r)
    /\ tick' = [tick EXCEPT ![r] = NoTick]
    /\ UNCHANGED <<leasing, queued, dropped>>

\* Whoever asked goes away while runtime_managed is awaited: FenceGuard is
\* dropped, but no AdmissionGuard takes the environment out of the set.
TickDropped(r) ==
    /\ tick[r].at = "admitted"
    /\ ReleaseClaim(r)
    /\ tick' = [tick EXCEPT ![r] = NoTick]
    /\ dropped' = [dropped EXCEPT ![r] = TRUE]
    /\ UNCHANGED <<leasing, queued, inFlight, wait>>

-----------------------------------------------------------------------------
(* Time and crashes.                                                       *)

\* A process dies and another starts in its place, under a holder of its own;
\* the owner of its tick claims may be configured and stay the same.
Crash(r) ==
    /\ Fault(TRUE)
    /\ lease' = IF lease.holder = r THEN [lease EXCEPT !.holder = Nobody] ELSE lease
    /\ \E named \in BOOLEAN :
         claim' = IF claim.owner = r /\ ~named THEN [claim EXCEPT !.owner = Nobody] ELSE claim
    /\ role' = [role EXCEPT ![r] = Standby]
    /\ call' = [call EXCEPT ![r] = At("due")]
    /\ txn' = [txn EXCEPT ![r] = 0]
    /\ queued' = [queued EXCEPT ![r] = FALSE]
    /\ tick' = [tick EXCEPT ![r] = NoTick]
    /\ inFlight' = [inFlight EXCEPT ![r] = FALSE]
    /\ wait' = [wait EXCEPT ![r] = 0]
    /\ dropped' = [dropped EXCEPT ![r] = FALSE]
    /\ UNCHANGED committed

Less(n) == IF n = 0 THEN 0 ELSE n - 1

\* An interval passes.  A replica whose lease task has not come round by then
\* has stalled, which is a fault.
Elapse ==
    /\ Fault(\E r \in Replicas : call[r].at # "idle")
    /\ lease' = [lease EXCEPT !.left = Less(lease.left)]
    /\ role' = [r \in Replicas |-> [gen |-> role[r].gen, left |-> Less(role[r].left)]]
    /\ call' = [r \in Replicas |->
         CASE call[r].at \in {"idle", "due"} -> At("due")
           [] OTHER -> [at |-> call[r].at, age |-> Lower(call[r].age + 1, Lifetime),
                        gen |-> call[r].gen]]
    /\ claim' = [claim EXCEPT !.left = Less(claim.left)]
    /\ tick' = [r \in Replicas |->
         IF tick[r].at = "none" THEN tick[r]
         ELSE [at |-> tick[r].at, age |-> Lower(tick[r].age + 1, ClaimLife)]]
    /\ wait' = [r \in Replicas |-> Less(wait[r])]
    /\ UNCHANGED <<txn, committed, queued, inFlight, dropped>>

Step(r) ==
    \/ Request(r) \/ Acquire(r) \/ Publish(r) \/ RenewalFails(r)
    \/ StepDown(r) \/ Release(r) \/ BeginWrite(r) \/ EndWrite(r)
    \/ TickAsked(r) \/ TickPasses(r) \/ TickStarts(r) \/ TickBusy(r) \/ TickErrs(r) \/ TickRuns(r)
    \/ TickEnds(r) \/ TickDropped(r) \/ Crash(r)

Next == Elapse \/ \E r \in Replicas : Step(r)

\* Timers fire, the database answers and a tick's job ends; nothing is
\* assumed of a tick's outcome, or of who asks for one and goes away.
Fairness ==
    /\ WF_vars(Elapse)
    /\ \A r \in Replicas :
         /\ WF_vars(Request(r)) /\ WF_vars(Acquire(r)) /\ WF_vars(Publish(r))
         /\ WF_vars(Release(r)) /\ WF_vars(TickAsked(r)) /\ WF_vars(TickPasses(r))
         /\ WF_vars(TickBusy(r)) /\ WF_vars(TickStarts(r))
         /\ WF_vars(TickRuns(r)) /\ WF_vars(TickEnds(r))

Spec == Init /\ [][Next]_vars /\ Fairness

-----------------------------------------------------------------------------
(* Properties.                                                             *)

\* While a replica reads itself as leader, the database's row is live, names
\* it and is at its generation, whatever renewal is under way or was lost, and
\* the row outlives the cached deadline: no two replicas ever lead.
LeaderHoldsLease ==
    \A r \in Replicas : Leads(r) =>
        lease.holder = r /\ lease.gen = role[r].gen /\ lease.left >= role[r].left

\* A write begun under an old generation never lands after a write of a newer
\* one, nor after a newer generation was granted, however long it was open.
CommitsInOrder ==
    [][committed' # committed => committed' > committed /\ committed' = lease.gen]_vars

\* The row of the writer lease grants generations one at a time, and the next
\* one only after the last lapsed: whichever replica is granted it, crashes
\* and lost answers included, it behaves as the fence writers rely on.
Fence == INSTANCE GenerationFence WITH
    Owners <- {"hub"}, NoOwner <- Nobody, generation <- lease.gen,
    owner <- IF lease.gen = 0 THEN Nobody ELSE "hub", live <- lease.left > 0
ImplementsFence == Fence!FenceSpec

\* Two replicas reconcile one environment at once only when one of them runs
\* longer than the claim, less what the hosts' clocks may differ by.
OneTickPerClaim ==
    \A r, s \in Replicas :
        r # s /\ tick[r].at # "none" /\ tick[s].at # "none" =>
            tick[r].age >= ClaimLife - Skew \/ tick[s].age >= ClaimLife - Skew

\* The environment is reconciled again and again, whichever replica has to
\* take over and however its ticks fail, unless the replica that leads had a
\* tick dropped before its guard existed and passes the environment over.
ReconcileGoesOn ==
    []<>(\E r \in Replicas : tick[r].at = "running" \/ (Leads(r) /\ dropped[r]))
=============================================================================
