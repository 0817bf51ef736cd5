---------------------------- MODULE AgentUpgrade ----------------------------
(***************************************************************************)
(* How the runtime agent replaces its own version.  A plan step names the  *)
(* version; the agent stages it, records the switch in pending.json,       *)
(* repoints the link current and exits.  The supervisor runs prestart and  *)
(* then whatever is current.  The version that runs reports the step; one  *)
(* that does not start is reverted after MaxStarts starts.                 *)
(*                                                                         *)
(* Every write is a rename and a sync of its directory, and is one step    *)
(* here.  The process may die before or after each one, a write may fail   *)
(* before its rename or, with an error all the same, after it, and an      *)
(* operator may revert by hand at any time.                                *)
(***************************************************************************)
EXTENDS Naturals

CONSTANTS
    Versions,       \* versions of the agent
    First,          \* the one that was installed
    Broken,         \* versions that pass the probes of stage, but do not run
    None,           \* no version, no pending switch
    MaxStarts,      \* MAX_START_ATTEMPTS
    MaxPlans,       \* bound: plans with a step for the agent
    MaxFaults       \* bound: crashes, failed writes, lost claims, reverts by hand

Pendings == [from : Versions, to : Versions, reverted : BOOLEAN]

ASSUME UpgradeAssumption ==
    /\ First \in Versions \ Broken /\ Broken \subseteq Versions
    /\ None \notin Versions /\ None \notin Pendings
    /\ MaxStarts \in Nat \ {0} /\ MaxPlans \in Nat /\ MaxFaults \in Nat

VARIABLES
    current, previous,  \* the links in the home
    pending,            \* pending.json
    attempts,           \* start-attempts, 0 without the file
    failed,             \* versions with the FAILED mark
    running,            \* the version of the process that runs
    pc,                 \* where the supervisor or the process is
    snap,               \* the pending switch the process read or wrote
    ok,                 \* the result the step is reported with
    hand,               \* where the operator's revert is, and what it read
    step,               \* the open plan step: version, restart, outcome
    claim,              \* whether the claim and generation of the step hold
    plans, faults,      \* counters for the bounds
    disturbed           \* history: a link was repointed by a write that failed,
                        \* or an operator reverted beside the process, or from
                        \* a record that had changed

home == <<current, previous, pending, attempts, failed>>
process == <<running, pc, snap, ok>>
server == <<step, claim, plans>>
vars == <<home, process, server, hand, faults, disturbed>>

Outcomes == {"none", "open", "succeeded", "failed"}
Pcs == {"down", "prestart", "count", "intent", "start", "poll", "stage", "write", "previous",
        "current", "refuse", "complete", "mark", "point", "decide", "tell", "clear", "drop",
        "remove"}

\* Every variable has its type, starts are counted up to the bound, and a
\* process that runs is of a version that does.
TypeOK ==
    /\ current \in Versions /\ previous \in Versions
    /\ pending \in Pendings \cup {None} /\ snap \in Pendings \cup {None}
    /\ attempts \in 0..MaxStarts
    /\ failed \subseteq Versions
    /\ running \in (Versions \ Broken) \cup {None}
    /\ pc \in Pcs /\ ok \in BOOLEAN
    /\ hand \in [pc : {"idle", "write", "mark", "point"}, snap : Pendings \cup {None}]
    /\ step \in [to : Versions, restart : BOOLEAN, outcome : Outcomes]
    /\ claim \in {"none", "held", "lost"}
    /\ plans \in 0..MaxPlans /\ faults \in 0..MaxFaults /\ disturbed \in BOOLEAN

Fault == faults < MaxFaults /\ faults' = faults + 1

\* A write that succeeds, or that fails with or without its effect.
Written == {"done", "lost", "unsynced"}
Write(w) == IF w = "done" THEN UNCHANGED faults ELSE Fault

\* A write that is made only when it changes something.
WriteIf(needed, w) == (needed \/ w = "done") /\ Write(w)

-----------------------------------------------------------------------------
(* The server: plans with a step for the agent. *)

NewPlan(v, restart) ==
    /\ step.outcome # "open" /\ plans < MaxPlans
    /\ step' = [to |-> v, restart |-> restart, outcome |-> "open"]
    /\ claim' = "none" /\ plans' = plans + 1
    /\ UNCHANGED <<home, process, hand, faults, disturbed>>

\* The claim lapses, and with it the generation that was granted.
LoseClaim ==
    /\ claim = "held" /\ Fault
    /\ claim' = "lost"
    /\ UNCHANGED <<home, process, step, plans, hand, disturbed>>

-----------------------------------------------------------------------------
(* The supervisor: prestart from the previous version, then current. *)

\* prestart reads the pending switch and current.
Prestart ==
    /\ pc = "down"
    /\ previous \notin Broken
    /\ snap' = pending
    /\ pc' = CASE pending = None -> "start"
               [] pending # None /\ pending.reverted -> "mark"
               [] pending # None /\ ~pending.reverted /\ current # pending.to -> "start"
               [] OTHER -> IF attempts + 1 > MaxStarts THEN "intent" ELSE "count"
    /\ UNCHANGED <<home, running, ok, server, hand, faults, disturbed>>

\* Mutant: a start that fails at once is not counted.
CountNothing ==
    /\ pc = "count"
    /\ pc' = "start"
    /\ UNCHANGED <<home, running, snap, ok, server, hand, faults, disturbed>>

\* The start is counted before it is made.
Count ==
    /\ pc = "count"
    /\ \E w \in Written :
          /\ Write(w)
          /\ attempts' = IF w = "lost" THEN attempts ELSE attempts + 1
          /\ pc' = IF w = "done" THEN "start" ELSE "down"
    /\ UNCHANGED <<current, previous, pending, failed, running, snap, ok, server, hand, disturbed>>

\* revert: the intent is durable first.
Intent ==
    /\ pc = "intent"
    /\ \E w \in Written :
          /\ Write(w)
          /\ pending' = IF w = "lost" THEN pending ELSE [snap EXCEPT !.reverted = TRUE]
          /\ pc' = IF w = "done" THEN "mark" ELSE "down"
    /\ snap' = [snap EXCEPT !.reverted = TRUE]
    /\ UNCHANGED <<current, previous, attempts, failed, running, ok, server, hand, disturbed>>

\* The supervisor starts what is current.
Start ==
    /\ pc = "start"
    /\ IF current \in Broken
       THEN pc' = "down" /\ UNCHANGED running
       ELSE pc' = "poll" /\ running' = current
    /\ snap' = None
    /\ UNCHANGED <<home, ok, server, hand, faults, disturbed>>

-----------------------------------------------------------------------------
(* finish_revert, in prestart and in report_switch. *)

\* An error ends prestart, and the supervisor tries again, or the poll.
Retry == pc' = IF running = None THEN "down" ELSE "poll"

\* The version that failed is marked, unless it was only restarted.
Mark ==
    /\ pc = "mark"
    /\ \E w \in Written :
          /\ WriteIf(snap.to # snap.from /\ snap.to \notin failed, w)
          /\ failed' = IF w = "lost" \/ snap.to = snap.from THEN failed ELSE failed \cup {snap.to}
          /\ IF w = "done" THEN pc' = "point" ELSE Retry
    /\ UNCHANGED <<current, previous, pending, attempts, running, snap, ok, server, hand,
                   disturbed>>

\* current points back at the version the switch came from.
Point ==
    /\ pc = "point"
    /\ \E w \in Written :
          /\ WriteIf(current # snap.from, w)
          /\ current' = IF w = "lost" THEN current ELSE snap.from
          /\ CASE w # "done" -> Retry
               [] w = "done" /\ running = None -> pc' = "start"
               [] OTHER -> pc' = "decide"
    /\ UNCHANGED <<previous, pending, attempts, failed, running, snap, ok, server, hand, disturbed>>

-----------------------------------------------------------------------------
(* The agent: run_once and switch_self. *)

\* report_switch finds a switch; else the agent pulls the plan, if there is one.
Poll ==
    /\ pc = "poll"
    /\ \/ /\ pending # None
          /\ snap' = pending
          /\ pc' = IF pending.reverted THEN "mark" ELSE "decide"
          /\ UNCHANGED claim
       \/ /\ pending = None /\ step.outcome = "open"
          /\ claim' = "held"
          /\ pc' = "stage"
          /\ UNCHANGED snap
    /\ UNCHANGED <<home, running, ok, step, plans, hand, faults, disturbed>>

\* Mutant: a version that failed here before is staged again.
StageAgain ==
    /\ pc = "stage"
    /\ \/ /\ current = step.to /\ ~step.restart
          /\ ok' = TRUE /\ pc' = "complete"
       \/ /\ current # step.to \/ step.restart
          /\ pc' = IF claim = "held" THEN "write" ELSE "poll"
          /\ UNCHANGED ok
    /\ UNCHANGED <<home, running, snap, server, hand, faults, disturbed>>

\* The release is fetched, verified and staged.  One that failed here before or
\* does not answer its probes is refused; a download or a verification that fails
\* refuses any version, the current one too, and other errors end the poll.  A
\* version that already runs is a success; a heartbeat precedes the switch.
Stage ==
    /\ pc = "stage"
    /\ \/ /\ step.to \in failed \cup Broken
          /\ ok' = FALSE /\ pc' = "refuse"
          /\ UNCHANGED faults
       \/ /\ Fault
          /\ ok' = FALSE /\ pc' \in {"refuse", "poll"}
       \/ /\ step.to \notin failed
          /\ current = step.to /\ ~step.restart
          /\ ok' = TRUE /\ pc' = "complete"
          /\ UNCHANGED faults
       \/ /\ step.to \notin failed
          /\ current # step.to \/ step.restart
          /\ pc' = IF claim = "held" THEN "write" ELSE "poll"
          /\ UNCHANGED <<ok, faults>>
    /\ UNCHANGED <<home, running, snap, server, hand, disturbed>>

\* Mutant: a switch whose record could not be written is made all the same.
WriteUnchecked ==
    /\ pc = "write"
    /\ snap' = [from |-> current, to |-> step.to, reverted |-> FALSE]
    /\ \E w \in Written :
          /\ Write(w)
          /\ pending' = IF w = "lost" THEN pending ELSE snap'
          /\ pc' = "previous"
    /\ ok' = FALSE
    /\ UNCHANGED <<current, previous, attempts, failed, running, server, hand, disturbed>>

\* write_pending.
WritePending ==
    /\ pc = "write"
    /\ snap' = [from |-> current, to |-> step.to, reverted |-> FALSE]
    /\ \E w \in Written :
          /\ Write(w)
          /\ pending' = IF w = "lost" THEN pending ELSE snap'
          /\ pc' = IF w = "done" THEN "previous" ELSE "poll"
    /\ ok' = FALSE
    /\ UNCHANGED <<current, previous, attempts, failed, running, server, hand, disturbed>>

\* switch fails: the step that made it drops the record and reports a failure,
\* a resumed one is tried again.  ok tells the two apart.
SwitchFails == pc' = IF ok THEN "poll" ELSE "drop"

\* switch: the current version becomes the previous one.
SwitchPrevious ==
    /\ pc = "previous"
    /\ \E w \in Written :
          /\ WriteIf(current # snap.to, w)
          /\ previous' = IF w = "lost" \/ current = snap.to THEN previous ELSE current
          /\ IF w = "done" THEN pc' = "current" ELSE SwitchFails
    /\ UNCHANGED <<current, pending, attempts, failed, running, snap, ok, server, hand, disturbed>>

\* switch: current is repointed; then the process exits.
SwitchCurrent ==
    /\ pc = "current"
    /\ \E w \in Written :
          /\ Write(w)
          /\ current' = IF w = "lost" THEN current ELSE snap.to
          /\ disturbed' = (disturbed \/ w = "unsynced")
          /\ IF w = "done" THEN pc' = "down" /\ running' = None
             ELSE SwitchFails /\ UNCHANGED running
    /\ UNCHANGED <<previous, pending, attempts, failed, snap, ok, server, hand>>

\* The completion is stored, refused because the claim is gone, or lost.
Report(next) ==
    \/ /\ claim = "held"
       /\ step' = [step EXCEPT !.outcome = IF ok THEN "succeeded" ELSE "failed"]
       /\ claim' = "none"
       /\ \/ pc' = next /\ UNCHANGED faults
          \/ pc' = "poll" /\ Fault
    \/ /\ claim # "held"
       /\ pc' = next
       /\ UNCHANGED <<step, claim, faults>>
    \/ /\ Fault
       /\ pc' = "poll"
       /\ UNCHANGED <<step, claim>>

\* A step that made no switch is reported.
Complete ==
    /\ pc \in {"complete", "refuse"}
    /\ Report("poll")
    /\ UNCHANGED <<home, running, snap, ok, plans, hand, disturbed>>

-----------------------------------------------------------------------------
(* report_switch. *)

\* Mutant: an interrupted switch counts as one that was made.
DecideByPending ==
    /\ pc = "decide"
    /\ ok' = ~snap.reverted
    /\ pc' = "tell"
    /\ UNCHANGED <<home, running, snap, server, hand, faults, disturbed>>

\* A switch that was recorded and not made is resumed under the claim, or
\* dropped; otherwise current says how the switch ended.
Decide ==
    /\ pc = "decide"
    /\ IF ~snap.reverted /\ snap.from # snap.to /\ current = snap.from
       THEN /\ ok' = TRUE
            /\ pc' = IF claim = "held" THEN "previous" ELSE "clear"
       ELSE /\ ok' = (~snap.reverted /\ current = snap.to)
            /\ pc' = "tell"
    /\ UNCHANGED <<home, running, snap, server, hand, faults, disturbed>>

\* The claim is renewed and the plan completed; a refusal keeps nothing.
Tell ==
    /\ pc = "tell"
    /\ Report("clear")
    /\ UNCHANGED <<home, running, snap, ok, plans, hand, disturbed>>

\* clear_pending: first the count, whose removal may fail unnoticed, then the
\* switch.
Clear ==
    /\ pc \in {"clear", "drop"}
    /\ \/ attempts' = 0 /\ UNCHANGED faults
       \/ Fault /\ UNCHANGED attempts
    /\ pc' = "remove" /\ ok' = (pc = "clear")
    /\ UNCHANGED <<current, previous, pending, failed, running, snap, server, hand, disturbed>>

\* After a switch that failed the step is reported, else the poll is over.
Remove ==
    /\ pc = "remove"
    /\ \E w \in Written :
          /\ Write(w)
          /\ pending' = IF w = "lost" THEN pending ELSE None
          /\ pc' = IF w = "done" /\ ~ok THEN "complete" ELSE "poll"
    /\ snap' = None
    /\ UNCHANGED <<current, previous, attempts, failed, running, ok, server, hand, disturbed>>

-----------------------------------------------------------------------------
(* What goes wrong. *)

\* The process, or prestart, dies.
Crash ==
    /\ pc # "down" /\ Fault
    /\ pc' = "down" /\ running' = None /\ snap' = None
    /\ UNCHANGED <<home, ok, server, hand, disturbed>>

\* tenkai-runtime revert, by hand: it reads the switch, ...
HandRead ==
    /\ hand.pc = "idle" /\ pending # None /\ Fault
    /\ hand' = [pc |-> IF pending.reverted THEN "mark" ELSE "write", snap |-> pending]
    /\ UNCHANGED <<home, process, server, disturbed>>

\* ... records the intent, ...
HandWrite ==
    /\ hand.pc = "write"
    /\ pending' = [hand.snap EXCEPT !.reverted = TRUE]
    /\ hand' = [pc |-> "mark", snap |-> pending']
    /\ disturbed' = (disturbed \/ pc # "down" \/ pending # hand.snap)
    /\ UNCHANGED <<current, previous, attempts, failed, process, server, faults>>

\* ... marks the version ...
HandMark ==
    /\ hand.pc = "mark"
    /\ failed' = IF hand.snap.to = hand.snap.from THEN failed ELSE failed \cup {hand.snap.to}
    /\ hand' = [hand EXCEPT !.pc = "point"]
    /\ UNCHANGED <<current, previous, pending, attempts, process, server, faults, disturbed>>

\* ... and repoints current.
HandPoint ==
    /\ hand.pc = "point"
    /\ current' = hand.snap.from
    /\ hand' = [pc |-> "idle", snap |-> None]
    /\ disturbed' = (disturbed \/ pc # "down" \/ pending # hand.snap)
    /\ UNCHANGED <<previous, pending, attempts, failed, process, server, faults>>

Init ==
    /\ current = First /\ previous = First
    /\ pending = None /\ attempts = 0 /\ failed = {}
    /\ running = None /\ pc = "down" /\ snap = None /\ ok = FALSE
    /\ hand = [pc |-> "idle", snap |-> None]
    /\ step = [to |-> First, restart |-> FALSE, outcome |-> "none"]
    /\ claim = "none" /\ plans = 0 /\ faults = 0 /\ disturbed = FALSE

Supervisor == Prestart \/ Count \/ Intent \/ Start
Agent ==
    \/ Poll \/ Stage \/ WritePending \/ SwitchPrevious \/ SwitchCurrent \/ Complete
    \/ Decide \/ Tell \/ Clear \/ Remove
Hand == HandWrite \/ HandMark \/ HandPoint

Next ==
    \/ \E v \in Versions, restart \in BOOLEAN : NewPlan(v, restart)
    \/ LoseClaim \/ Supervisor \/ Mark \/ Point \/ Agent \/ Crash \/ HandRead \/ Hand

\* The supervisor restarts, the process runs, the operator's command ends.
Fairness == WF_vars(Supervisor \/ Mark \/ Point \/ Agent) /\ WF_vars(Hand)

Spec == Init /\ [][Next]_vars /\ Fairness

-----------------------------------------------------------------------------
(* Properties. *)

\* Whatever was written last before a crash, the host comes back: prestart runs
\* from a version that works, and a current version that does not start is the
\* target of a recorded switch from one that does.
Recoverable ==
    \/ disturbed
    \/ /\ previous \notin Broken
       /\ current \in Broken =>
             pending # None /\ pending.to = current /\ pending.from \notin Broken

\* A step is reported as succeeded only while the version it asks for is
\* running; an interrupted or reverted switch is never read as a successful one.
\* It is reported as failed only while its version is not current, restarts
\* aside, or before anything was touched: a download or verification that fails
\* refuses even the running version, and then no switch is on record and what
\* runs is still what is current.
HonestReport ==
    [][step'.outcome # step.outcome /\ ~disturbed' =>
          /\ step'.outcome = "succeeded" => running = step.to /\ current = step.to
          /\ step'.outcome = "failed" =>
                \/ current # step.to \/ step.restart
                \/ pc = "refuse" /\ pending = None /\ running = current]_vars

\* A version that was marked as failed is not made current again.
FailedStaysOut == [][current' # current => current' \notin failed \/ disturbed']_vars

\* The agent comes back, a recorded switch is reported or dropped, and the step
\* gets its answer.
AgentReturns ==
    []<>((pc = "poll" /\ pending = None /\ step.outcome # "open") \/ disturbed)
=============================================================================
