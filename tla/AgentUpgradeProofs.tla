------------------------- MODULE AgentUpgradeProofs -------------------------
(***************************************************************************)
(* Proofs about AgentUpgrade.  The inductive invariant relates the two     *)
(* links, the recorded switch and the marks of failed versions at every    *)
(* place where the supervisor, the agent or the operator's revert may be   *)
(* when the process dies.                                                  *)
(***************************************************************************)
EXTENDS AgentUpgrade, TLAPS

Types ==
    /\ current \in Versions /\ previous \in Versions
    /\ pending \in Pendings \cup {None} /\ snap \in Pendings \cup {None}
    /\ attempts \in Nat /\ attempts <= MaxStarts
    /\ failed \subseteq Versions
    /\ running \in (Versions \ Broken) \cup {None}
    /\ pc \in Pcs /\ ok \in BOOLEAN
    /\ hand \in [pc : {"idle", "write", "mark", "point"}, snap : Pendings \cup {None}]
    /\ step \in [to : Versions, restart : BOOLEAN, outcome : Outcomes]
    /\ claim \in {"none", "held", "lost"}
    /\ plans \in 0..MaxPlans /\ faults \in 0..MaxFaults /\ disturbed \in BOOLEAN

\* Where nothing runs, where the agent runs, and where one of them works on the
\* switch it read or wrote.
Stopped == {"down", "prestart", "count", "intent", "start"}
Up == {"poll", "stage", "write", "previous", "current", "refuse", "complete", "decide", "tell",
       "clear", "drop", "remove"}
OnSwitch == {"count", "intent", "mark", "point", "previous", "current", "decide", "tell", "clear",
             "drop"}

\* The step that the agent works on without a recorded switch to report.
Working ==
    \/ pc \in {"stage", "write", "refuse", "complete", "drop"}
    \/ pc \in {"previous", "current", "remove"} /\ ~ok

Local ==
    /\ pc \in Stopped => running = None
    /\ pc \in Up => running # None
    /\ pc \in OnSwitch => snap # None
    /\ hand.pc # "idle" => hand.snap # None
    /\ pc = "count" => attempts < MaxStarts
    /\ claim = "held" => step.outcome = "open"
    /\ Working => step.outcome = "open"

\* The links and the marks, against the recorded switch.
Links ==
    /\ previous \notin Broken
    /\ pending # None =>
          /\ pending.from \notin Broken /\ pending.from \notin failed
          /\ current = pending.from \/ current = pending.to
          /\ ~pending.reverted => pending.to \notin failed
    /\ current \in failed =>
          pending # None /\ pending.reverted /\ pending.to = current /\ pending.from # pending.to
    /\ current \in Broken => pending # None /\ pending.to = current
    /\ running # None => current = running

\* A revert is carried out before anything runs.
Reverted ==
    /\ (pc = "start" \/ running # None) /\ pending # None /\ pending.reverted =>
          current = pending.from /\ (pending.to = pending.from \/ pending.to \in failed)
    /\ pc = "point" => snap.to = snap.from \/ snap.to \in failed
    /\ hand.pc = "mark" /\ hand.snap.to # hand.snap.from =>
          \/ hand.snap.to \in failed
          \/ /\ pending # None /\ pending.reverted
             /\ pending.to = hand.snap.to /\ pending.from = hand.snap.from

\* What the supervisor and the agent know of the recorded switch.
Read ==
    /\ pc \in OnSwitch => pending = snap
    /\ pc \in {"mark", "point"} => snap.reverted
    /\ pc \in {"count", "intent"} => ~snap.reverted
    /\ pc \in {"previous", "current"} => ~snap.reverted /\ current = snap.from
    /\ pc \in {"stage", "write", "refuse"} => pending = None
    /\ pc = "tell" => (ok <=> ~snap.reverted /\ current = snap.to)

\* The recorded switch, against the step that is claimed.
Asked ==
    /\ claim = "held" /\ pending # None =>
          /\ pending.to = step.to
          /\ pending.from = pending.to => step.restart
    /\ pc \in {"write", "drop"} \/ (pc \in {"previous", "current", "remove", "complete"} /\ ~ok) =>
          current # step.to \/ step.restart
    /\ pc = "complete" /\ ok => current = step.to
    /\ pc = "refuse" => ~ok
    /\ pc = "write" => step.to \notin failed

Sound == Links /\ Reverted /\ Read /\ Asked

Inv == Types /\ Local /\ (disturbed \/ Sound)

-----------------------------------------------------------------------------
(* Every step keeps the invariant. *)

\* The server gives out a plan only when the last step is answered.
LEMMA NewPlanKeeps ==
    ASSUME Inv, NEW v \in Versions, NEW restart \in BOOLEAN, NewPlan(v, restart) PROVE Inv'
<1>. USE UpgradeAssumption DEF NewPlan, home, process, server
<1>1. Types'
  BY DEF Inv, Types, Outcomes
<1>2. Local'
  BY DEF Inv, Local
<1>3. ASSUME ~disturbed' PROVE Sound'
  <2>1. ~disturbed /\ Sound /\ Types /\ Local
    BY <1>3 DEF Inv
  <2>2. Links'
    BY <1>3, <2>1 DEF Links, Sound
  <2>3. Reverted'
    BY <1>3, <2>1 DEF Reverted, Sound
  <2>4. Read'
    BY <1>3, <2>1 DEF Read, Sound
  <2>5. Asked'
    BY <1>3, <2>1 DEF Asked, Local, Working
  <2>. QED BY <2>2, <2>3, <2>4, <2>5 DEF Sound
<1>. QED BY <1>1, <1>2, <1>3 DEF Inv

\* A claim that lapses changes nothing at home.
LEMMA LoseClaimKeeps == ASSUME Inv, LoseClaim PROVE Inv'
<1>. USE UpgradeAssumption DEF LoseClaim, Fault, home, process, server
<1>1. Types'
  BY DEF Inv, Types
<1>2. Local'
  BY DEF Inv, Local
<1>3. ASSUME ~disturbed' PROVE Sound'
  <2>1. ~disturbed /\ Sound /\ Types /\ Local
    BY <1>3 DEF Inv
  <2>2. Links'
    BY <1>3, <2>1 DEF Links, Sound
  <2>3. Reverted'
    BY <1>3, <2>1 DEF Reverted, Sound
  <2>4. Read'
    BY <1>3, <2>1 DEF Read, Sound
  <2>5. Asked'
    BY <1>3, <2>1 DEF Asked, Sound
  <2>. QED BY <2>2, <2>3, <2>4, <2>5 DEF Sound
<1>. QED BY <1>1, <1>2, <1>3 DEF Inv

\* prestart takes the switch it finds as it is.
LEMMA PrestartKeeps == ASSUME Inv, Prestart PROVE Inv'
<1>. USE UpgradeAssumption DEF Prestart, home, process, server
<1>1. Types'
  BY DEF Inv, Types, Pcs
<1>2. Local'
  BY DEF Inv, Types, Local, Stopped, Up, OnSwitch, Working
<1>3. ASSUME ~disturbed' PROVE Sound'
  <2>1. ~disturbed /\ Sound /\ Types /\ Local
    BY <1>3 DEF Inv
  <2>2. Links'
    BY <1>3, <2>1 DEF Links, Sound
  <2>3. Reverted'
    BY <1>3, <2>1 DEF Reverted, Sound
  <2>4. Read'
    BY <1>3, <2>1 DEF Read
  <2>5. Asked'
    BY <1>3, <2>1 DEF Asked, Sound
  <2>. QED BY <2>2, <2>3, <2>4, <2>5 DEF Sound
<1>. QED BY <1>1, <1>2, <1>3 DEF Inv

\* The count stays within the bound because it is read first.
LEMMA CountKeeps == ASSUME Inv, Count PROVE Inv'
<1>. USE UpgradeAssumption DEF Count, Written, Write, Fault, home, process, server
<1>1. Types'
  BY DEF Inv, Types, Local, Pcs
<1>2. Local'
  BY DEF Inv, Local, Stopped, Up, OnSwitch, Working
<1>3. ASSUME ~disturbed' PROVE Sound'
  <2>1. ~disturbed /\ Sound /\ Types /\ Local
    BY <1>3 DEF Inv
  <2>2. Links'
    BY <1>3, <2>1 DEF Links, Sound
  <2>3. Reverted'
    BY <1>3, <2>1 DEF Reverted, Read, Sound, OnSwitch
  <2>4. Read'
    BY <1>3, <2>1 DEF Read, OnSwitch
  <2>5. Asked'
    BY <1>3, <2>1 DEF Asked, Sound
  <2>. QED BY <2>2, <2>3, <2>4, <2>5 DEF Sound
<1>. QED BY <1>1, <1>2, <1>3 DEF Inv

\* The intent keeps both ends of the switch.
LEMMA IntentKeeps == ASSUME Inv, Intent PROVE Inv'
<1>. USE UpgradeAssumption DEF Intent, Written, Write, Fault, home, process, server
<1>0. snap \in Pendings
  BY DEF Inv, Types, Local, OnSwitch
<1>. DEFINE r == [snap EXCEPT !.reverted = TRUE]
<1>a. r \in Pendings /\ r # None /\ r.from = snap.from /\ r.to = snap.to /\ r.reverted
  BY <1>0 DEF Pendings
<1>b. PICK w \in Written :
          /\ Write(w)
          /\ pending' = IF w = "lost" THEN pending ELSE r
          /\ pc' = IF w = "done" THEN "mark" ELSE "down"
  OBVIOUS
<1>c. /\ pc = "intent" /\ snap' = r
       /\ UNCHANGED <<current, previous, attempts, failed, running, ok, server, hand, disturbed>>
  OBVIOUS
<1>. HIDE DEF r, Intent
<1>1. Types'
  BY <1>a, <1>b, <1>c DEF Inv, Types, Pcs
<1>2. Local'
  BY <1>a, <1>b, <1>c DEF Inv, Local, Stopped, Up, Working
<1>3. ASSUME ~disturbed' PROVE Sound'
  <2>1. ~disturbed /\ Sound /\ Types /\ Local
    BY <1>c, <1>3 DEF Inv
  <2>2. Links'
    BY <1>a, <1>b, <1>c, <1>3, <2>1 DEF Links, Read, Sound, Local, OnSwitch
  <2>3. Reverted'
    BY <1>a, <1>b, <1>c, <1>3, <2>1 DEF Reverted, Read, Sound, Local, Stopped, OnSwitch
  <2>4. Read'
    BY <1>a, <1>b, <1>c, <1>3, <2>1 DEF Read, OnSwitch
  <2>5. Asked'
    BY <1>a, <1>b, <1>c, <1>3, <2>1 DEF Asked, Read, Sound, Local, OnSwitch
  <2>. QED BY <2>2, <2>3, <2>4, <2>5 DEF Sound
<1>. QED BY <1>1, <1>2, <1>3 DEF Inv

\* What is current is started, and the switch it came by still says so.
LEMMA StartKeeps == ASSUME Inv, Start PROVE Inv'
<1>. USE UpgradeAssumption DEF Start, home, process, server
<1>1. Types'
  BY DEF Inv, Types, Pcs
<1>2. Local'
  BY DEF Inv, Types, Local, Stopped, Up, OnSwitch, Working
<1>3. ASSUME ~disturbed' PROVE Sound'
  <2>1. ~disturbed /\ Sound /\ Types /\ Local
    BY <1>3 DEF Inv
  <2>2. Links'
    BY <1>3, <2>1 DEF Links, Sound
  <2>3. Reverted'
    BY <1>3, <2>1 DEF Reverted, Sound
  <2>4. Read'
    BY <1>3, <2>1 DEF Read, OnSwitch
  <2>5. Asked'
    BY <1>3, <2>1 DEF Asked, Sound
  <2>. QED BY <2>2, <2>3, <2>4, <2>5 DEF Sound
<1>. QED BY <1>1, <1>2, <1>3 DEF Inv

\* The mark goes to the target of a reverted switch.
LEMMA MarkKeeps == ASSUME Inv, Mark PROVE Inv'
<1>. USE UpgradeAssumption DEF Mark, Written, WriteIf, Write, Fault, Retry, home, process, server
<1>1. Types'
  BY DEF Inv, Types, Local, Pendings, Pcs, OnSwitch
<1>2. Local'
  BY DEF Inv, Local, Stopped, Up, OnSwitch, Working
<1>3. ASSUME ~disturbed' PROVE Sound'
  <2>1. ~disturbed /\ Sound /\ Types /\ Local
    BY <1>3 DEF Inv
  <2>2. Links'
    BY <1>3, <2>1 DEF Links, Read, Sound, Local, OnSwitch
  <2>3. Reverted'
    BY <1>3, <2>1 DEF Reverted, Sound
  <2>4. Read'
    BY <1>3, <2>1 DEF Read, Sound, OnSwitch
  <2>5. Asked'
    BY <1>3, <2>1 DEF Asked, Sound
  <2>. QED BY <2>2, <2>3, <2>4, <2>5 DEF Sound
<1>. QED BY <1>1, <1>2, <1>3 DEF Inv

\* current goes back to a version that was not marked.
LEMMA PointKeeps == ASSUME Inv, Point PROVE Inv'
<1>. USE UpgradeAssumption DEF Point, Written, WriteIf, Write, Fault, Retry, home, process, server
<1>1. Types'
  BY DEF Inv, Types, Local, Pendings, Pcs, OnSwitch
<1>2. Local'
  BY DEF Inv, Local, Stopped, Up, OnSwitch, Working
<1>3. ASSUME ~disturbed' PROVE Sound'
  <2>1. ~disturbed /\ Sound /\ Types /\ Local
    BY <1>3 DEF Inv
  <2>2. Links'
    BY <1>3, <2>1 DEF Links, Reverted, Read, Sound, Local, OnSwitch
  <2>3. Reverted'
    BY <1>3, <2>1 DEF Reverted, Read, Sound, OnSwitch
  <2>4. Read'
    BY <1>3, <2>1 DEF Read, Sound, OnSwitch
  <2>5. Asked'
    BY <1>3, <2>1 DEF Asked, Sound
  <2>. QED BY <2>2, <2>3, <2>4, <2>5 DEF Sound
<1>. QED BY <1>1, <1>2, <1>3 DEF Inv

\* A poll takes the recorded switch, or claims the step when there is none.
LEMMA PollKeeps == ASSUME Inv, Poll PROVE Inv'
<1>. USE UpgradeAssumption DEF Poll, home, process, server
<1>1. Types'
  BY DEF Inv, Types, Pcs
<1>2. Local'
  BY DEF Inv, Local, Stopped, Up, OnSwitch, Working
<1>3. ASSUME ~disturbed' PROVE Sound'
  <2>1. ~disturbed /\ Sound /\ Types /\ Local
    BY <1>3 DEF Inv
  <2>2. Links'
    BY <1>3, <2>1 DEF Links, Sound
  <2>3. Reverted'
    BY <1>3, <2>1 DEF Reverted, Sound
  <2>4. Read'
    BY <1>3, <2>1 DEF Read, OnSwitch
  <2>5. Asked'
    BY <1>3, <2>1 DEF Asked, Sound
  <2>. QED BY <2>2, <2>3, <2>4, <2>5 DEF Sound
<1>. QED BY <1>1, <1>2, <1>3 DEF Inv

\* What is staged was not marked, and is a change or a restart.
LEMMA StageKeeps == ASSUME Inv, Stage PROVE Inv'
<1>. USE UpgradeAssumption DEF Stage, Fault, home, process, server
<1>0. ok' \in BOOLEAN
  BY Zenon DEF Inv, Types
<1>1. Types'
  BY <1>0 DEF Inv, Types, Pcs
<1>2. Local'
  BY DEF Inv, Local, Stopped, Up, OnSwitch, Working
<1>3. ASSUME ~disturbed' PROVE Sound'
  <2>1. ~disturbed /\ Sound /\ Types /\ Local
    BY <1>3 DEF Inv
  <2>2. Links'
    BY <1>3, <2>1 DEF Links, Sound
  <2>3. Reverted'
    BY <1>3, <2>1 DEF Reverted, Sound
  <2>4. Read'
    BY <1>3, <2>1 DEF Read, Sound, OnSwitch
  <2>5. Asked'
    BY <1>3, <2>1 DEF Asked, Links, Read, Sound
  <2>. QED BY <2>2, <2>3, <2>4, <2>5 DEF Sound
<1>. QED BY <1>1, <1>2, <1>3 DEF Inv

\* The switch is recorded as the step asks for it.
LEMMA WritePendingKeeps == ASSUME Inv, WritePending PROVE Inv'
<1>. USE UpgradeAssumption DEF WritePending, Written, Write, Fault, home, process, server
<1>. DEFINE r == [from |-> current, to |-> step.to, reverted |-> FALSE]
<1>0. current \in Versions /\ step.to \in Versions
  BY DEF Inv, Types
<1>a. r \in Pendings /\ r # None /\ r.from = current /\ r.to = step.to /\ ~r.reverted
  <2>1. r \in Pendings
    BY <1>0 DEF Pendings
  <2>2. r.from = current /\ r.to = step.to /\ r.reverted = FALSE
    OBVIOUS
  <2>. QED BY <2>1, <2>2
<1>b. PICK w \in Written :
          /\ Write(w)
          /\ pending' = IF w = "lost" THEN pending ELSE r
          /\ pc' = IF w = "done" THEN "previous" ELSE "poll"
  OBVIOUS
<1>c. /\ pc = "write" /\ snap' = r /\ ok' = FALSE
       /\ UNCHANGED <<current, previous, attempts, failed, running, server, hand, disturbed>>
  OBVIOUS
<1>. HIDE DEF r, WritePending
<1>d. ok' \in BOOLEAN
  BY <1>c
<1>1. Types'
  BY <1>a, <1>b, <1>c, <1>d DEF Inv, Types, Pcs
<1>2. Local'
  BY <1>a, <1>b, <1>c DEF Inv, Local, Stopped, Up, Working
<1>3. ASSUME ~disturbed' PROVE Sound'
  <2>1. ~disturbed /\ Sound /\ Types /\ Local
    BY <1>c, <1>3 DEF Inv
  <2>2. Links'
    BY <1>a, <1>b, <1>c, <1>3, <2>1 DEF Links, Read, Sound, Asked
  <2>3. Reverted'
    BY <1>a, <1>b, <1>c, <1>3, <2>1 DEF Reverted, Read, Sound
  <2>4. Read'
    BY <1>a, <1>b, <1>c, <1>3, <2>1 DEF Read, OnSwitch
  <2>5. Asked'
    BY <1>a, <1>b, <1>c, <1>3, <2>1 DEF Asked, Sound
  <2>. QED BY <2>2, <2>3, <2>4, <2>5 DEF Sound
<1>. QED BY <1>1, <1>2, <1>3 DEF Inv

\* previous becomes a version that runs.
LEMMA SwitchPreviousKeeps == ASSUME Inv, SwitchPrevious PROVE Inv'
<1>. USE UpgradeAssumption DEF SwitchPrevious, Written, WriteIf, Write, Fault, SwitchFails,
      home, process, server
<1>1. Types'
  BY DEF Inv, Types, Pcs
<1>2. Local'
  BY DEF Inv, Local, Stopped, Up, OnSwitch, Working
<1>3. ASSUME ~disturbed' PROVE Sound'
  <2>1. ~disturbed /\ Sound /\ Types /\ Local
    BY <1>3 DEF Inv
  <2>2. Links'
    BY <1>3, <2>1 DEF Links, Sound, Types, Local, Up
  <2>3. Reverted'
    BY <1>3, <2>1 DEF Reverted, Sound
  <2>4. Read'
    BY <1>3, <2>1 DEF Read, Sound, OnSwitch
  <2>5. Asked'
    BY <1>3, <2>1 DEF Asked, Sound
  <2>. QED BY <2>2, <2>3, <2>4, <2>5 DEF Sound
<1>. QED BY <1>1, <1>2, <1>3 DEF Inv

\* current becomes the target of a switch that is on record.
LEMMA SwitchCurrentKeeps == ASSUME Inv, SwitchCurrent PROVE Inv'
<1>. USE UpgradeAssumption DEF SwitchCurrent, Written, Write, Fault, SwitchFails, home, process, server
<1>1. Types'
  BY DEF Inv, Types, Local, Pendings, Pcs, OnSwitch
<1>2. Local'
  BY DEF Inv, Local, Stopped, Up, OnSwitch, Working
<1>3. ASSUME ~disturbed' PROVE Sound'
  <2>1. ~disturbed /\ Sound /\ Types /\ Local
    BY <1>3 DEF Inv
  <2>a. PICK w \in Written :
          /\ current' = IF w = "lost" THEN current ELSE snap.to
          /\ disturbed' = (disturbed \/ w = "unsynced")
          /\ IF w = "done" THEN pc' = "down" /\ running' = None
             ELSE SwitchFails /\ UNCHANGED running
    OBVIOUS
  <2>b. w # "unsynced"
    BY <1>3, <2>a, Zenon
  <2>2. Links'
    BY <1>3, <2>1, <2>a, <2>b DEF Links, Read, Sound, Local, OnSwitch
  <2>3. Reverted'
    BY <1>3, <2>1 DEF Reverted, Sound
  <2>4. Read'
    BY <1>3, <2>1 DEF Read, Sound, OnSwitch
  <2>5. Asked'
    BY <1>3, <2>1 DEF Asked, Sound
  <2>. QED BY <2>2, <2>3, <2>4, <2>5 DEF Sound
<1>. QED BY <1>1, <1>2, <1>3 DEF Inv

\* The report of a step without a switch.
LEMMA CompleteKeeps == ASSUME Inv, Complete PROVE Inv'
<1>. USE UpgradeAssumption DEF Complete, Report, Fault, home, process, server
<1>1. Types'
  BY DEF Inv, Types, Pcs, Outcomes
<1>2. Local'
  BY DEF Inv, Local, Stopped, Up, OnSwitch, Working
<1>3. ASSUME ~disturbed' PROVE Sound'
  <2>1. ~disturbed /\ Sound /\ Types /\ Local
    BY <1>3 DEF Inv
  <2>2. Links'
    BY <1>3, <2>1 DEF Links, Sound
  <2>3. Reverted'
    BY <1>3, <2>1 DEF Reverted, Sound
  <2>4. Read'
    BY <1>3, <2>1 DEF Read, OnSwitch
  <2>5. Asked'
    BY <1>3, <2>1 DEF Asked, Sound
  <2>. QED BY <2>2, <2>3, <2>4, <2>5 DEF Sound
<1>. QED BY <1>1, <1>2, <1>3 DEF Inv

\* current decides, and only when the switch is over.
LEMMA DecideKeeps == ASSUME Inv, Decide PROVE Inv'
<1>. USE UpgradeAssumption DEF Decide, home, process, server
<1>0. ok' \in BOOLEAN
  BY Zenon DEF Inv
<1>1. Types'
  BY <1>0 DEF Inv, Types, Pcs
<1>2. Local'
  BY DEF Inv, Local, Stopped, Up, OnSwitch, Working
<1>3. ASSUME ~disturbed' PROVE Sound'
  <2>1. ~disturbed /\ Sound /\ Types /\ Local
    BY <1>3 DEF Inv
  <2>2. Links'
    BY <1>3, <2>1 DEF Links, Sound
  <2>3. Reverted'
    BY <1>3, <2>1 DEF Reverted, Sound
  <2>4. Read'
    BY <1>3, <2>1 DEF Read, Sound, OnSwitch
  <2>5. Asked'
    BY <1>3, <2>1 DEF Asked, Sound
  <2>. QED BY <2>2, <2>3, <2>4, <2>5 DEF Sound
<1>. QED BY <1>1, <1>2, <1>3 DEF Inv

\* The report of a switch.
LEMMA TellKeeps == ASSUME Inv, Tell PROVE Inv'
<1>. USE UpgradeAssumption DEF Tell, Report, Fault, home, process, server
<1>1. Types'
  BY DEF Inv, Types, Pcs, Outcomes
<1>2. Local'
  BY DEF Inv, Local, Stopped, Up, OnSwitch, Working
<1>3. ASSUME ~disturbed' PROVE Sound'
  <2>1. ~disturbed /\ Sound /\ Types /\ Local
    BY <1>3 DEF Inv
  <2>2. Links'
    BY <1>3, <2>1 DEF Links, Sound
  <2>3. Reverted'
    BY <1>3, <2>1 DEF Reverted, Sound
  <2>4. Read'
    BY <1>3, <2>1 DEF Read, Sound, OnSwitch
  <2>5. Asked'
    BY <1>3, <2>1 DEF Asked, Sound
  <2>. QED BY <2>2, <2>3, <2>4, <2>5 DEF Sound
<1>. QED BY <1>1, <1>2, <1>3 DEF Inv

\* The count goes before the record.
LEMMA ClearKeeps == ASSUME Inv, Clear PROVE Inv'
<1>. USE UpgradeAssumption DEF Clear, Fault, home, process, server
<1>1. Types'
  BY DEF Inv, Types, Pcs
<1>2. Local'
  BY DEF Inv, Local, Stopped, Up, OnSwitch, Working
<1>3. ASSUME ~disturbed' PROVE Sound'
  <2>1. ~disturbed /\ Sound /\ Types /\ Local
    BY <1>3 DEF Inv
  <2>2. Links'
    BY <1>3, <2>1 DEF Links, Sound
  <2>3. Reverted'
    BY <1>3, <2>1 DEF Reverted, Sound
  <2>4. Read'
    BY <1>3, <2>1 DEF Read, OnSwitch
  <2>5. Asked'
    BY <1>3, <2>1 DEF Asked, Sound
  <2>. QED BY <2>2, <2>3, <2>4, <2>5 DEF Sound
<1>. QED BY <1>1, <1>2, <1>3 DEF Inv

\* The record goes when it is reported.
LEMMA RemoveKeeps == ASSUME Inv, Remove PROVE Inv'
<1>. USE UpgradeAssumption DEF Remove, Written, Write, Fault, home, process, server
<1>1. Types'
  BY DEF Inv, Types, Pcs
<1>2. Local'
  BY DEF Inv, Local, Stopped, Up, OnSwitch, Working
<1>3. ASSUME ~disturbed' PROVE Sound'
  <2>1. ~disturbed /\ Sound /\ Types /\ Local
    BY <1>3 DEF Inv
  <2>2. Links'
    BY <1>3, <2>1 DEF Links, Reverted, Sound, Types, Local, Up
  <2>3. Reverted'
    BY <1>3, <2>1 DEF Reverted, Sound, Local, Up
  <2>4. Read'
    BY <1>3, <2>1 DEF Read, OnSwitch
  <2>5. Asked'
    BY <1>3, <2>1 DEF Asked, Sound
  <2>. QED BY <2>2, <2>3, <2>4, <2>5 DEF Sound
<1>. QED BY <1>1, <1>2, <1>3 DEF Inv

\* What was written stays written.
LEMMA CrashKeeps == ASSUME Inv, Crash PROVE Inv'
<1>. USE UpgradeAssumption DEF Crash, Fault, home, process, server
<1>1. Types'
  BY DEF Inv, Types, Pcs
<1>2. Local'
  BY DEF Inv, Local, Up, OnSwitch, Working
<1>3. ASSUME ~disturbed' PROVE Sound'
  <2>1. ~disturbed /\ Sound /\ Types /\ Local
    BY <1>3 DEF Inv
  <2>2. Links'
    BY <1>3, <2>1 DEF Links, Sound
  <2>3. Reverted'
    BY <1>3, <2>1 DEF Reverted, Sound
  <2>4. Read'
    BY <1>3, <2>1 DEF Read, OnSwitch
  <2>5. Asked'
    BY <1>3, <2>1 DEF Asked, Sound
  <2>. QED BY <2>2, <2>3, <2>4, <2>5 DEF Sound
<1>. QED BY <1>1, <1>2, <1>3 DEF Inv

\* The operator reads the record.
LEMMA HandReadKeeps == ASSUME Inv, HandRead PROVE Inv'
<1>. USE UpgradeAssumption DEF HandRead, Fault, home, process, server
<1>1. Types'
  BY DEF Inv, Types
<1>2. Local'
  BY DEF Inv, Local, Working
<1>3. ASSUME ~disturbed' PROVE Sound'
  <2>1. ~disturbed /\ Sound /\ Types /\ Local
    BY <1>3 DEF Inv
  <2>2. Links'
    BY <1>3, <2>1 DEF Links, Sound
  <2>3. Reverted'
    BY <1>3, <2>1 DEF Reverted, Sound
  <2>4. Read'
    BY <1>3, <2>1 DEF Read, Sound
  <2>5. Asked'
    BY <1>3, <2>1 DEF Asked, Sound
  <2>. QED BY <2>2, <2>3, <2>4, <2>5 DEF Sound
<1>. QED BY <1>1, <1>2, <1>3 DEF Inv

\* The operator writes the intent on the record that was read.
LEMMA HandWriteKeeps == ASSUME Inv, HandWrite PROVE Inv'
<1>. USE UpgradeAssumption DEF HandWrite, home, process, server
<1>0. hand.snap \in Pendings
  BY DEF Inv, Types, Local
<1>. DEFINE r == [hand.snap EXCEPT !.reverted = TRUE]
<1>a. r \in Pendings /\ r # None /\ r.from = hand.snap.from /\ r.to = hand.snap.to /\ r.reverted
  BY <1>0 DEF Pendings
<1>b. hand' = [pc |-> "mark", snap |-> r] /\ hand'.pc = "mark" /\ hand'.snap = r
  OBVIOUS
<1>c. /\ hand.pc = "write" /\ pending' = r
       /\ disturbed' = (disturbed \/ pc # "down" \/ pending # hand.snap)
       /\ UNCHANGED <<current, previous, attempts, failed, process, server, faults>>
  OBVIOUS
<1>. HIDE DEF r, HandWrite
<1>d. disturbed' \in BOOLEAN
  BY <1>c, Zenon DEF Inv
<1>1. Types'
  BY <1>a, <1>b, <1>c, <1>d DEF Inv, Types
<1>2. Local'
  BY <1>a, <1>b, <1>c DEF Inv, Local, Working
<1>3. ASSUME ~disturbed' PROVE Sound'
  <2>1. ~disturbed /\ Sound /\ Types /\ Local
    BY <1>c, <1>3, Zenon DEF Inv
  <2>2. Links'
    BY <1>a, <1>b, <1>c, <1>3, <2>1 DEF Links, Sound, Local
  <2>3. Reverted'
    BY <1>a, <1>b, <1>c, <1>3, <2>1 DEF Reverted, Local, Stopped
  <2>4. Read'
    BY <1>a, <1>b, <1>c, <1>3, <2>1 DEF Read, OnSwitch
  <2>5. Asked'
    BY <1>a, <1>b, <1>c, <1>3, <2>1 DEF Asked, Sound, Local
  <2>. QED BY <2>2, <2>3, <2>4, <2>5 DEF Sound
<1>. QED BY <1>1, <1>2, <1>3 DEF Inv

\* The operator marks the target of a switch that is reverted.
LEMMA HandMarkKeeps == ASSUME Inv, HandMark PROVE Inv'
<1>. USE UpgradeAssumption DEF HandMark, home, process, server
<1>1. Types'
  BY DEF Inv, Types, Local, Pendings
<1>2. Local'
  BY DEF Inv, Local, Working
<1>3. ASSUME ~disturbed' PROVE Sound'
  <2>1. ~disturbed /\ Sound /\ Types /\ Local
    BY <1>3 DEF Inv
  <2>2. Links'
    BY <1>3, <2>1 DEF Links, Reverted, Sound
  <2>3. Reverted'
    BY <1>3, <2>1 DEF Reverted, Sound
  <2>4. Read'
    BY <1>3, <2>1 DEF Read, Sound
  <2>5. Asked'
    BY <1>3, <2>1 DEF Asked, Reverted, Read, Sound
  <2>. QED BY <2>2, <2>3, <2>4, <2>5 DEF Sound
<1>. QED BY <1>1, <1>2, <1>3 DEF Inv

\* The operator repoints current, by the record that was read.
LEMMA HandPointKeeps == ASSUME Inv, HandPoint PROVE Inv'
<1>. USE UpgradeAssumption DEF HandPoint, home, process, server
<1>1. Types'
  BY DEF Inv, Types, Local, Pendings
<1>2. Local'
  BY DEF Inv, Local, Working
<1>3. ASSUME ~disturbed' PROVE Sound'
  <2>1. ~disturbed /\ Sound /\ Types /\ Local
    BY <1>3 DEF Inv
  <2>2. Links'
    BY <1>3, <2>1 DEF Links, Sound, Local, Stopped
  <2>3. Reverted'
    BY <1>3, <2>1 DEF Reverted, Sound
  <2>4. Read'
    BY <1>3, <2>1 DEF Read, Sound
  <2>5. Asked'
    BY <1>3, <2>1 DEF Asked, Sound
  <2>. QED BY <2>2, <2>3, <2>4, <2>5 DEF Sound
<1>. QED BY <1>1, <1>2, <1>3 DEF Inv

-----------------------------------------------------------------------------
(* The invariant, and what follows from it. *)

LEMMA NextKeeps == ASSUME Inv, [Next]_vars PROVE Inv'
<1>1. CASE UNCHANGED vars
  <2>1. UNCHANGED <<home, process, server, hand, faults, disturbed>>
    BY <1>1 DEF vars
  <2>2. Types' /\ Local'
    BY <2>1 DEF Inv, Types, Local, Working, home, process, server
  <2>3. disturbed' \/ Sound'
    BY <2>1 DEF Inv, Sound, Links, Reverted, Read, Asked, home, process, server
  <2>. QED BY <2>2, <2>3 DEF Inv
<1>2. CASE Next
  BY <1>2, NewPlanKeeps, LoseClaimKeeps, PrestartKeeps, CountKeeps, IntentKeeps, StartKeeps,
     MarkKeeps, PointKeeps, PollKeeps, StageKeeps, WritePendingKeeps, SwitchPreviousKeeps,
     SwitchCurrentKeeps, CompleteKeeps, DecideKeeps, TellKeeps, ClearKeeps, RemoveKeeps,
     CrashKeeps, HandReadKeeps, HandWriteKeeps, HandMarkKeeps, HandPointKeeps
     DEF Next, Supervisor, Agent, Hand
<1>. QED BY <1>1, <1>2

LEMMA InitHolds == ASSUME Init PROVE Inv
<1>. USE UpgradeAssumption DEF Init
<1>1. Types
  <2>1. hand \in [pc : {"idle", "write", "mark", "point"}, snap : Pendings \cup {None}]
    OBVIOUS
  <2>2. step \in [to : Versions, restart : BOOLEAN, outcome : Outcomes]
    BY DEF Outcomes
  <2>3. /\ attempts \in Nat /\ attempts <= MaxStarts
        /\ plans \in 0..MaxPlans /\ faults \in 0..MaxFaults
    OBVIOUS
  <2>. QED BY <2>1, <2>2, <2>3 DEF Types, Pcs
<1>2. Local
  BY DEF Local, Up, OnSwitch, Working
<1>3. Sound
  BY DEF Sound, Links, Reverted, Read, Asked, OnSwitch
<1>. QED BY <1>1, <1>2, <1>3 DEF Inv

LEMMA InvHolds == Spec => []Inv
  BY InitHolds, NextKeeps, PTL DEF Spec

\* The variables keep their types, starts are never counted beyond the bound, and
\* only a version that runs is running.
THEOREM TypeCorrect == Spec => []TypeOK
<1>1. Inv => TypeOK
  BY UpgradeAssumption DEF Inv, Types, TypeOK, Sound
<1>. QED BY <1>1, InvHolds, PTL

\* Whatever was written last before the agent or prestart dies, prestart runs
\* from a version that works, and a current version that does not start is the
\* target of a recorded switch from one that does.
THEOREM HostComesBack == Spec => []Recoverable
<1>1. Inv => Recoverable
  BY DEF Inv, Sound, Links, Recoverable
<1>. QED BY <1>1, InvHolds, PTL

\* A step is answered with success only while its version is current and runs,
\* and with failure only while it is not current, restarts aside, or when it was
\* refused with no switch on record and the running version left current.
THEOREM ReportsAreHonest == Spec => HonestReport
<1>. DEFINE Honest ==
       step'.outcome # step.outcome /\ ~disturbed' =>
          /\ step'.outcome = "succeeded" => running = step.to /\ current = step.to
          /\ step'.outcome = "failed" =>
                \/ current # step.to \/ step.restart
                \/ pc = "refuse" /\ pending = None /\ running = current
<1>1. ASSUME Inv, Next, step'.outcome # step.outcome, ~disturbed'
      PROVE  /\ step'.outcome = "succeeded" => running = step.to /\ current = step.to
             /\ step'.outcome = "failed" =>
                   \/ current # step.to \/ step.restart
                   \/ pc = "refuse" /\ pending = None /\ running = current
  <2>1. CASE \E v \in Versions, restart \in BOOLEAN : NewPlan(v, restart)
    BY <2>1 DEF NewPlan
  <2>2. CASE Complete \/ Tell
    <3>1. ~disturbed /\ Links /\ Reverted /\ Read /\ Asked /\ Types /\ Local
      BY <1>1, <2>2 DEF Inv, Sound, Complete, Tell
    <3>2. claim = "held" /\ step'.outcome = IF ok THEN "succeeded" ELSE "failed"
      BY <1>1, <2>2, <3>1 DEF Complete, Tell, Report, Types
    <3>3. CASE Complete
      BY <3>1, <3>2, <3>3 DEF Complete, Links, Read, Asked, Local, Up
    <3>4. CASE Tell
      <4>1. pending # None /\ pending = snap /\ running # None /\ pc = "tell"
        BY <3>1, <3>4 DEF Tell, Read, Local, OnSwitch, Up
      <4>2. pending.to = step.to /\ (pending.from = pending.to => step.restart)
        BY <3>1, <3>2, <4>1 DEF Asked
      <4>3. CASE ok
        BY <3>1, <3>2, <4>1, <4>2, <4>3 DEF Read, Links
      <4>4. CASE ~ok
        BY <3>1, <3>2, <4>1, <4>2, <4>4 DEF Read, Reverted
      <4>. QED BY <4>3, <4>4
    <3>. QED BY <2>2, <3>3, <3>4
  <2>3. CASE UNCHANGED step
    BY <1>1, <2>3
  <2>. QED
    BY <1>1, <2>1, <2>2, <2>3
       DEF Next, Supervisor, Agent, Hand, LoseClaim, Prestart, Count, Intent, Start, Mark, Point,
           Poll, Stage, WritePending, SwitchPrevious, SwitchCurrent, Decide, Clear, Remove, Crash,
           HandRead, HandWrite, HandMark, HandPoint, server
<1>2. Inv /\ [Next]_vars => [Honest]_vars
  BY <1>1
<1>. QED BY <1>2, InvHolds, PTL DEF Spec, HonestReport

\* A version that was marked as failed is not made current again, by a switch, a
\* revert or a revert by hand from a record that still stands.
THEOREM MarkedStaysOut == Spec => FailedStaysOut
<1>1. ASSUME Inv, Next, current' # current, ~disturbed'
      PROVE  current' \notin failed
  <2>1. CASE Point
    <3>1. ~disturbed /\ Sound /\ Local
      BY <1>1, <2>1 DEF Inv, Point
    <3>2. pending # None /\ current' = pending.from
      BY <1>1, <2>1, <3>1 DEF Point, Sound, Read, Local, OnSwitch
    <3>. QED BY <3>1, <3>2 DEF Sound, Links
  <2>2. CASE SwitchCurrent
    <3>1. ~disturbed /\ Sound /\ Local
      BY <1>1, <2>2 DEF Inv, SwitchCurrent
    <3>2. pending # None /\ ~pending.reverted /\ current' = pending.to
      BY <1>1, <2>2, <3>1 DEF SwitchCurrent, Sound, Read, Local, OnSwitch
    <3>. QED BY <3>1, <3>2 DEF Sound, Links
  <2>3. CASE HandPoint
    <3>1. ~disturbed /\ pending = hand.snap
      BY <1>1, <2>3, Zenon DEF HandPoint
    <3>2. Sound /\ Local
      BY <1>1, <3>1 DEF Inv
    <3>3. pending # None /\ current' = pending.from
      BY <2>3, <3>1, <3>2 DEF HandPoint, Local
    <3>. QED BY <3>2, <3>3 DEF Sound, Links
  <2>4. CASE UNCHANGED current
    BY <1>1, <2>4
  <2>. QED
    BY <1>1, <2>1, <2>2, <2>3, <2>4
       DEF Next, Supervisor, Agent, Hand, NewPlan, LoseClaim, Prestart, Count, Intent, Start, Mark,
           Poll, Stage, WritePending, SwitchPrevious, Complete, Decide, Tell, Clear, Remove, Crash,
           HandRead, HandWrite, HandMark, home
<1>2. Inv /\ [Next]_vars => [current' # current => current' \notin failed \/ disturbed']_vars
  BY <1>1
<1>. QED BY <1>2, InvHolds, PTL DEF Spec, FailedStaysOut
=============================================================================
