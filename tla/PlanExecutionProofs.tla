------------------------ MODULE PlanExecutionProofs ------------------------
(***************************************************************************)
(* Proofs about PlanExecution, for any number of attempts and steps.       *)
(***************************************************************************)
EXTENDS PlanExecution, TLAPS

\* The types of what the argument is about; only an attempt at a command runs
\* one, and an attempt starts at the first step.
Typed ==
    /\ generation \in 0..MaxGeneration
    /\ pc \in [Attempts -> Pcs]
    /\ gen \in [Attempts -> 0..MaxGeneration]
    /\ step \in [Attempts -> Steps]
    /\ target \in [Steps -> {"none", "old", "new", "broken"}]
    /\ record \in [Steps -> {"none", "old", "new", "unknown"}]
    /\ mutex \in Attempts \cup {NoOwner}
    /\ \A a \in Attempts : mutex = a => pc[a] \in Commands
    /\ \A a \in Attempts : pc[a] \in Unheld => step[a] = 1

\* Only the latest grant is accepted, and only its owner has it.
TokenIsOwners ==
    \A a \in Attempts :
        /\ gen[a] <= generation
        /\ pc[a] \notin Unheld /\ gen[a] = generation => owner = a

Deployed(s) == target[s] = "new" /\ record[s] = "new"

\* What the attempt that holds the lease has achieved.
Progress ==
    \A a \in Attempts : Held(a) =>
        /\ \A s \in Steps : s < step[a] => Deployed(s)
        /\ pc[a] \in {"gate", "record"} => target[step[a]] = "new"
        /\ pc[a] = "recorded" => Deployed(step[a])
        /\ pc[a] = "finish" => \A s \in Steps : Deployed(s)

\* Once it has run a command, no command of an earlier generation is left.
Alone ==
    \A a \in Attempts :
        Held(a) /\ (step[a] > 1 \/ pc[a] \in {"gate", "record", "recorded", "finish"})
            => mutex \in {NoOwner, a}

\* After the success nobody gets past the admission.
DoneSteps == {"authorize", "admit", "block", "release"}
Done ==
    /\ plan = "succeeded" => succeeded
    /\ succeeded => /\ \A s \in Steps : Deployed(s)
                    /\ mutex = NoOwner
                    /\ \A a \in Attempts : Held(a) => pc[a] \in DoneSteps

Inv == Typed /\ TokenIsOwners /\ Progress /\ Alone /\ Done

\* The steps that only move the attempt, Decide and ReadFault.
LEMMA MoveKeepsInv ==
    ASSUME Inv, NEW a \in Attempts, NEW next \in Pcs, mutex # a,
           Decide(a, next) \/ ReadFault(a, next),
           next \notin Unheld \cup {"gate", "record", "recorded", "finish"}
             \/ (pc[a] = "gate" /\ next = "record"),
           next \in DoneSteps \/ pc[a] \notin DoneSteps
             \/ (pc[a] = "admit" /\ AdmitsRecord)
    PROVE  Inv'
<1> USE PlanAssumption DEF Inv, Typed, Goto
<1>0. /\ Held(a) /\ Goto(a, next)
      /\ UNCHANGED <<generation, owner, live, plan, target, record, mutex, succeeded>>
  BY DEF Decide, ReadFault, fence, world, history
<1>1. Typed'
  BY <1>0 DEF Unheld
<1>2. TokenIsOwners'
  BY <1>0 DEF TokenIsOwners, Held, Unheld
<1>3. Progress'
  BY <1>0 DEF Progress, Held, Accepts, Deployed, Unheld
<1>4. Alone'
  BY <1>0 DEF Alone, Held, Accepts, Unheld
<1>5. Done'
  BY <1>0 DEF Done, DoneSteps, Held, Accepts, Deployed, Unheld, AdmitsRecord, From, Steps
<1> QED
  BY <1>1, <1>2, <1>3, <1>4, <1>5

\* The fenced writes of the plan.
LEMMA PlanWriteKeepsInv ==
    ASSUME Inv, NEW a \in Attempts, NEW state, NEW confirm, NEW next \in {"release", "started"},
           pc[a] \notin MidStep, PlanWrite(a, state, confirm, next),
           state = "succeeded" => pc[a] = "finish" /\ next = "release",
           next = "started" => pc[a] \notin DoneSteps
    PROVE  Inv'
<1> USE PlanAssumption DEF Inv, PlanWrite, Goto, AfterPlanError, fence, world
<1>1. Typed'
  BY DEF Typed, Pcs, MidStep, Unheld
<1>2. TokenIsOwners'
  BY DEF Typed, TokenIsOwners, Held, Unheld
<1>3. Progress'
  BY DEF Typed, Progress, Held, Accepts, Deployed, Unheld
<1>4. Alone'
  BY DEF Typed, Alone, Held, Accepts, Unheld
<1>5. Done'
  <2>1. CASE plan' = "succeeded" /\ pc[a] = "finish"
    <3>1. \A s \in Steps : Deployed(s)'
      BY <2>1 DEF Progress, Deployed
    <3>2. mutex' = NoOwner
      BY <2>1 DEF Alone, Typed, Commands, Removals, Installs, Restores
    <3>3. \A b \in Attempts : Held(b)' => pc'[b] \in DoneSteps
      BY <2>1 DEF TokenIsOwners, Typed, Held, Accepts, DoneSteps
    <3> QED
      BY <3>1, <3>2, <3>3 DEF Done
  <2>2. CASE ~(plan' = "succeeded" /\ pc[a] = "finish")
    <3>1. plan' = "succeeded" => plan = "succeeded"
      BY <2>2
    <3>2. succeeded' => succeeded
      BY <3>1 DEF Done
    <3>3. plan' = "succeeded" => succeeded'
      OBVIOUS
    <3>4. succeeded' => mutex' = NoOwner /\ \A s \in Steps : Deployed(s)'
      BY <3>2 DEF Done, Deployed
    <3>5. succeeded' => \A b \in Attempts : Held(b)' => pc'[b] \in DoneSteps
      BY <3>2 DEF Done, Typed, Held, Accepts, DoneSteps
    <3> QED
      BY <3>3, <3>4, <3>5 DEF Done
  <2> QED
    BY <2>1, <2>2
<1> QED
  BY <1>1, <1>2, <1>3, <1>4, <1>5

\* The fenced writes of the deployment record.
LEMMA RecordWriteKeepsInv ==
    ASSUME Inv, NEW a \in Attempts, NEW value \in {"none", "old", "new", "unknown"},
           NEW next \in Pcs, NEW onError \in Pcs,
           pc[a] \in RecordWrites, Observe(a, value, next, onError),
           onError \notin Unheld \cup {"gate", "record", "recorded", "finish"},
           next \notin Unheld \cup {"gate", "record", "recorded", "finish"}
             \/ (pc[a] = "record" /\ next = "recorded" /\ value = "new")
    PROVE  Inv'
<1> USE PlanAssumption DEF Inv, Observe, RecordWrite, Goto, fence, history
<1>1. Typed'
  BY DEF Typed, Commands, Removals, Installs, Restores, RecordWrites, Unheld
<1>2. TokenIsOwners'
  BY DEF Typed, TokenIsOwners, Held, Unheld
<1>3. Progress'
  <2>1. \A s \in Steps : s # step[a] => record'[s] = record[s]
    BY DEF Typed
  <2>2. pc'[a] = "recorded" => pc[a] = "record" /\ record'[step[a]] = "new"
    BY DEF Typed
  <2>3. \A b \in Attempts : Held(b)' => b = a
    BY DEF Typed, TokenIsOwners, Held, Accepts, Unheld
  <2>4. pc'[a] \notin {"gate", "record", "finish"}
    BY DEF Typed
  <2>5. step' = step /\ target' = target /\ step[a] \in Steps
    BY DEF Typed
  <2>6. /\ \A s \in Steps : s < step[a] => Deployed(s)
        /\ pc[a] = "record" => target[step[a]] = "new"
    BY DEF Progress, RecordWrites
  <2>7. \A s \in Steps : s < step[a] => s # step[a]
    BY <2>5, PlanAssumption DEF Steps
  <2> QED
    BY <2>1, <2>2, <2>3, <2>4, <2>5, <2>6, <2>7 DEF Progress, Deployed
<1>4. Alone'
  BY DEF Typed, Alone, Held, Accepts, Unheld
<1>5. ~succeeded
  BY DEF Done, DoneSteps, RecordWrites
<1>6. Done'
  BY <1>5 DEF Done
<1> QED
  BY <1>1, <1>2, <1>3, <1>4, <1>6

\* On to the next step, or to the end.
LEMMA NextStepKeepsInv ==
    ASSUME Inv, NEW a \in Attempts, NextStep(a) PROVE Inv'
<1> USE PlanAssumption DEF Inv, NextStep, Goto, fence, world, history
<1>1. Typed'
  <2>1. pc' = [pc EXCEPT ![a] = pc'[a]] /\ pc'[a] \in {"finish", "step"}
    BY DEF Typed
  <2>2. step[a] + 1 \in Steps \/ step[a] = NumSteps
    BY DEF Typed, Steps
  <2>3. step' \in [Attempts -> Steps] /\ \A b \in Attempts \ {a} : step'[b] = step[b]
    BY <2>2 DEF Typed
  <2>4. pc' \in [Attempts -> Pcs] /\ pc'[a] \notin Unheld
    BY <2>1 DEF Typed, Pcs, Unheld
  <2>5. mutex' = mutex /\ mutex # a
    BY DEF Typed, Commands, Removals, Installs, Restores
  <2>6. UNCHANGED <<generation, gen, target, record>>
    OBVIOUS
  <2> QED
    BY <2>1, <2>3, <2>4, <2>5, <2>6 DEF Typed
<1>2. TokenIsOwners'
  BY DEF Typed, TokenIsOwners, Held, Unheld
<1>3. \A b \in Attempts : Held(b)' => b = a
  BY DEF Typed, TokenIsOwners, Held, Accepts, Unheld
<1>4. Progress'
  <2>1. \A s \in Steps : s <= step[a] => Deployed(s)
    <3>1. \A s \in Steps : s <= step[a] => s < step[a] \/ s = step[a]
      BY DEF Typed, Steps
    <3> QED
      BY <3>1 DEF Progress
  <2>2. \A s \in Steps : Deployed(s)' <=> Deployed(s)
    BY DEF Deployed
  <2>3. CASE step[a] = NumSteps
    <3>1. pc'[a] = "finish" /\ step'[a] = step[a]
      BY <2>3 DEF Typed
    <3>2. \A s \in Steps : s <= step[a]
      BY <2>3 DEF Steps
    <3> QED
      BY <1>3, <2>1, <2>2, <3>1, <3>2 DEF Progress
  <2>4. CASE step[a] # NumSteps
    <3>1. pc'[a] = "step" /\ step'[a] = step[a] + 1
      BY <2>4 DEF Typed
    <3>2. \A s \in Steps : s < step[a] + 1 => s <= step[a]
      BY DEF Steps, Typed
    <3> QED
      BY <1>3, <2>1, <2>2, <3>1, <3>2 DEF Progress
  <2> QED
    BY <2>3, <2>4
<1>5. Alone'
  BY <1>3 DEF Typed, Alone, Held
<1>6. Done'
  BY DEF Done, DoneSteps
<1> QED
  BY <1>1, <1>2, <1>4, <1>5, <1>6

\* A command starts.
LEMMA BeginKeepsInv ==
    ASSUME Inv, NEW a \in Attempts, BeginCommand(a) PROVE Inv'
<1> USE PlanAssumption DEF Inv, BeginCommand, attempt, fence, history
<1>1. Typed'
  BY DEF Typed
<1>2. TokenIsOwners' /\ Progress'
  BY DEF TokenIsOwners, Progress, Held, Accepts, Deployed
<1>3. Alone'
  BY DEF Alone, TokenIsOwners, Held, Accepts
<1>4. Done'
  BY DEF Done, DoneSteps, Commands, Removals, Installs, Restores
<1> QED
  BY <1>1, <1>2, <1>3, <1>4

\* A command ends, or a removal is passed over.
LEMMA EndKeepsInv ==
    ASSUME Inv, NEW a \in Attempts, EndCommand(a) \/ SkipRemoval(a) PROVE Inv'
<1> USE PlanAssumption DEF Inv, fence, world, history
<1>1. pc[a] \in Commands /\ Held(a)
  BY DEF EndCommand, SkipRemoval, Typed, Commands, Removals
<1>2. /\ pc' = [pc EXCEPT ![a] = pc'[a]]
      /\ pc'[a] \in Pcs \ (Unheld \cup {"record", "recorded", "finish"})
      /\ UNCHANGED <<gen, step>>
  BY <1>1 DEF EndCommand, SkipRemoval, AfterCommand, Typed, Pcs, MidStep, Commands, Removals,
     Installs, Restores, RecordWrites, Unheld
<1>3. UNCHANGED <<generation, owner, live, plan, record, succeeded>>
  BY DEF EndCommand, SkipRemoval
<1>4. /\ target' \in [Steps -> {"none", "old", "new", "broken"}]
      /\ \A s \in Steps : s # step[a] => target'[s] = target[s]
  BY DEF EndCommand, SkipRemoval, Typed, Goal, MayLeave
<1>5. pc'[a] = "gate" => target'[step[a]] = "new" /\ mutex' = NoOwner
  <2>1. CASE EndCommand(a) /\ target' = [target EXCEPT ![step[a]] = Goal(pc[a])]
    BY <1>1, <2>1 DEF EndCommand, AfterCommand, Typed, Goal, Installs
  <2>2. CASE EndCommand(a) /\ AfterCommand(a, FALSE)
    BY <1>1, <2>2 DEF AfterCommand, Typed, Installs
  <2>3. CASE SkipRemoval(a)
    BY <1>1, <2>3 DEF SkipRemoval, AfterCommand, Typed, Installs
  <2> QED
    BY <2>1, <2>2, <2>3 DEF EndCommand
<1>6. mutex' = NoOwner \/ (mutex' = mutex /\ mutex # a)
  <2>1. CASE EndCommand(a)
    BY <2>1 DEF EndCommand
  <2>2. CASE SkipRemoval(a)
    BY <2>2 DEF SkipRemoval
  <2> QED
    BY <2>1, <2>2
<1>7. \A b \in Attempts : Held(b)' => b = a
  BY <1>1, <1>2, <1>3 DEF Typed, TokenIsOwners, Held, Accepts, Unheld
<1>8. Typed'
  BY <1>2, <1>3, <1>4, <1>6 DEF Typed
<1>9. TokenIsOwners'
  BY <1>1, <1>2, <1>3 DEF Typed, TokenIsOwners, Held
<1>10. Progress'
  <2>1. \A s \in Steps : s < step[a] => s # step[a]
    BY DEF Steps, Typed
  <2>2. \A s \in Steps : s < step[a] => Deployed(s)
    BY <1>1 DEF Progress
  <2> QED
    BY <1>2, <1>3, <1>4, <1>5, <1>7, <2>1, <2>2 DEF Progress, Deployed
<1>11. Alone'
  BY <1>1, <1>2, <1>5, <1>6, <1>7 DEF Alone
<1>12. Done'
  BY <1>1, <1>3 DEF Done, DoneSteps, Commands, Removals, Installs, Restores
<1> QED
  BY <1>8, <1>9, <1>10, <1>11, <1>12

\* An attempt that does not hold the lease ends, or the holder lets it go.
LEMMA ReturnKeepsInv ==
    ASSUME Inv, NEW a \in Attempts, End(a),
           UNCHANGED <<generation, owner, plan, record, succeeded>>, live' => live,
           (mutex' = mutex /\ target' = target /\ mutex # a) \/ (mutex = a /\ CutOff(a))
    PROVE  Inv'
<1> USE PlanAssumption DEF Inv, End
<1>1. Typed'
  <2>1. 1 \in Steps /\ "idle" \in Pcs
    BY DEF Steps, Pcs, Unheld
  <2>2. target' \in [Steps -> {"none", "old", "new", "broken"}]
    BY DEF Typed, CutOff, Goal, MayLeave
  <2>3. (mutex' = mutex /\ mutex # a) \/ mutex' = NoOwner
    BY DEF CutOff
  <2>4. /\ pc' \in [Attempts -> Pcs]
        /\ gen' \in [Attempts -> 0..MaxGeneration]
        /\ step' \in [Attempts -> Steps]
    BY <2>1 DEF Typed
  <2> QED
    BY <2>2, <2>3, <2>4 DEF Typed
<1>2. TokenIsOwners'
  BY DEF Typed, TokenIsOwners, Unheld
<1>3. ~Held(a)' /\ \A b \in Attempts \ {a} : Held(b)' => Held(b) /\ pc'[b] = pc[b] /\ step'[b] = step[b]
  BY DEF Typed, Held, Accepts, Unheld
<1>4. mutex' = mutex \/ mutex' = NoOwner
  BY DEF CutOff
<1>5. Alone'
  BY <1>3, <1>4 DEF Alone
<1>6. Progress'
  <2> SUFFICES ASSUME NEW b \in Attempts \ {a}, Held(b)'
               PROVE  /\ \A s \in Steps : s < step[b] => Deployed(s)'
                      /\ pc[b] \in {"gate", "record"} => target'[step[b]] = "new"
                      /\ pc[b] = "recorded" => Deployed(step[b])'
                      /\ pc[b] = "finish" => \A s \in Steps : Deployed(s)'
    BY <1>3 DEF Progress, Deployed
  <2>1. CASE target' = target
    BY <1>3, <2>1 DEF Progress, Deployed
  <2>2. CASE target' # target
    <3>1. mutex = a /\ a # NoOwner
      BY <2>2
    <3>2. step[b] = 1 /\ pc[b] \notin {"gate", "record", "recorded", "finish"}
      BY <1>3, <3>1 DEF Alone, Typed, Steps
    <3>3. \A s \in Steps : ~(s < 1)
      BY DEF Steps
    <3> QED
      BY <3>2, <3>3
  <2> QED
    BY <2>1, <2>2
<1>7. Done'
  BY <1>3 DEF Done, Deployed
<1> QED
  BY <1>1, <1>2, <1>5, <1>6, <1>7

\* A refresh that failed ends the step and what it runs.
LEMMA FenceKeepsInv ==
    ASSUME Inv, NEW a \in Attempts, LoseFence(a) PROVE Inv'
<1> USE PlanAssumption DEF Inv
<1>1. /\ Held(a) /\ pc' = [pc EXCEPT ![a] = "release"]
      /\ UNCHANGED <<generation, owner, live, plan, gen, step, record, succeeded>>
  BY DEF LoseFence, Goto, fence
<1>2. /\ target' \in [Steps -> {"none", "old", "new", "broken"}]
      /\ \A s \in Steps : s # step[a] => target'[s] = target[s]
  BY DEF LoseFence, CutOff, MayLeave, Goal, Typed
<1>3. mutex' = NoOwner \/ (mutex' = mutex /\ mutex # a)
  BY DEF LoseFence, CutOff
<1>4. \A b \in Attempts : Held(b)' => b = a
  BY <1>1 DEF Typed, TokenIsOwners, Held, Accepts
<1>5. Typed'
  BY <1>1, <1>2, <1>3 DEF Typed, Pcs, Unheld
<1>6. TokenIsOwners'
  BY <1>1 DEF Typed, TokenIsOwners, Held
<1>7. Progress'
  <2>1. \A s \in Steps : s < step[a] => s # step[a]
    BY DEF Steps, Typed
  <2>2. \A s \in Steps : s < step[a] => Deployed(s)
    BY <1>1 DEF Progress
  <2> QED
    BY <1>1, <1>2, <1>4, <2>1, <2>2 DEF Progress, Deployed, Typed
<1>8. Alone'
  BY <1>1, <1>3, <1>4 DEF Alone, Typed
<1>9. pc[a] \notin DoneSteps
  BY DEF LoseFence, Refreshing, DoneSteps, MidStep, Commands, Removals, Installs, Restores,
     RecordWrites
<1>10. Done'
  BY <1>1, <1>9 DEF Done
<1> QED
  BY <1>5, <1>6, <1>7, <1>8, <1>10

\* A claim is granted.
LEMMA ClaimKeepsInv ==
    ASSUME Inv, NEW a \in Attempts, Claim(a) PROVE Inv'
<1> USE PlanAssumption DEF Inv, Claim, Grant, world, history
<1>1. Typed'
  BY DEF Typed, Pcs, Commands, Removals, Installs, Restores, Unheld
<1>2. TokenIsOwners'
  BY DEF Typed, TokenIsOwners
<1>3. /\ \A b \in Attempts : Held(b)' => b = a
      /\ pc'[a] = "authorize" /\ step'[a] = step[a]
  BY DEF Typed, TokenIsOwners, Held, Accepts
<1>4. \A s \in Steps : ~(s < step[a])
  BY DEF Typed, Steps, Unheld
<1>5. Progress' /\ Alone'
  BY <1>3, <1>4 DEF Progress, Alone, Typed, Unheld, Steps
<1>6. Done'
  BY <1>3 DEF Done, DoneSteps, Deployed
<1> QED
  BY <1>1, <1>2, <1>5, <1>6

\* What the lease, the operator and the reconciler do.
LEMMA OthersKeepInv ==
    ASSUME Inv, Expire \/ Unlock \/ UnlockReleases \/ RecoveryStep \/ UNCHANGED vars
    PROVE  Inv'
<1> USE PlanAssumption DEF Inv
<1>1. UNCHANGED <<pc, gen, step, target, record, mutex, succeeded>>
  BY DEF Expire, Unlock, UnlockReleases, RecoveryStep, ListRunning, CheckHolder, ValidateRecovery,
     PutFailed, Recover, attempt, world, history, vars
<1>2. plan' = plan \/ plan' = "failed"
  BY DEF Expire, Unlock, UnlockReleases, RecoveryStep, ListRunning, CheckHolder, ValidateRecovery,
     PutFailed, Recover, vars
<1>3. CASE Unlock
  <2>1. generation' = generation + 1 /\ generation' \in 0..MaxGeneration
    BY <1>3 DEF Unlock, Grant, Typed
  <2>2. Typed'
    BY <1>1, <2>1 DEF Typed
  <2>3. TokenIsOwners' /\ \A a \in Attempts : ~Held(a)'
    BY <1>1, <2>1 DEF TokenIsOwners, Typed, Held, Accepts
  <2> QED
    BY <1>1, <1>2, <2>2, <2>3 DEF Progress, Alone, Done, Deployed
<1>4. CASE ~Unlock
  <2>1. generation' = generation /\ owner' = owner /\ (live' => live)
    BY <1>4 DEF Expire, Lapse, UnlockReleases, RecoveryStep, ListRunning, CheckHolder,
       ValidateRecovery, PutFailed, Recover, fence, vars
  <2>2. Typed' /\ TokenIsOwners'
    BY <1>1, <2>1 DEF Typed, TokenIsOwners
  <2>3. \A a \in Attempts : Held(a)' => Held(a)
    BY <1>1, <2>1 DEF Held, Accepts
  <2> QED
    BY <1>1, <1>2, <2>2, <2>3 DEF Progress, Alone, Done, Deployed
<1> QED
  BY <1>3, <1>4

\* The steps of an attempt before its first command.
LEMMA StartKeepsInv ==
    ASSUME Inv, NEW a \in Attempts,
           \/ Load(a) \/ Claim(a) \/ ClaimRefused(a) \/ Authorize(a) \/ Admit(a)
           \/ Blocked(a) \/ Block(a) \/ GateBlock(a) \/ StartRunning(a) \/ Started(a)
    PROVE  Inv'
<1> USE DEF DoneSteps, Unheld, Pcs
<1>0. pc[a] \notin Commands => mutex # a
  BY DEF Inv, Typed
<1>1. CASE Load(a)
  <2>1. Typed'
    BY <1>1, <1>0 DEF Load, Goto, Inv, Typed, fence, world, Commands, Removals, Installs, Restores
  <2>2. TokenIsOwners' /\ \A b \in Attempts : Held(b)' => Held(b) /\ pc'[b] = pc[b] /\ step'[b] = step[b]
    BY <1>1 DEF Load, Goto, Inv, Typed, TokenIsOwners, Held, Accepts, fence
  <2>3. UNCHANGED <<plan, target, record, mutex, succeeded>>
    BY <1>1 DEF Load, world, history
  <2> QED
    BY <2>1, <2>2, <2>3 DEF Inv, Progress, Alone, Done, Deployed
<1>2. CASE Claim(a)
  BY <1>2, ClaimKeepsInv
<1>3. CASE ClaimRefused(a)
  <2>1. mutex' = mutex /\ target' = target /\ mutex # a
    BY <1>3, <1>0 DEF ClaimRefused, world, Commands, Removals, Installs, Restores
  <2>2. UNCHANGED <<generation, owner, plan, record, succeeded>> /\ End(a)
    BY <1>3 DEF ClaimRefused, fence, world, history
  <2>3. live' => live
    BY <1>3 DEF ClaimRefused, fence
  <2> QED
    BY <2>1, <2>2, <2>3, ReturnKeepsInv
<1>4. CASE Authorize(a)
  <2>1. mutex # a
    BY <1>4, <1>0 DEF Authorize, Commands, Removals, Installs, Restores
  <2>2. PICK next \in {"admit", "block"} : Decide(a, next)
    BY <1>4 DEF Authorize
  <2>3. next \in Pcs /\ next \notin Unheld \cup {"gate", "record", "recorded", "finish"}
    OBVIOUS
  <2>4. next \in DoneSteps
    OBVIOUS
  <2> HIDE DEF DoneSteps, Unheld, Pcs
  <2> QED
    BY <2>1, <2>2, <2>3, <2>4, MoveKeepsInv
<1>5. CASE Admit(a)
  <2>1. mutex # a
    BY <1>5, <1>0 DEF Admit, Commands, Removals, Installs, Restores
  <2>2. PICK next \in {"start", "release"} : Decide(a, next) /\ (next = "start" => AdmitsRecord)
    BY <1>5 DEF Admit
  <2>3. next \in Pcs /\ next \notin Unheld \cup {"gate", "record", "recorded", "finish"}
    OBVIOUS
  <2>4. next \in DoneSteps \/ (pc[a] = "admit" /\ AdmitsRecord)
    BY <1>5, <2>2 DEF Admit
  <2> HIDE DEF DoneSteps, Unheld, Pcs
  <2> QED
    BY <2>1, <2>2, <2>3, <2>4, MoveKeepsInv
<1>6. CASE Blocked(a)
  <2>1. mutex # a
    BY <1>6, <1>0 DEF Blocked, Commands, Removals, Installs, Restores
  <2>2. PICK next \in {"block", "gateBlock", "release"} : Decide(a, next)
    BY <1>6 DEF Blocked
  <2>3. next \in Pcs /\ next \notin Unheld \cup {"gate", "record", "recorded", "finish"}
    OBVIOUS
  <2>4. pc[a] \notin DoneSteps
    BY <1>6 DEF Blocked
  <2> HIDE DEF DoneSteps, Unheld, Pcs
  <2> QED
    BY <2>1, <2>2, <2>3, <2>4, MoveKeepsInv
<1>7. CASE Block(a)
  BY <1>7, PlanWriteKeepsInv DEF Block, MidStep, Commands, Removals, Installs, Restores, RecordWrites
<1>8. CASE GateBlock(a)
  BY <1>8, PlanWriteKeepsInv DEF GateBlock, MidStep, Commands, Removals, Installs, Restores,
     RecordWrites
<1>9. CASE StartRunning(a)
  BY <1>9, PlanWriteKeepsInv DEF StartRunning, MidStep, Commands, Removals, Installs, Restores,
     RecordWrites
<1>10. CASE Started(a)
  <2>1. mutex # a
    BY <1>10, <1>0 DEF Started, Commands, Removals, Installs, Restores
  <2>2. PICK next \in {"block", "fail", "step", "release"} : Decide(a, next) \/ ReadFault(a, next)
    BY <1>10 DEF Started
  <2>3. next \in Pcs /\ next \notin Unheld \cup {"gate", "record", "recorded", "finish"}
    OBVIOUS
  <2>4. pc[a] \notin DoneSteps
    BY <1>10 DEF Started
  <2> HIDE DEF DoneSteps, Unheld, Pcs
  <2> QED
    BY <2>1, <2>2, <2>3, <2>4, MoveKeepsInv
<1> QED
  BY <1>1, <1>2, <1>3, <1>4, <1>5, <1>6, <1>7, <1>8, <1>9, <1>10
\* The steps that decide how a step of the plan goes on.
LEMMA DecisionKeepsInv ==
    ASSUME Inv, NEW a \in Attempts, StepAdmission(a) \/ RefuseActivation(a) \/ Gate(a) PROVE Inv'
<1>1. mutex # a
  BY DEF StepAdmission, RefuseActivation, Gate, Inv, Typed, Commands, Removals, Installs, Restores
<1>2. PICK next \in {"install", "fail", "outgoing", "markUnknown", "record", "halt", "gateUndo",
                     "live", "undo"} :
        /\ Decide(a, next) \/ ReadFault(a, next)
        /\ next = "record" => pc[a] = "gate"
  BY DEF StepAdmission, RefuseActivation, Gate
<1>3. next \in Pcs
  BY DEF Pcs, MidStep, Commands, Removals, Installs, Restores, RecordWrites
<1>4. next \notin Unheld \cup {"gate", "record", "recorded", "finish"}
        \/ (pc[a] = "gate" /\ next = "record")
  BY <1>2 DEF Unheld
<1>5. pc[a] \notin DoneSteps
  BY DEF StepAdmission, RefuseActivation, Gate, DoneSteps
<1> QED
  BY <1>1, <1>2, <1>3, <1>4, <1>5, MoveKeepsInv

\* The steps that write the deployment record.
LEMMA RecordingKeepsInv ==
    ASSUME Inv, NEW a \in Attempts,
           \/ Record(a) \/ RecordHalt(a) \/ RecordLive(a) \/ RecordUnchanged(a)
           \/ RecordUnknown(a) \/ RecordOld(a) \/ MarkUnknown(a)
    PROVE  Inv'
<1>1. PICK value \in {"none", "old", "new", "unknown"},
           next \in {"recorded", "finishFailed", "fail", "markUnknown"},
           onError \in {"undo", "fail", "markUnknown"} :
        /\ Observe(a, value, next, onError)
        /\ next = "recorded" => pc[a] = "record" /\ value = "new"
  <2>1. record[step[a]] \in {"none", "old", "new", "unknown"}
    BY DEF Inv, Typed
  <2>2. CASE Record(a)
    BY <2>2 DEF Record, Compensation
  <2>3. CASE RecordHalt(a) \/ RecordLive(a) \/ RecordUnknown(a)
    BY <2>3 DEF RecordHalt, RecordLive, RecordUnknown, Compensation
  <2>4. CASE RecordUnchanged(a)
    BY <2>1, <2>4 DEF RecordUnchanged
  <2>5. CASE RecordOld(a)
    BY <2>5 DEF RecordOld, Observe
  <2>6. CASE MarkUnknown(a)
    BY <2>6 DEF MarkUnknown, Observe
  <2> QED
    BY <2>2, <2>3, <2>4, <2>5, <2>6
<1>2. pc[a] \in RecordWrites
  BY DEF Record, RecordHalt, RecordLive, RecordUnchanged, RecordUnknown, RecordOld, MarkUnknown,
     RecordWrites
<1>3. next \in Pcs /\ onError \in Pcs
  BY DEF Pcs, MidStep, Commands, Removals, RecordWrites
<1>4. onError \notin Unheld \cup {"gate", "record", "recorded", "finish"}
  BY DEF Unheld
<1>5. next \notin Unheld \cup {"gate", "record", "recorded", "finish"}
        \/ (pc[a] = "record" /\ next = "recorded" /\ value = "new")
  BY <1>1 DEF Unheld
<1> QED
  BY <1>1, <1>2, <1>3, <1>4, <1>5, RecordWriteKeepsInv

\* The steps that end the plan.
LEMMA CompletionKeepsInv ==
    ASSUME Inv, NEW a \in Attempts, Fail(a) \/ Finish(a) \/ FinishFailed(a) PROVE Inv'
<1>1. pc[a] \notin MidStep
  BY DEF Fail, Finish, FinishFailed, MidStep, Commands, Removals, Installs, Restores, RecordWrites
<1>2. PICK state \in {"failed", "succeeded"}, confirm \in BOOLEAN :
        /\ PlanWrite(a, state, confirm, "release")
        /\ state = "succeeded" => pc[a] = "finish"
  BY DEF Fail, Finish, FinishFailed
<1> QED
  BY <1>1, <1>2, PlanWriteKeepsInv

\* The steps with which an attempt returns, is stopped or dies.
LEMMA ReturnsKeepInv ==
    ASSUME Inv, NEW a \in Attempts, Release(a) \/ GiveUp(a) \/ LoseCommand(a) \/ Crash(a)
    PROVE  Inv'
<1>1. End(a)
  BY DEF Release, GiveUp, LoseCommand, Crash
<1>2. UNCHANGED <<generation, owner, plan, record, succeeded>>
  BY DEF Release, GiveUp, LoseCommand, Crash, fence, world, history
<1>3. live' => live
  BY DEF Release, GiveUp, LoseCommand, Crash, fence
<1>4. pc[a] = "release" => mutex # a
  BY DEF Inv, Typed, Commands, Removals, Installs, Restores
<1>5. (mutex' = mutex /\ target' = target /\ mutex # a) \/ (mutex = a /\ CutOff(a))
  <2>1. CASE Release(a)
    BY <2>1, <1>4 DEF Release, world
  <2>2. CASE GiveUp(a)
    BY <2>2 DEF GiveUp, world
  <2>3. CASE LoseCommand(a)
    BY <2>3 DEF LoseCommand
  <2>4. CASE Crash(a)
    BY <2>4 DEF Crash
  <2> QED
    BY <2>1, <2>2, <2>3, <2>4
<1> QED
  BY <1>1, <1>2, <1>3, <1>5, ReturnKeepsInv

\* The invariant behind SucceededIsDeployed is inductive.  The holder of the
\* lease has deployed every step before its own (Progress), which nobody can
\* undo: commands and record writes need the newest generation, and a command
\* of an older one ended before the holder's first command began (Alone).  After
\* the success the record no longer admits the plan (Done).
THEOREM Inductive == Safety => []Inv
<1>1. Init => Inv
  <2> SUFFICES ASSUME Init PROVE Inv
    OBVIOUS
  <2> USE PlanAssumption DEF Init, FenceInit
  <2>1. Typed
    <3>1. 1 \in Steps /\ "idle" \in Pcs /\ 0 \in 0..MaxGeneration
      BY DEF Steps, Pcs, Unheld
    <3> QED
      BY <3>1 DEF Typed, From
  <2>2. TokenIsOwners /\ Progress /\ Alone
    BY DEF TokenIsOwners, Progress, Alone, Held, Unheld
  <2>3. Done
    BY DEF Done
  <2> QED
    BY <2>1, <2>2, <2>3 DEF Inv
<1>2. Inv /\ [Next]_vars => Inv'
  <2> SUFFICES ASSUME Inv, [Next]_vars PROVE Inv'
    OBVIOUS
  <2>1. CASE Expire \/ Unlock \/ UnlockReleases \/ RecoveryStep \/ UNCHANGED vars
    BY <2>1, OthersKeepInv
  <2>2. ASSUME NEW a \in Attempts, AttemptStep(a) \/ Crash(a) PROVE Inv'
    BY <2>2, StartKeepsInv, DecisionKeepsInv, BeginKeepsInv, EndKeepsInv, RecordingKeepsInv,
       NextStepKeepsInv, CompletionKeepsInv, ReturnsKeepInv, FenceKeepsInv DEF AttemptStep
  <2> QED
    BY <2>1, <2>2 DEF Next
<1> QED
  BY <1>1, <1>2, PTL DEF Safety

\* However many attempts, steps, faults, crashes, stalls and unlocks there are:
\* once the plan was stored as succeeded, every product is installed and recorded
\* in its new version.
THEOREM SuccessIsDeployed == Safety => []SucceededIsDeployed
<1>1. Inv => SucceededIsDeployed
  BY DEF Inv, Done, Deployed, SucceededIsDeployed
<1> QED
  BY <1>1, Inductive, PTL

\* The variables that the argument above does not need.
RestTyped ==
    /\ owner \in Owners \cup {NoOwner} /\ live \in BOOLEAN /\ released \in BOOLEAN
    /\ plan \in PlanStates
    /\ clean \in SUBSET Attempts
    /\ recovery \in {"idle", "listed", "checked", "validated"}
    /\ faults \in 0..MaxFaults
    /\ interrupted \in BOOLEAN /\ succeeded \in BOOLEAN

\* What an attempt's step does to each of them.
LEMMA AttemptKeepsRest ==
    ASSUME RestTyped, NEW a \in Attempts, AttemptStep(a) \/ Crash(a) PROVE RestTyped'
<1> USE DEF AttemptStep, Crash, Load, Claim, ClaimRefused, Authorize, Admit, Blocked, Block,
            GateBlock, StartRunning, Started, StepAdmission, RefuseActivation, BeginCommand,
            EndCommand, SkipRemoval, LoseCommand, Gate, Record, NextStep, RecordHalt, RecordLive,
            RecordUnchanged, RecordUnknown, RecordOld, MarkUnknown, Fail, Finish, FinishFailed,
            Release, GiveUp, LoseFence
<1>1. faults' = faults \/ (faults < MaxFaults /\ faults' = faults + 1)
  BY DEF Decide, ReadFault, PlanWrite, RecordWrite, Observe, Fault, NoFault
<1>2. recovery' = recovery
  BY DEF Decide, ReadFault, PlanWrite, RecordWrite, Observe
<1>3. plan' \in {plan, "blocked", "running", "failed", "succeeded"}
  BY DEF Decide, ReadFault, PlanWrite, RecordWrite, Observe
<1>4. clean' \subseteq clean \cup {a}
  BY DEF Decide, ReadFault, PlanWrite, RecordWrite, Observe, Goto, End, AfterPlanError,
     AfterCommand, attempt
<1>5. owner' \in {owner, a}
  BY DEF Decide, ReadFault, PlanWrite, RecordWrite, Observe, fence, Grant
<1>6. live' \in {live, TRUE, FALSE} /\ released' \in {released, TRUE, FALSE}
  BY DEF Decide, ReadFault, PlanWrite, RecordWrite, Observe, fence, Grant
<1>7. succeeded' \in {succeeded, TRUE}
  BY DEF Decide, ReadFault, PlanWrite, RecordWrite, Observe, history
<1>8. interrupted' = interrupted \/ interrupted' \in BOOLEAN
  BY DEF Decide, ReadFault, PlanWrite, RecordWrite, Observe, history
<1> HIDE DEF AttemptStep, Crash
<1>9. faults' \in 0..MaxFaults
  BY <1>1, PlanAssumption DEF RestTyped
<1>10. plan' \in PlanStates
  BY <1>3 DEF RestTyped, PlanStates
<1>11. clean' \in SUBSET Attempts /\ owner' \in Owners \cup {NoOwner}
  BY <1>4, <1>5, PlanAssumption DEF RestTyped
<1>12. live' \in BOOLEAN /\ released' \in BOOLEAN /\ succeeded' \in BOOLEAN /\ interrupted' \in BOOLEAN
  BY <1>6, <1>7, <1>8 DEF RestTyped
<1> QED
  BY <1>2, <1>9, <1>10, <1>11, <1>12 DEF RestTyped

\* What the other steps do to each of them.
LEMMA OthersKeepRest ==
    ASSUME RestTyped, Expire \/ Unlock \/ UnlockReleases \/ RecoveryStep \/ UNCHANGED vars
    PROVE  RestTyped'
<1> USE DEF Expire, Unlock, UnlockReleases, RecoveryStep, ListRunning, CheckHolder,
            ValidateRecovery, PutFailed
<1>1. faults' = faults /\ clean' = clean /\ succeeded' = succeeded /\ interrupted' = interrupted
  BY DEF Recover, NoFault, attempt, history, vars
<1>2. plan' \in {plan, "failed"} /\ recovery' \in {recovery, "idle", "listed", "checked", "validated"}
  BY DEF Recover, vars
<1>3. owner' \in {owner, Operator}
  BY DEF Recover, Lapse, Grant, fence, vars
<1>4. live' \in {live, TRUE, FALSE} /\ released' \in {released, TRUE, FALSE}
  BY DEF Recover, Lapse, Grant, fence, vars
<1>5. plan' \in PlanStates /\ recovery' \in {"idle", "listed", "checked", "validated"}
  BY <1>2 DEF RestTyped, PlanStates
<1>6. owner' \in Owners \cup {NoOwner}
  BY <1>3, PlanAssumption DEF RestTyped
<1>7. live' \in BOOLEAN /\ released' \in BOOLEAN
  BY <1>4 DEF RestTyped
<1> QED
  BY <1>1, <1>5, <1>6, <1>7 DEF RestTyped

\* Every variable keeps its type, and only an attempt that is at a command has
\* one running.
THEOREM TypeCorrect == Safety => []TypeOK
<1>1. Init => RestTyped
  <2> SUFFICES ASSUME Init PROVE RestTyped
    OBVIOUS
  <2>1. faults \in 0..MaxFaults
    BY PlanAssumption DEF Init
  <2> QED
    BY <2>1 DEF Init, FenceInit, RestTyped, PlanStates
<1>2. RestTyped /\ [Next]_vars => RestTyped'
  <2> SUFFICES ASSUME RestTyped, [Next]_vars PROVE RestTyped'
    OBVIOUS
  <2>1. CASE Expire \/ Unlock \/ UnlockReleases \/ RecoveryStep \/ UNCHANGED vars
    BY <2>1, OthersKeepRest
  <2>2. ASSUME NEW a \in Attempts, AttemptStep(a) \/ Crash(a) PROVE RestTyped'
    BY <2>2, AttemptKeepsRest
  <2> QED
    BY <2>1, <2>2 DEF Next
<1>3. Inv /\ RestTyped => TypeOK
  BY DEF Inv, Typed, RestTyped, TypeOK
<1> QED
  BY <1>1, <1>2, <1>3, Inductive, PTL DEF Safety

-----------------------------------------------------------------------------
(* One fault. *)

\* Where an attempt is between its admission and the end of a step, and where
\* it undoes a step whose record failed.
Going == {"start", "started", "step"} \cup MidStep
Compensating == {"undo", "redo", "recordOld", "markUnknown"}

\* The record still has what the plan starts from for every step the holder
\* has not finished.
Waits(a) ==
    /\ pc[a] \in Going \cup {"recorded"} => \A s \in Steps : s > step[a] => record[s] = From(s)
    /\ pc[a] \in Going \ Compensating => record[step[a]] = From(step[a])

Untouched == \A a \in Attempts : Held(a) => Waits(a)

Agrees(s) == record[s] \in {target[s], "unknown"}

\* What an attempt in the middle of a step knows of its product, and which
\* places it reaches only after a fault.
Settling(a) ==
    LET s == step[a] IN
    /\ pc[a] = "install" => target[s] = From(s)
    /\ pc[a] \in {"gate", "record", "halt"} => target[s] = "new"
    /\ pc[a] = "unchanged" => target[s] = record[s]
    /\ pc[a] = "recordOld" => target[s] = "old"
    /\ pc[a] # "live"
    /\ pc[a] \in {"outgoing", "replace", "restore", "redo", "gateUndo", "gateRestore", "recordOld"}
          => s \notin Fresh
    /\ pc[a] \in Compensating \cup {"cleanup", "restore", "unknown"} => faults > 0

\* An attempt that lost the lease in the middle of a step will be cut off there.
Doomed == \E a \in Attempts : pc[a] \in MidStep /\ ~Accepts(gen[a])

\* A product whose record is wrong is in the hands of an attempt that knows
\* what to write, and no second fault keeps it from doing so.
Kept ==
    \/ interrupted \/ faults > 1 \/ Doomed
    \/ /\ \A s \in Steps : Agrees(s) \/ \E a \in Attempts : pc[a] \in MidStep /\ step[a] = s
       /\ \A a \in Attempts : pc[a] \in MidStep => Settling(a)

\* Only the holder of the lease works, and when nobody is doomed only the
\* holder is in the middle of a step.
LEMMA OneHolder ==
    ASSUME Inv, NEW a \in Attempts, Held(a)
    PROVE  /\ \A b \in Attempts \ {a} : ~Held(b)
           /\ ~Doomed => \A b \in Attempts \ {a} : pc[b] \notin MidStep
<1>1. \A b \in Attempts \ {a} : ~Held(b)
  BY DEF Inv, TokenIsOwners, Held, Accepts
<1>2. MidStep \cap Unheld = {}
  BY DEF MidStep, Commands, Removals, Installs, Restores, RecordWrites, Unheld
<1> QED
  BY <1>1, <1>2 DEF Doomed, Held

\* Steps that leave products, records and whoever is in the middle of a step
\* alone, and accept no generation again that was lost.
LEMMA QuietKeepsKept ==
    ASSUME Kept, faults \in Nat, faults' \in Nat, faults <= faults',
           interrupted => interrupted', UNCHANGED <<target, record>>,
           \A b \in Attempts : pc[b] \in MidStep \/ pc'[b] \in MidStep
              => UNCHANGED <<pc[b], gen[b], step[b]>>,
           \A b \in Attempts : Accepts(gen[b])' /\ gen'[b] = gen[b] => Accepts(gen[b])
    PROVE  Kept'
<1>1. CASE interrupted \/ faults > 1
  BY <1>1 DEF Kept
<1>2. CASE Doomed
  BY <1>2 DEF Kept, Doomed
<1>3. CASE /\ \A s \in Steps : Agrees(s) \/ \E a \in Attempts : pc[a] \in MidStep /\ step[a] = s
           /\ \A a \in Attempts : pc[a] \in MidStep => Settling(a)
  <2>1. \A s \in Steps : Agrees(s)' \/ \E a \in Attempts : pc'[a] \in MidStep /\ step'[a] = s
    BY <1>3 DEF Agrees
  <2>2. ASSUME NEW a \in Attempts, pc'[a] \in MidStep PROVE Settling(a)'
    <3>1. UNCHANGED <<pc[a], step[a]>> /\ Settling(a)
      BY <1>3, <2>2
    <3> QED
      BY <3>1 DEF Settling
  <2> QED
    BY <2>1, <2>2 DEF Kept
<1> QED
  BY <1>1, <1>2, <1>3 DEF Kept

\* The product of an attempt is in order: it agrees with its record, or the
\* attempt is at work on it and knows what to do.
Tended(a) == IF pc[a] \in MidStep THEN Settling(a) ELSE Agrees(step[a])

\* The holder's steps touch the product of its step alone.
LEMMA HolderKeepsKept ==
    ASSUME Inv, Kept, faults \in Nat, faults' \in Nat, faults <= faults',
           NEW a \in Attempts, Held(a), Accepts(gen[a])',
           UNCHANGED <<gen, step, interrupted>>,
           \A b \in Attempts \ {a} : UNCHANGED pc[b],
           \A b \in Attempts : Accepts(gen[b])' => Accepts(gen[b]),
           \A s \in Steps \ {step[a]} : UNCHANGED <<target[s], record[s]>>,
           faults' <= 1 /\ Tended(a) => Tended(a)'
    PROVE  Kept'
<1>1. CASE interrupted \/ faults > 1
  BY <1>1 DEF Kept
<1>2. CASE Doomed
  <2>1. PICK b \in Attempts : pc[b] \in MidStep /\ ~Accepts(gen[b])
    BY <1>2 DEF Doomed
  <2>2. b # a
    BY <2>1 DEF Held
  <2> QED
    BY <2>1, <2>2 DEF Kept, Doomed
<1>3. CASE /\ ~Doomed /\ faults' <= 1
           /\ \A s \in Steps : Agrees(s) \/ \E b \in Attempts : pc[b] \in MidStep /\ step[b] = s
           /\ \A b \in Attempts : pc[b] \in MidStep => Settling(b)
  <2>1. \A b \in Attempts \ {a} : pc[b] \notin MidStep /\ pc'[b] \notin MidStep
    BY <1>3, OneHolder
  <2>2. step[a] \in Steps
    BY DEF Inv, Typed
  <2>3. Tended(a)
    BY <1>3, <2>1, <2>2 DEF Tended
  <2>4. Tended(a)'
    BY <1>3, <2>3
  <2>5. ASSUME NEW s \in Steps
        PROVE  Agrees(s)' \/ \E b \in Attempts : pc'[b] \in MidStep /\ step'[b] = s
    <3>1. CASE s = step[a]
      <4>1. CASE pc'[a] \in MidStep
        BY <3>1, <4>1
      <4>2. CASE pc'[a] \notin MidStep
        BY <2>4, <3>1, <4>2 DEF Tended, Agrees
      <4> QED
        BY <4>1, <4>2
    <3>2. CASE s # step[a]
      BY <1>3, <2>1, <3>2 DEF Agrees
    <3> QED
      BY <3>1, <3>2
  <2>6. \A b \in Attempts : pc'[b] \in MidStep => Settling(b)'
    BY <2>1, <2>4 DEF Tended
  <2> QED
    BY <2>5, <2>6 DEF Kept
<1>4. CASE faults' > 1
  BY <1>4 DEF Kept
<1> QED
  BY <1>1, <1>2, <1>3, <1>4 DEF Kept

\* A step of the holder keeps both when it keeps them for the holder.
LEMMA HolderKeepsBoth ==
    ASSUME Inv, Untouched, Kept, NEW a \in Attempts, Held(a),
           faults \in Nat, faults' \in Nat, faults <= faults',
           UNCHANGED <<generation, live, gen, step, interrupted>>,
           \A b \in Attempts \ {a} : UNCHANGED pc[b],
           \A s \in Steps \ {step[a]} : UNCHANGED <<target[s], record[s]>>,
           Waits(a) => Waits(a)',
           faults' <= 1 /\ Waits(a) /\ Tended(a) => Tended(a)'
    PROVE  Untouched' /\ Kept'
<1>1. Waits(a)
  BY DEF Untouched
<1>2. \A b \in Attempts \ {a} : ~Held(b)'
  BY OneHolder DEF Held, Accepts
<1>3. Untouched'
  BY <1>1, <1>2 DEF Untouched
<1>4. Accepts(gen[a])' /\ \A b \in Attempts : Accepts(gen[b])' => Accepts(gen[b])
  BY DEF Held, Accepts
<1>5. Kept'
  BY <1>1, <1>4, HolderKeepsKept
<1> QED
  BY <1>3, <1>5

\* The steps that decide how a step of the plan goes on.
LEMMA DecisionKeepsBoth ==
    ASSUME Inv, Untouched, Kept, faults \in Nat, "blocked" \notin GateOutcomes,
           NEW a \in Attempts, StepAdmission(a) \/ RefuseActivation(a) \/ Gate(a)
    PROVE  Untouched' /\ Kept'
<1>1. PICK next \in {"install", "fail", "outgoing", "markUnknown", "record", "halt", "gateUndo",
                     "undo"} :
        /\ Decide(a, next) \/ ReadFault(a, next)
        /\ \/ pc[a] = "step" /\ next \in {"install", "fail"}
           \/ pc[a] = "step" /\ next = "outgoing" /\ step[a] \notin Fresh
           \/ pc[a] = "install" /\ next = "fail"
           \/ pc[a] = "replace" /\ next = "markUnknown" /\ ReadFault(a, next)
           \/ pc[a] = "gate" /\ next \in {"record", "halt"}
           \/ pc[a] = "gate" /\ next = "gateUndo" /\ step[a] \notin Fresh
           \/ pc[a] = "gate" /\ next = "undo" /\ ReadFault(a, next)
  BY DEF StepAdmission, RefuseActivation, Gate
<1>2. /\ Held(a) /\ UNCHANGED <<generation, live, gen, step, interrupted, target, record>>
      /\ pc' = [pc EXCEPT ![a] = next]
  BY <1>1 DEF Decide, ReadFault, Goto, fence, world, history
<1>3. /\ faults' \in Nat /\ faults <= faults'
      /\ ReadFault(a, next) => faults' > 0
  BY <1>1 DEF Decide, ReadFault, Fault, NoFault
<1>4. pc'[a] = next /\ \A b \in Attempts \ {a} : pc'[b] = pc[b]
  BY <1>2 DEF Inv, Typed
<1>5. step[a] \in Steps /\ record[step[a]] \in {"none", "old", "new", "unknown"}
  BY DEF Inv, Typed
<1>6. Waits(a) => Waits(a)'
  BY <1>1, <1>2, <1>4 DEF Waits, Going, Compensating, MidStep, Commands, Removals, Installs,
     Restores, RecordWrites
<1>7. ASSUME Waits(a), Tended(a) PROVE Tended(a)'
  <2>1. CASE pc[a] = "step"
    <3>1. record[step[a]] = From(step[a]) /\ target[step[a]] = From(step[a])
      BY <1>7, <2>1 DEF Waits, Tended, Going, Compensating, MidStep, Commands, Removals, Installs,
         Restores, RecordWrites, Agrees, From
    <3> QED
      BY <1>1, <1>2, <1>4, <2>1, <3>1 DEF Tended, Settling, Agrees, Compensating, MidStep, Commands,
         Removals, Installs, Restores, RecordWrites
  <2>2. CASE pc[a] = "install"
    <3>1. record[step[a]] = target[step[a]]
      BY <1>7, <2>2 DEF Waits, Tended, Settling, Going, Compensating, MidStep, Commands, Installs
    <3> QED
      BY <1>1, <1>2, <1>4, <2>2, <3>1 DEF Tended, Agrees, MidStep, Commands, Removals, Installs,
         Restores, RecordWrites
  <2>3. CASE pc[a] \in {"replace", "gate"}
    <3>1. Settling(a)
      BY <1>7, <2>3 DEF Tended, MidStep, Commands, Installs
    <3> QED
      BY <1>1, <1>2, <1>3, <1>4, <2>3, <3>1 DEF Tended, Settling, Compensating, MidStep, Commands,
         Removals, RecordWrites
  <2> QED
    BY <1>1, <2>1, <2>2, <2>3
<1> QED
  BY <1>2, <1>3, <1>4, <1>6, <1>7, HolderKeepsBoth

\* A command ends, or a removal is passed over.
LEMMA EndKeepsBoth ==
    ASSUME Inv, Untouched, Kept, faults \in Nat, NEW a \in Attempts,
           EndCommand(a) \/ SkipRemoval(a)
    PROVE  Untouched' /\ Kept'
<1>1. pc[a] \in Commands /\ Held(a) /\ step[a] \in Steps
  BY DEF EndCommand, SkipRemoval, Inv, Typed, Commands, Removals
<1>2. UNCHANGED <<generation, live, gen, step, interrupted, record>>
  BY DEF EndCommand, SkipRemoval, AfterCommand, fence, world, history
<1>3. /\ faults' \in Nat /\ faults <= faults'
      /\ Fault => faults' > 0
  <2>1. Fault => faults' = faults + 1
    BY DEF Fault
  <2>2. NoFault => faults' = faults
    BY DEF NoFault
  <2>3. Fault \/ NoFault
    BY DEF EndCommand, SkipRemoval
  <2> QED
    BY <2>1, <2>2, <2>3
<1>4. /\ pc' = [pc EXCEPT ![a] = pc'[a]]
      /\ \A b \in Attempts \ {a} : pc'[b] = pc[b]
  BY DEF EndCommand, SkipRemoval, AfterCommand, Inv, Typed
<1>5. \A s \in Steps \ {step[a]} : target'[s] = target[s]
  BY DEF EndCommand, SkipRemoval, MayLeave, world, Inv, Typed
<1>6. PICK ok \in BOOLEAN :
        /\ AfterCommand(a, ok)
        /\ \/ /\ EndCommand(a) /\ ok
              /\ target' = [target EXCEPT ![step[a]] = Goal(pc[a])]
           \/ EndCommand(a) /\ ~ok /\ faults' > 0
           \/ SkipRemoval(a) /\ pc[a] \in {"cleanup", "undo"} /\ ~ok
           \/ SkipRemoval(a) /\ pc[a] = "gateUndo" /\ ok
  <2>1. CASE /\ EndCommand(a) /\ AfterCommand(a, TRUE)
             /\ target' = [target EXCEPT ![step[a]] = Goal(pc[a])]
    BY <2>1
  <2>2. CASE EndCommand(a) /\ AfterCommand(a, FALSE) /\ Fault
    BY <1>3, <2>2
  <2>3. CASE SkipRemoval(a)
    BY <2>3 DEF SkipRemoval
  <2> QED
    BY <2>1, <2>2, <2>3 DEF EndCommand
<1>7. /\ pc[a] = "outgoing" => pc'[a] = IF ok THEN "replace" ELSE "unknown"
      /\ pc[a] \in Installs => pc'[a] = IF ok THEN "gate" ELSE "cleanup"
      /\ pc[a] = "cleanup" /\ step[a] \in Fresh => pc'[a] = IF ok THEN "unchanged" ELSE "unknown"
      /\ pc[a] = "cleanup" /\ step[a] \notin Fresh => pc'[a] = "restore"
      /\ pc[a] = "restore" => pc'[a] = "unknown" \/ (ok /\ pc'[a] = "unchanged")
      /\ pc[a] = "gateUndo" => pc'[a] = IF ok THEN "gateRestore" ELSE "unknown"
      /\ pc[a] = "gateRestore" => pc'[a] = IF ok THEN "unchanged" ELSE "unknown"
      /\ pc[a] = "undo" => pc'[a] = "markUnknown" \/ (step[a] \notin Fresh /\ pc'[a] = "redo")
      /\ pc[a] = "redo" => pc'[a] = IF ok THEN "recordOld" ELSE "markUnknown"
  BY <1>6 DEF AfterCommand, Inv, Typed, Installs
<1>8. Waits(a) => Waits(a)'
  BY <1>1, <1>2, <1>7 DEF Waits, Going, Compensating, MidStep, Commands, Removals, Installs,
     Restores, RecordWrites
<1>9. ok /\ EndCommand(a) => target'[step[a]] = Goal(pc[a])
  BY <1>1, <1>6 DEF Inv, Typed, SkipRemoval, EndCommand, Commands, Removals
<1>10. ASSUME Waits(a), Tended(a), faults' <= 1 PROVE Tended(a)'
  <2>1. Settling(a)
    BY <1>1, <1>10 DEF Tended, MidStep
  <2>2. pc'[a] \in MidStep
    BY <1>1, <1>7 DEF MidStep, Commands, Removals, Installs, Restores, RecordWrites
  <2>3. ~ok => faults' > 0
    BY <1>3, <1>6, <2>1 DEF Settling, Compensating
  <2>4. pc[a] \notin Compensating => record[step[a]] = From(step[a])
    BY <1>1, <1>10 DEF Waits, Going, MidStep
  <2>5. Settling(a)'
    <3>1. CASE pc[a] \in {"outgoing", "gateUndo"}
      BY <1>2, <1>3, <1>7, <2>1, <2>3, <3>1 DEF Settling, Compensating
    <3>2. CASE pc[a] \in Installs
      <4>1. ok => target'[step[a]] = "new"
        BY <1>6, <1>9, <3>2 DEF Goal, Installs
      <4> QED
        BY <1>2, <1>3, <1>7, <2>1, <2>3, <3>2, <4>1 DEF Settling, Compensating, Installs
    <3>3. CASE pc[a] = "cleanup"
      <4>1. step[a] \in Fresh /\ ok => target'[step[a]] = record[step[a]]
        BY <1>6, <1>9, <2>4, <3>3 DEF Goal, From, Installs, Restores, Compensating
      <4> QED
        BY <1>2, <1>3, <1>7, <2>1, <2>3, <3>3, <4>1 DEF Settling, Compensating
    <3>4. CASE pc[a] \in {"restore", "gateRestore"}
      <4>1. ok => target'[step[a]] = record[step[a]]
        BY <1>6, <1>9, <2>1, <2>4, <3>4 DEF Goal, From, Installs, Restores, Compensating, Settling
      <4> QED
        BY <1>2, <1>3, <1>7, <2>1, <2>3, <3>4, <4>1 DEF Settling, Compensating
    <3>5. CASE pc[a] \in {"undo", "redo"}
      <4>1. ok /\ pc[a] = "redo" => target'[step[a]] = "old"
        BY <1>6, <1>9, <3>5 DEF Goal, Installs, Restores
      <4> QED
        BY <1>2, <1>3, <1>7, <2>1, <3>5, <4>1 DEF Settling, Compensating
    <3> QED
      BY <1>1, <3>1, <3>2, <3>3, <3>4, <3>5 DEF Commands, Removals, Restores
  <2> QED
    BY <2>2, <2>5 DEF Tended
<1> QED
  BY <1>1, <1>2, <1>3, <1>4, <1>5, <1>8, <1>10, HolderKeepsBoth

\* The steps that write the deployment record.
LEMMA RecordingKeepsBoth ==
    ASSUME Inv, Untouched, Kept, faults \in Nat, NEW a \in Attempts,
           \/ Record(a) \/ RecordHalt(a) \/ RecordLive(a) \/ RecordUnchanged(a)
           \/ RecordUnknown(a) \/ RecordOld(a) \/ MarkUnknown(a)
    PROVE  Untouched' /\ Kept'
<1>1. PICK value \in {"none", "old", "new", "unknown"},
           next \in {"recorded", "finishFailed", "fail", "markUnknown"},
           onError \in {"undo", "fail", "markUnknown"} :
        /\ Observe(a, value, next, onError)
        /\ \/ /\ pc[a] \in {"record", "halt"} /\ value = "new"
              /\ next \in {"recorded", "finishFailed"} /\ onError = "undo"
           \/ pc[a] = "live"
           \/ /\ pc[a] = "unchanged" /\ value = record[step[a]]
              /\ next = "finishFailed" /\ onError = "fail"
           \/ /\ pc[a] \in {"unknown", "markUnknown"} /\ value = "unknown"
              /\ next \in {"finishFailed", "fail"}
           \/ /\ pc[a] = "recordOld" /\ value = "old"
              /\ next \in {"fail", "markUnknown"} /\ onError = "markUnknown"
        /\ next = "recorded" => pc[a] = "record"
  <2>1. record[step[a]] \in {"none", "old", "new", "unknown"}
    BY DEF Inv, Typed
  <2>2. CASE Record(a)
    BY <2>2 DEF Record, Compensation
  <2>3. CASE RecordHalt(a) \/ RecordLive(a) \/ RecordUnknown(a)
    BY <2>3 DEF RecordHalt, RecordLive, RecordUnknown, Compensation
  <2>4. CASE RecordUnchanged(a)
    BY <2>1, <2>4 DEF RecordUnchanged
  <2>5. CASE RecordOld(a)
    BY <2>5 DEF RecordOld, Observe
  <2>6. CASE MarkUnknown(a)
    BY <2>6 DEF MarkUnknown, Observe
  <2> QED
    BY <2>2, <2>3, <2>4, <2>5, <2>6
<1>2. /\ Held(a) /\ UNCHANGED <<generation, live, gen, step, interrupted, target>>
      /\ faults' \in Nat /\ faults <= faults'
  BY <1>1 DEF Observe, RecordWrite, Goto, Fault, NoFault, fence, history
<1>3. /\ pc'[a] \in {next, onError} /\ \A b \in Attempts \ {a} : pc'[b] = pc[b]
      /\ \A s \in Steps \ {step[a]} : record'[s] = record[s]
      /\ step[a] \in Steps
  BY <1>1 DEF Observe, RecordWrite, Goto, Inv, Typed
<1>4. \/ pc'[a] = next /\ record'[step[a]] = value
      \/ pc'[a] = onError /\ faults' > faults /\ record'[step[a]] \in {record[step[a]], value}
  BY <1>1, <1>3 DEF Observe, RecordWrite, Goto, Fault, Inv, Typed
<1>5. Waits(a) => Waits(a)'
  <2>1. \A s \in Steps : s > step[a] => s # step[a]
    BY <1>3 DEF Steps
  <2>2. pc[a] \in Going
    BY <1>1 DEF Going, MidStep, RecordWrites
  <2>3. pc'[a] \notin Going \ Compensating
    BY <1>1, <1>3 DEF Going, MidStep, Commands, Removals, Installs, Restores, RecordWrites,
       Compensating
  <2> QED
    BY <1>2, <1>3, <2>1, <2>2, <2>3 DEF Waits
<1>6. ASSUME Waits(a), Tended(a), faults' <= 1 PROVE Tended(a)'
  <2>1. Settling(a)
    BY <1>1, <1>6 DEF Tended, MidStep, RecordWrites
  <2>2. /\ {"recorded", "finishFailed", "fail"} \cap MidStep = {}
        /\ {"undo", "markUnknown"} \subseteq MidStep
    BY DEF MidStep, Commands, Removals, Installs, Restores, RecordWrites
  <2>3. CASE pc[a] \in {"record", "halt"}
    <3>1. target[step[a]] = "new"
      BY <2>1, <2>3 DEF Settling
    <3>2. pc'[a] = "undo" => faults' > 0
      BY <1>1, <1>2, <1>4
    <3> QED
      BY <1>1, <1>2, <1>4, <2>2, <2>3, <3>1, <3>2 DEF Tended, Settling, Agrees, Compensating
  <2>4. CASE pc[a] = "unchanged"
    BY <1>1, <1>2, <1>4, <2>1, <2>2, <2>4 DEF Tended, Settling, Agrees
  <2>5. CASE pc[a] \in {"unknown", "markUnknown", "recordOld"}
    <3>1. faults > 0 /\ ~(faults' > faults)
      BY <1>2, <1>6, <2>1, <2>5 DEF Settling, Compensating
    <3> QED
      BY <1>1, <1>2, <1>4, <2>1, <2>2, <2>5, <3>1 DEF Tended, Settling, Agrees, Compensating
  <2> QED
    BY <1>1, <2>1, <2>3, <2>4, <2>5 DEF Settling
<1> QED
  BY <1>2, <1>3, <1>5, <1>6, HolderKeepsBoth

\* The steps of an attempt that is not in the middle of a step, and stays out.
LEMMA OutsideKeepsBoth ==
    ASSUME Inv, Untouched, Kept, faults \in Nat, NEW a \in Attempts,
           \/ Load(a) \/ Claim(a) \/ ClaimRefused(a) \/ Authorize(a) \/ Admit(a) \/ Blocked(a)
           \/ Block(a) \/ GateBlock(a) \/ StartRunning(a) \/ Started(a) \/ NextStep(a)
           \/ Fail(a) \/ Finish(a) \/ FinishFailed(a) \/ Release(a)
    PROVE  Untouched' /\ Kept'
<1> USE DEF Load, Claim, ClaimRefused, Authorize, Admit, Blocked, Block, GateBlock, StartRunning,
            Started, NextStep, Fail, Finish, FinishFailed, Release
<1>1. /\ faults' = faults \/ faults' = faults + 1
      /\ UNCHANGED <<target, record, interrupted>>
  BY DEF Decide, ReadFault, PlanWrite, Fault, NoFault, world, history
<1>2. \A b \in Attempts \ {a} : UNCHANGED <<pc[b], gen[b], step[b]>>
  BY DEF Decide, ReadFault, PlanWrite, Goto, AfterPlanError, End, Inv, Typed
<1>3. pc[a] \notin MidStep /\ pc'[a] \notin MidStep
  BY DEF Decide, ReadFault, PlanWrite, Goto, AfterPlanError, End, Inv, Typed, MidStep, Commands,
     Removals, Installs, Restores, RecordWrites
<1>4. \/ Claim(a)
      \/ generation' = generation /\ (live' => live)
  BY DEF Decide, ReadFault, PlanWrite, fence
<1>5. /\ Held(a)' => \/ Claim(a)
                     \/ Held(a) /\ gen'[a] = gen[a] /\ ~Claim(a)
      /\ Held(a)' => pc'[a] # "idle"
  BY DEF Decide, ReadFault, PlanWrite, Goto, AfterPlanError, End, Inv, Typed, Held, Unheld, Accepts,
     fence
<1>6. Held(a)' => Waits(a)'
  <2>1. CASE pc[a] = "admit" /\ pc'[a] = "start"
    <3>1. AdmitsRecord /\ step'[a] = step[a] /\ step[a] \in Steps
      BY <2>1 DEF Decide, Goto, Inv, Typed
    <3> QED
      BY <1>1, <3>1 DEF AdmitsRecord, Waits
  <2>2. CASE NextStep(a)
    <3>1. Held(a) /\ pc[a] = "recorded" /\ step[a] \in Steps
      BY <2>2 DEF Inv, Typed
    <3>2. \A s \in Steps : s > step[a] => record[s] = From(s)
      BY <3>1 DEF Untouched, Waits
    <3>3. CASE step[a] = NumSteps
      <4>1. pc'[a] = "finish"
        BY <2>2, <3>3 DEF Goto, Inv, Typed
      <4> QED
        BY <4>1 DEF Waits, Going, MidStep, Commands, Removals, Installs, Restores, RecordWrites
    <3>4. CASE step[a] # NumSteps
      <4>1. step'[a] = step[a] + 1 /\ step'[a] \in Steps
        BY <2>2, <3>1, <3>4, PlanAssumption DEF Inv, Typed, Steps
      <4>2. \A s \in Steps : s >= step'[a] => record[s] = From(s)
        BY <3>1, <3>2, <4>1 DEF Steps
      <4>3. \A s \in Steps : s > step'[a] => s >= step'[a]
        BY <4>1 DEF Steps
      <4>4. step'[a] >= step'[a]
        BY <4>1 DEF Steps
      <4> QED
        BY <1>1, <4>1, <4>2, <4>3, <4>4 DEF Waits
    <3> QED
      BY <3>3, <3>4
  <2>3. CASE Held(a) /\ pc[a] \in {"start", "started"} /\ pc'[a] \in {"started", "step"}
    <3>1. step'[a] = step[a] /\ Waits(a)
      BY <2>3 DEF Decide, ReadFault, PlanWrite, Goto, AfterPlanError, Inv, Typed, Untouched
    <3>2. pc[a] \in Going \ Compensating
      BY <2>3 DEF Going, Compensating
    <3> QED
      BY <1>1, <3>1, <3>2 DEF Waits
  <2>4. CASE pc'[a] \notin Going \cup {"recorded"}
    BY <2>4 DEF Waits
  <2>5. \/ pc[a] = "admit" /\ pc'[a] = "start"
        \/ NextStep(a)
        \/ Held(a) /\ pc[a] \in {"start", "started"} /\ pc'[a] \in {"started", "step"}
        \/ pc'[a] \in {"claim", "idle", "authorize", "admit", "block", "gateBlock", "release", "fail"}
    BY DEF Decide, ReadFault, PlanWrite, Goto, AfterPlanError, End, Inv, Typed
  <2>6. {"claim", "idle", "authorize", "admit", "block", "gateBlock", "release", "fail"}
          \cap (Going \cup {"recorded"}) = {}
    BY DEF Going, MidStep, Commands, Removals, Installs, Restores, RecordWrites
  <2> QED
    BY <2>1, <2>2, <2>3, <2>4, <2>5, <2>6
<1>7. ASSUME NEW b \in Attempts \ {a} PROVE Held(b)' => Held(b)
  <2>1. CASE Claim(a)
    BY <1>2, <2>1 DEF Held, Accepts, Grant, Inv, Typed, TokenIsOwners
  <2>2. CASE generation' = generation /\ (live' => live)
    BY <1>2, <2>2 DEF Held, Accepts
  <2> QED
    BY <1>4, <2>1, <2>2
<1> HIDE DEF Load, Claim, ClaimRefused, Authorize, Admit, Blocked, Block, GateBlock, StartRunning,
             Started, NextStep, Fail, Finish, FinishFailed, Release
<1>8. Untouched'
  <2>1. ASSUME NEW b \in Attempts \ {a}, Held(b)' PROVE Waits(b)'
    <3>1. Waits(b)
      BY <1>7, <2>1 DEF Untouched
    <3> QED
      BY <1>1, <1>2, <3>1 DEF Waits
  <2> QED
    BY <1>6, <2>1 DEF Untouched
<1>9. ASSUME NEW b \in Attempts, Accepts(gen[b])', gen'[b] = gen[b] PROVE Accepts(gen[b])
  <2>1. CASE Claim(a)
    <3>1. gen[b] \in Nat /\ generation \in Nat /\ gen[b] <= generation
      BY DEF Inv, Typed, TokenIsOwners
    <3>2. gen'[b] = generation + 1
      BY <1>9, <2>1 DEF Claim, Accepts, Grant
    <3> QED
      BY <1>9, <3>1, <3>2
  <2>2. CASE generation' = generation /\ (live' => live)
    BY <1>9, <2>2 DEF Accepts
  <2> QED
    BY <1>4, <2>1, <2>2
<1>10. Kept'
  BY <1>1, <1>2, <1>3, <1>9, QuietKeepsKept
<1> QED
  BY <1>8, <1>10

\* A command starts.
LEMMA BeginKeepsBoth ==
    ASSUME Inv, Untouched, Kept, faults \in Nat, NEW a \in Attempts, BeginCommand(a)
    PROVE  Untouched' /\ Kept'
<1>1. UNCHANGED <<generation, live, pc, gen, step, target, record, faults, interrupted>>
  BY DEF BeginCommand, NoFault, attempt, fence, history
<1>2. Untouched'
  BY <1>1 DEF Untouched, Waits, Held, Accepts
<1>3. Kept'
  BY <1>1, QuietKeepsKept DEF Accepts
<1> QED
  BY <1>2, <1>3

\* An attempt that gives up, is stopped or dies: whoever is in the middle of a
\* step is cut off there, and that is on record.
LEMMA CutKeepsBoth ==
    ASSUME Inv, Untouched, Kept, faults \in Nat, interrupted \in BOOLEAN,
           NEW a \in Attempts, GiveUp(a) \/ LoseCommand(a) \/ Crash(a)
    PROVE  Untouched' /\ Kept'
<1>1. /\ UNCHANGED <<generation, live, record, faults>>
      /\ pc'[a] = "idle"
      /\ \A b \in Attempts \ {a} : UNCHANGED <<pc[b], gen[b], step[b]>>
  BY DEF GiveUp, LoseCommand, Crash, End, NoFault, fence, world, Inv, Typed
<1>2. Untouched'
  <2>1. ~Held(a)'
    BY <1>1 DEF Held, Unheld
  <2>2. ASSUME NEW b \in Attempts \ {a}, Held(b)' PROVE Waits(b)'
    BY <1>1, <2>2 DEF Untouched, Held, Accepts, Waits
  <2> QED
    BY <2>1, <2>2 DEF Untouched
<1>3. CASE pc[a] \in MidStep
  <2>1. interrupted'
    BY <1>3 DEF GiveUp, LoseCommand, Crash
  <2> QED
    BY <1>2, <2>1 DEF Kept
<1>4. CASE pc[a] \notin MidStep
  <2>1. mutex # a
    BY <1>4 DEF Inv, Typed, MidStep
  <2>2. target' = target /\ interrupted' = interrupted
    BY <1>4, <2>1 DEF GiveUp, LoseCommand, Crash, world
  <2>3. "idle" \notin MidStep
    BY DEF MidStep, Commands, Removals, Installs, Restores, RecordWrites
  <2>4. Kept'
    BY <1>1, <1>4, <2>2, <2>3, QuietKeepsKept DEF Accepts
  <2> QED
    BY <1>2, <2>4
<1> QED
  BY <1>3, <1>4

\* A refresh that failed: the step it cuts off is on record as well.
LEMMA FenceKeepsBoth ==
    ASSUME Inv, Untouched, Kept, faults \in Nat, interrupted \in BOOLEAN,
           NEW a \in Attempts, LoseFence(a)
    PROVE  Untouched' /\ Kept'
<1>1. /\ UNCHANGED <<generation, live, record, gen, step>>
      /\ faults' = faults + 1
      /\ pc'[a] = "release"
      /\ \A b \in Attempts \ {a} : pc'[b] = pc[b]
  BY DEF LoseFence, Goto, Fault, fence, Inv, Typed
<1>2. Untouched'
  <2>1. Waits(a)'
    BY <1>1 DEF Waits, Going, MidStep, Commands, Removals, Installs, Restores, RecordWrites
  <2>2. ASSUME NEW b \in Attempts \ {a}, Held(b)' PROVE Waits(b)'
    BY <1>1, <2>2 DEF Untouched, Held, Accepts, Waits
  <2> QED
    BY <2>1, <2>2 DEF Untouched
<1>3. CASE pc[a] \in MidStep
  <2>1. interrupted'
    BY <1>3 DEF LoseFence
  <2> QED
    BY <1>2, <2>1 DEF Kept
<1>4. CASE pc[a] \notin MidStep
  <2>1. mutex # a
    BY <1>4 DEF Inv, Typed, MidStep
  <2>2. target' = target /\ interrupted' = interrupted
    BY <1>4, <2>1 DEF LoseFence
  <2>3. "release" \notin MidStep
    BY DEF MidStep, Commands, Removals, Installs, Restores, RecordWrites
  <2>4. Kept'
    BY <1>1, <1>4, <2>2, <2>3, QuietKeepsKept DEF Accepts
  <2> QED
    BY <1>2, <2>4
<1> QED
  BY <1>3, <1>4

\* What the lease, the operator and the reconciler do.
LEMMA OthersKeepBoth ==
    ASSUME Inv, Untouched, Kept, faults \in Nat,
           Expire \/ Unlock \/ UnlockReleases \/ RecoveryStep \/ UNCHANGED vars
    PROVE  Untouched' /\ Kept'
<1>1. UNCHANGED <<pc, gen, step, target, record, faults, interrupted>>
  BY DEF Expire, Unlock, UnlockReleases, RecoveryStep, ListRunning, CheckHolder, ValidateRecovery,
     PutFailed, Recover, NoFault, attempt, world, history, vars
<1>2. \/ Grant(Operator)
      \/ generation' = generation /\ (live' => live)
  BY DEF Expire, Unlock, UnlockReleases, RecoveryStep, ListRunning, CheckHolder, ValidateRecovery,
     PutFailed, Recover, Lapse, fence, vars
<1>3. ASSUME NEW b \in Attempts, Accepts(gen[b])' PROVE Accepts(gen[b])
  <2>1. CASE Grant(Operator)
    BY <1>1, <1>3, <2>1 DEF Grant, Accepts, Inv, Typed, TokenIsOwners
  <2>2. CASE generation' = generation /\ (live' => live)
    BY <1>1, <1>3, <2>2 DEF Accepts
  <2> QED
    BY <1>2, <2>1, <2>2
<1>4. Untouched'
  BY <1>1, <1>3 DEF Untouched, Held, Waits
<1>5. Kept'
  BY <1>1, <1>3, QuietKeepsKept
<1> QED
  BY <1>4, <1>5

\* One failed command or store call leaves no record that names another version
\* than the one installed, for any number of attempts, steps, crashes and
\* unlocks, unless it is a refresh whose failure counts as a lost fence and cuts
\* the step off (LoseFence, excepted as interrupted), or the gate's rollback could
\* not be started ("blocked", where the record of the live release is the last
\* chance).  The holder's position
\* tells what is installed and which places it reaches only after a fault, so
\* that the one write left to it is not the one that fails (Settling); an
\* attempt that lost its lease in the middle of a step ends as interrupted.
THEOREM FaultIsRecorded ==
    "blocked" \notin GateOutcomes => (Safety => []OneFaultKeepsRecord)
<1> SUFFICES ASSUME "blocked" \notin GateOutcomes PROVE Safety => []OneFaultKeepsRecord
  OBVIOUS
<1> DEFINE Both == Untouched /\ Kept
<1>1. Init => Both
  <2> SUFFICES ASSUME Init PROVE Both
    OBVIOUS
  <2>1. \A a \in Attempts : pc[a] = "idle"
    BY DEF Init
  <2>2. "idle" \notin MidStep /\ "idle" \in Unheld
    BY DEF MidStep, Commands, Removals, Installs, Restores, RecordWrites, Unheld
  <2>3. \A s \in Steps : Agrees(s)
    BY DEF Init, Agrees
  <2> QED
    BY <2>1, <2>2, <2>3 DEF Untouched, Held, Kept
<1>2. Inv /\ TypeOK /\ Both /\ [Next]_vars => Both'
  <2> SUFFICES ASSUME Inv, TypeOK, Untouched, Kept, [Next]_vars PROVE Untouched' /\ Kept'
    OBVIOUS
  <2>1. faults \in Nat /\ interrupted \in BOOLEAN
    BY PlanAssumption DEF TypeOK
  <2>2. CASE Expire \/ Unlock \/ UnlockReleases \/ RecoveryStep \/ UNCHANGED vars
    BY <2>1, <2>2, OthersKeepBoth
  <2>3. ASSUME NEW a \in Attempts, AttemptStep(a) \/ Crash(a) PROVE Untouched' /\ Kept'
    BY <2>1, <2>3, OutsideKeepsBoth, DecisionKeepsBoth, BeginKeepsBoth, EndKeepsBoth,
       RecordingKeepsBoth, CutKeepsBoth, FenceKeepsBoth DEF AttemptStep
  <2> QED
    BY <2>2, <2>3 DEF Next
<1>3. TypeOK /\ Both => OneFaultKeepsRecord
  <2> SUFFICES ASSUME TypeOK, Kept, Quiescent, ~interrupted, faults <= 1
               PROVE  \A s \in Steps : record[s] \in {target[s], "unknown"}
    BY DEF OneFaultKeepsRecord
  <2>1. ~(faults > 1)
    BY PlanAssumption DEF TypeOK
  <2>2. ~Doomed
    BY DEF Doomed, Quiescent
  <2> QED
    BY <2>1, <2>2 DEF Kept, Quiescent, Agrees
<1> QED
  BY <1>1, <1>2, <1>3, Inductive, TypeCorrect, PTL DEF Safety
=============================================================================
