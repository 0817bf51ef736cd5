------------------------ MODULE RuntimeDeliveryProofs ------------------------
(***************************************************************************)
(* Proofs about RuntimeDelivery, for any number of instances, plans and    *)
(* steps: the stored completion of a plan decides it, two executors never  *)
(* work in the environment unless one belongs to a stalled agent, and what *)
(* succeeded is installed and recorded.                                    *)
(***************************************************************************)
EXTENDS RuntimeDelivery, TLAPS

Groups == {"none", "alive", "orphan"}
Types ==
    /\ plan \in [Plans -> PlanStates]
    /\ claim \in [Plans -> Claims]
    /\ record \in Records /\ target \in Records
    /\ server \in {"executing", "gone"}
    /\ pc \in [Instances -> Pcs]
    /\ job \in [Instances -> Jobs]
    /\ group \in [Instances -> Groups]
    /\ revoked \in SUBSET Instances
    /\ faults \in 0..MaxFaults
    /\ contested \in BOOLEAN

\* An instance that was granted a plan and has not stored its completion.
Working == {"ready", "executing", "validate", "store"}
Engaged(i) == pc[i] \in Working \/ group[i] = "orphan"

\* An executor runs for its agent or is left by it, an execution starts with
\* no step done and ends when none is left, and nobody works beside the server.
Shaped(i) ==
    /\ group[i] = "alive" <=> pc[i] = "executing"
    /\ group[i] = "orphan" => pc[i] = "dead"
    /\ group[i] # "none" => job[i].done < NumSteps
    /\ pc[i] \in {"idle", "claim"} => job[i].done = 0
    /\ pc[i] = "ready" => job[i].done < NumSteps
    /\ server = "executing" => pc[i] \in {"idle", "dead"} /\ group[i] = "none"

\* What an instance knows of its plan.  Until a completion is stored only a
\* computed plan is executed; what the server began is only abandoned.
Known(i) ==
    LET p == job[i].plan IN
    /\ Engaged(i) /\ claim[p].done = Unreported => plan[p] = "computed"
    /\ pc[i] = "claim" /\ job[i].seen = "computed" /\ claim[p].done = Unreported =>
         plan[p] = "computed"
    /\ pc[i] = "claim" /\ job[i].seen = "running" => plan[p] \notin {"absent", "computed"}
    /\ pc[i] = "abandon" =>
         plan[p] \notin {"absent", "computed"} /\ claim[p].done = Unreported
    /\ pc[i] = "lapsed" => claim[p].done # Unreported
    /\ pc[i] \in Applying => claim[p].done = job[i].done

\* An executor whose agent asked in time is covered by the agent's claim.
Covered(i) ==
    LET c == claim[job[i].plan] IN
    group[i] # "none" /\ job[i].age < Lifetime =>
        c.owner = i /\ c.gen = job[i].gen /\ c.age <= job[i].age /\ c.done = Unreported

\* A handler finds the plan as it left it, and the steps an instance has done
\* are installed.
Undisturbed(i) ==
    ~contested =>
        /\ pc[i] = "putRunning" => plan[job[i].plan] = "computed"
        /\ pc[i] \in {"read", "put"} => plan[job[i].plan] = "running"
        /\ pc[i] \in Working /\ claim[job[i].plan].done = Unreported =>
             \A s \in Steps : s <= job[i].done => target[s] = job[i].plan

Own(i) == Shaped(i) /\ Known(i) /\ Covered(i) /\ Undisturbed(i)

\* Nothing is claimed while the server executes its plan, and a claim that
\* nobody made has no completion.
ServerFirst ==
    /\ server = "executing" => plan[1] = "running" /\ \A p \in Plans : claim[p].gen = 0
    /\ \A p \in Plans :
         claim[p].gen = 0 => claim[p].owner = Nobody /\ claim[p].done = Unreported

\* A plan is made when those before it ended; only a handler that lost a race
\* makes such a plan running again.
Ordered ==
    \A p, q \in Plans : q < p /\ plan[p] # "absent" =>
        /\ plan[q] \notin {"absent", "computed"}
        /\ ~contested => plan[q] \in Terminal

\* One handler at a time applies the completion of a plan.
OneHandler ==
    ~contested =>
        \A i, j \in Instances :
            i # j /\ pc[i] \in Applying /\ pc[j] \in Applying => job[i].plan # job[j].plan

Latest(p) == \A q \in Plans : q > p => claim[q].gen = 0

\* What a completion reports is installed until a later plan is granted.
Reported ==
    ~contested =>
        \A p \in Plans :
            claim[p].done # Unreported /\ Latest(p) =>
                \A s \in Steps : s <= claim[p].done => target[s] = p

Shared == ServerFirst /\ Ordered /\ CompletionDecides /\ OneHandler /\ Reported /\ SucceededIsInstalled

Inv == Types /\ Shared /\ \A i \in Instances : Own(i)

-----------------------------------------------------------------------------

LEMMA NoJobIsJob == NoJob \in Jobs /\ NoJob.done = 0 /\ NoJob.age = 0 /\ NoJob.plan = 1
  BY DeliveryAssumption DEF NoJob, Jobs, Plans, Steps, Records

LEMMA InitInv == Init => Inv
<1> SUFFICES ASSUME Init PROVE Inv
  OBVIOUS
<1>1. claim \in [Plans -> Claims]
  BY DeliveryAssumption DEF Init, Claims
<1>2. Types
  <2>1. plan \in [Plans -> PlanStates] /\ server \in {"executing", "gone"}
    BY DEF Init, PlanStates
  <2>2. record \in Records /\ target \in Records
    BY DeliveryAssumption DEF Init, Records
  <2>3. job \in [Instances -> Jobs]
    BY NoJobIsJob DEF Init
  <2>4. pc \in [Instances -> Pcs] /\ group \in [Instances -> Groups]
    BY DEF Init, Pcs, Groups
  <2>5. revoked \in SUBSET Instances /\ faults \in 0..MaxFaults
    BY DeliveryAssumption DEF Init
  <2>6. contested \in BOOLEAN
    BY Zenon DEF Init
  <2> QED
    BY <1>1, <2>1, <2>2, <2>3, <2>4, <2>5, <2>6 DEF Types
<1>3. /\ \A p \in Plans : claim[p].gen = 0 /\ claim[p].owner = Nobody /\ claim[p].done = Unreported
      /\ \A i \in Instances : pc[i] = "idle" /\ group[i] = "none"
      /\ 1 \in Plans
      /\ plan \in [Plans -> PlanStates]
      /\ \A p \in Plans : p # 1 => plan[p] = "absent"
      /\ plan[1] \in {"running", "computed"} /\ (server = "executing" => plan[1] = "running")
      /\ ~contested
  BY DeliveryAssumption DEF Init, Plans, PlanStates
<1>4. ServerFirst /\ Ordered /\ OneHandler
  BY <1>3, DeliveryAssumption DEF ServerFirst, Ordered, OneHandler, Plans, Applying
<1>5. CompletionDecides /\ Reported /\ SucceededIsInstalled
  BY <1>3 DEF CompletionDecides, Reported, SucceededIsInstalled
<1>6. \A i \in Instances : Own(i)
  <2>1. \A i \in Instances : job[i].done = 0
    BY NoJobIsJob DEF Init
  <2> QED
    BY <1>3, <2>1 DEF Own, Shaped, Known, Covered, Undisturbed, Engaged, Working, Applying
<1> QED
  BY <1>2, <1>4, <1>5, <1>6 DEF Inv, Shared

\* A product is installed only for the plan that waits to be executed.
Placed ==
    \/ target' = target
    \/ \E q \in Plans, s \in Steps :
          /\ target' = [target EXCEPT ![s] = q]
          /\ plan[q] = "computed" /\ claim[q].done = Unreported /\ claim[q].gen > 0

\* A claim is renewed or left alone.
Kept ==
    /\ claim' \in [Plans -> Claims]
    /\ \A p \in Plans : /\ claim'[p].owner = claim[p].owner /\ claim'[p].gen = claim[p].gen
                        /\ claim'[p].done = claim[p].done /\ claim'[p].age <= claim[p].age

\* An instance moves on and leaves the plans, the record and what the claims say alone.
LEMMA MoveKeepsInv ==
    ASSUME Inv, NEW i \in Instances, NEW j \in Jobs, NEW s \in Pcs, NEW g \in Groups,
           pc' = [pc EXCEPT ![i] = s], job' = [job EXCEPT ![i] = j],
           group' = [group EXCEPT ![i] = g],
           UNCHANGED <<plan, record, server>>, Kept,
           target' \in Records, revoked' \in SUBSET Instances, faults' \in 0..MaxFaults,
           contested' \in BOOLEAN, contested => contested', contested' \/ Placed,
           Own(i)',
           ~contested' /\ s \in Applying =>
               \A k \in Instances \ {i} : pc[k] \in Applying => job[k].plan # j.plan
    PROVE  Inv'
<1>1. Types'
  BY DEF Inv, Types, Kept
<1>2. /\ pc'[i] = s /\ job'[i] = j /\ group'[i] = g
      /\ \A k \in Instances \ {i} : pc'[k] = pc[k] /\ job'[k] = job[k] /\ group'[k] = group[k]
  BY DEF Inv, Types
<1>3. /\ \A k \in Instances : job[k].plan \in Plans /\ job[k].done \in 0..NumSteps
                              /\ job[k].age \in 0..Lifetime
      /\ \A p \in Plans : claim[p].age \in 0..Lifetime /\ claim'[p].age \in 0..Lifetime
                          /\ claim[p].gen \in Nat
      /\ plan' = plan /\ server' = server /\ record' = record
  BY DEF Inv, Types, Jobs, Claims, Kept
<1>4. ServerFirst' /\ CompletionDecides' /\ Ordered'
  BY DEF Inv, Shared, ServerFirst, CompletionDecides, Ordered, Kept
<1>5. OneHandler'
  BY <1>2 DEF Inv, Shared, OneHandler
<1>6. ~contested' => ~contested /\ Placed
  OBVIOUS
<1>7. ASSUME NEW p \in Plans, ~contested', Latest(p)', plan[p] # "absent", plan[p] # "computed"
      PROVE  target' = target
  <2>1. Latest(p)
    BY <1>7 DEF Latest, Kept
  <2>2. ASSUME NEW q \in Plans, plan[q] = "computed", claim[q].gen > 0 PROVE FALSE
    BY <1>3, <1>7, <2>1, <2>2 DEF Inv, Shared, Ordered, Latest, Plans
  <2> QED
    BY <1>6, <1>7, <2>2 DEF Placed
<1>8. Reported'
  <2> SUFFICES ASSUME ~contested', NEW p \in Plans, claim'[p].done # Unreported, Latest(p)',
                      NEW x \in Steps, x <= claim'[p].done
               PROVE  target'[x] = p
    BY DEF Reported
  <2>1. claim[p].done # Unreported /\ claim'[p].done = claim[p].done /\ Latest(p)
    BY DEF Kept, Latest
  <2>2. plan[p] # "absent"
    BY <2>1 DEF Inv, Shared, CompletionDecides
  <2>3. target[x] = p
    BY <1>6, <2>1 DEF Inv, Shared, Reported
  <2>4. CASE target' = target
    BY <2>3, <2>4
  <2>5. ASSUME NEW q \in Plans, NEW y \in Steps, target' = [target EXCEPT ![y] = q],
               plan[q] = "computed", claim[q].done = Unreported, claim[q].gen > 0
        PROVE  FALSE
    BY <1>3, <2>1, <2>2, <2>5 DEF Inv, Shared, Ordered, Latest, Plans
  <2> QED
    BY <1>6, <2>4, <2>5 DEF Placed
<1>9. SucceededIsInstalled'
  <2> SUFFICES ASSUME ~contested', NEW p \in Plans, plan[p] = "succeeded", Latest(p)'
               PROVE  target' = [x \in Steps |-> p] /\ record' = target'
    BY <1>3 DEF SucceededIsInstalled, Latest
  <2>1. target' = target
    BY <1>7
  <2>2. Latest(p)
    BY DEF Latest, Kept
  <2> QED
    BY <1>3, <1>6, <2>1, <2>2 DEF Inv, Shared, SucceededIsInstalled, Latest
<1>10. ASSUME NEW k \in Instances \ {i} PROVE Own(k)'
  <2>1. Own(k) /\ job[k].plan \in Plans
    BY <1>3 DEF Inv
  <2>2. Shaped(k)' /\ Known(k)'
    BY <1>2, <1>3, <2>1 DEF Own, Shaped, Known, Kept, Engaged
  <2>3. Covered(k)'
    BY <1>2, <1>3, <2>1 DEF Own, Covered, Kept
  <2>4. Undisturbed(k)'
    <3> SUFFICES ASSUME ~contested' PROVE Undisturbed(k)'
      BY DEF Undisturbed
    <3>1. /\ pc[k] = "putRunning" => plan[job[k].plan] = "computed"
          /\ pc[k] \in {"read", "put"} => plan[job[k].plan] = "running"
      BY <1>6, <2>1 DEF Own, Undisturbed
    <3>2. ASSUME pc[k] \in Working, claim[job[k].plan].done = Unreported,
                 NEW x \in Steps, x <= job[k].done
          PROVE  target'[x] = job[k].plan
      <4>1. target[x] = job[k].plan /\ plan[job[k].plan] = "computed"
        BY <1>6, <2>1, <3>2 DEF Own, Undisturbed, Known, Engaged
      <4>2. ASSUME NEW q \in Plans, NEW y \in Steps, target' = [target EXCEPT ![y] = q],
                   plan[q] = "computed"
            PROVE  target'[x] = job[k].plan
        <5>1. q = job[k].plan
          BY <2>1, <4>1, <4>2 DEF Inv, Shared, Ordered, Plans
        <5> QED
          BY <4>1, <4>2, <5>1 DEF Inv, Types, Records
      <4> QED
        BY <1>6, <4>1, <4>2 DEF Placed
    <3> QED
      BY <1>2, <1>3, <2>1, <3>1, <3>2 DEF Undisturbed, Kept
  <2> QED
    BY <2>2, <2>3, <2>4 DEF Own
<1> QED
  BY <1>1, <1>4, <1>5, <1>8, <1>9, <1>10 DEF Inv, Shared

\* An instance ends what it does, and its executor is gone.
LEMMA RestKeepsInv ==
    ASSUME Inv, NEW i \in Instances, NEW s \in {"idle", "dead"},
           pc' = [pc EXCEPT ![i] = s], job' = [job EXCEPT ![i] = NoJob],
           group' = [group EXCEPT ![i] = "none"],
           UNCHANGED <<plan, record, server>>, Kept,
           target' \in Records, revoked' \in SUBSET Instances, faults' \in 0..MaxFaults,
           contested' \in BOOLEAN, contested => contested', contested' \/ Placed
    PROVE  Inv'
<1>1. pc'[i] = s /\ job'[i] = NoJob /\ group'[i] = "none"
  BY DEF Inv, Types
<1>2. Own(i)'
  BY <1>1, NoJobIsJob
  DEF Own, Shaped, Known, Covered, Undisturbed, Engaged, Working, Applying
<1>3. s \in Pcs /\ s \notin Applying /\ "none" \in Groups
  BY DEF Pcs, Applying, Groups
<1> QED
  BY <1>2, <1>3, NoJobIsJob, MoveKeepsInv

\* Nothing is said of a claim when it is left alone, and only its age when it
\* is renewed.
LEMMA SameClaim == ASSUME Inv, UNCHANGED claim PROVE Kept
<1>1. \A p \in Plans : claim[p].age \in 0..Lifetime
  BY DEF Inv, Types, Claims
<1> QED
  BY <1>1 DEF Inv, Types, Kept

LEMMA RenewedClaim ==
    ASSUME Inv, NEW p \in Plans, claim' = [claim EXCEPT ![p].age = 0]
    PROVE  Kept /\ claim'[p].age = 0
<1>1. claim' = [claim EXCEPT ![p] = [claim[p] EXCEPT !.age = 0]]
  BY DEF Inv, Types
<1>2. claim[p] \in Claims /\ \A q \in Plans : claim[q].age \in 0..Lifetime
  BY DEF Inv, Types, Claims
<1>3. LET k == [claim[p] EXCEPT !.age = 0] IN
      /\ k \in Claims /\ k.owner = claim[p].owner /\ k.gen = claim[p].gen
      /\ k.done = claim[p].done /\ k.age = 0
  BY <1>2, DeliveryAssumption DEF Claims
<1> HIDE DEF Claims
<1>4. claim'[p] = [claim[p] EXCEPT !.age = 0] /\ \A q \in Plans \ {p} : claim'[q] = claim[q]
  BY <1>1 DEF Inv, Types
<1>5. claim' \in [Plans -> Claims]
  BY <1>1, <1>2, <1>3 DEF Inv, Types
<1> QED
  BY <1>2, <1>3, <1>4, <1>5 DEF Kept

\* What a step leaves alone.
LEMMA Unmoved ==
    ASSUME Inv, NEW i \in Instances
    PROVE  /\ pc = [pc EXCEPT ![i] = pc[i]] /\ job = [job EXCEPT ![i] = job[i]]
           /\ group = [group EXCEPT ![i] = group[i]]
           /\ pc[i] \in Pcs /\ job[i] \in Jobs /\ group[i] \in Groups
           /\ job[i].plan \in Plans /\ job[i].done \in 0..NumSteps /\ job[i].gen \in Nat
           /\ job[i].age \in 0..Lifetime
           /\ pc[i] \notin {"executing", "dead"} => group[i] = "none"
  BY DEF Inv, Types, Jobs, Own, Shaped, Groups

\* A request that only reads, and then goes on.
LEMMA QuietKeepsInv ==
    ASSUME Inv, NEW i \in Instances, NEW j \in Jobs, NEW s \in Pcs,
           pc' = [pc EXCEPT ![i] = s], job' = [job EXCEPT ![i] = j],
           UNCHANGED <<plan, record, server, claim, target, group, revoked>>,
           faults' \in 0..MaxFaults, contested' \in BOOLEAN, contested => contested', Own(i)',
           ~contested' /\ s \in Applying =>
               \A k \in Instances \ {i} : pc[k] \in Applying => job[k].plan # j.plan
    PROVE  Inv'
<1>1. target' \in Records /\ revoked' \in SUBSET Instances
  BY DEF Inv, Types
<1> QED
  BY <1>1, Unmoved, SameClaim, MoveKeepsInv DEF Placed

\* A request that ends without any effect.
LEMMA EndKeepsInv ==
    ASSUME Inv, NEW i \in Instances, End(i), pc[i] \notin {"executing", "dead"},
           UNCHANGED <<plan, record, server, target, group, revoked, contested>>, Kept,
           faults' \in 0..MaxFaults
    PROVE  Inv'
<1>1. target' \in Records /\ revoked' \in SUBSET Instances /\ contested' \in BOOLEAN
  BY DEF Inv, Types
<1>2. group' = [group EXCEPT ![i] = "none"]
  BY Unmoved
<1> QED
  BY <1>1, <1>2, RestKeepsInv DEF End, Goto, Placed

-----------------------------------------------------------------------------
(* Requests that leave the plans and the claims alone. *)

LEMMA FaultCounts == ASSUME Inv, Fault \/ UNCHANGED faults PROVE faults' \in 0..MaxFaults
  BY DeliveryAssumption DEF Inv, Types, Fault

LEMMA Moved ==
    ASSUME Inv, NEW i \in Instances, NEW j, NEW s,
           pc' = [pc EXCEPT ![i] = s], job' = [job EXCEPT ![i] = j]
    PROVE  pc'[i] = s /\ job'[i] = j
  BY DEF Inv, Types

LEMMA PollKeepsInv == ASSUME Inv, NEW i \in Instances, Poll(i) PROVE Inv'
<1>1. PICK p \in Plans : /\ Pending(p)
                         /\ job' = [job EXCEPT ![i].plan = p, ![i].seen = plan[p]]
                         /\ pc' = [pc EXCEPT ![i] = "claim"]
  BY DEF Poll, Choose, Goto
<1> DEFINE j == [job[i] EXCEPT !.plan = p, !.seen = plan[p]]
<1>2. job' = [job EXCEPT ![i] = j]
  BY <1>1 DEF Inv, Types
<1>3. /\ UNCHANGED <<plan, record, server, claim, target, group, revoked, faults, contested>>
      /\ pc[i] = "idle" /\ server = "gone" /\ plan[p] \in {"computed", "running"}
  BY <1>1 DEF Poll, Pending
<1>4. j \in Jobs /\ j.plan = p /\ j.seen = plan[p] /\ j.done = job[i].done
  <2>1. job[i] \in Jobs
    BY Unmoved
  <2> QED
    BY <1>1, <1>3, <2>1 DEF Jobs
<1> HIDE DEF j
<1>5. pc'[i] = "claim" /\ job'[i] = j /\ group'[i] = "none"
  <2>1. group'[i] = "none"
    BY <1>3, Unmoved
  <2> QED
    BY <1>1, <1>2, <2>1, Moved
<1>6. job[i].done = 0
  BY <1>3 DEF Inv, Own, Shaped
<1>7. Own(i)'
  BY <1>3, <1>4, <1>5, <1>6
  DEF Own, Shaped, Known, Covered, Undisturbed, Engaged, Working, Applying
<1>8. "claim" \in Pcs /\ "claim" \notin Applying /\ contested' \in BOOLEAN /\ faults' \in 0..MaxFaults
  BY <1>3 DEF Pcs, Serving, Applying, Inv, Types
<1> QED
  BY <1>1, <1>2, <1>3, <1>4, <1>7, <1>8, QuietKeepsInv

LEMMA ReplayKeepsInv ==
    ASSUME Inv, NEW i \in Instances, pc[i] = "claim", Replay(i), Fault \/ UNCHANGED faults,
           UNCHANGED <<plan, record, target, server, group, revoked, contested>>
    PROVE  Inv'
<1> DEFINE c == claim[job[i].plan]
           j == [job[i] EXCEPT !.seen = "computed", !.gen = c.gen, !.done = c.done, !.age = 0]
<1>1. c.done # Unreported /\ pc' = [pc EXCEPT ![i] = "validate"] /\ claim' = claim
  BY DEF Replay, Goto
<1>2. c.gen \in Nat /\ c.done \in 0..NumSteps
  BY <1>1, Unmoved DEF Inv, Types, Claims
<1>3. job' = [job EXCEPT ![i] = j]
  BY DEF Replay, Inv, Types
<1>4. j \in Jobs /\ j.plan = job[i].plan
  <2> DEFINE k == [job[i] EXCEPT !.seen = "computed", !.gen = c.gen]
  <2>1. job[i] \in Jobs /\ 0 \in 0..Lifetime
    BY Unmoved, DeliveryAssumption
  <2>2. k \in Jobs /\ k.plan = job[i].plan
    BY <1>2, <2>1 DEF Jobs
  <2>3. j = [k EXCEPT !.done = c.done, !.age = 0]
    BY <2>1 DEF Jobs
  <2> HIDE DEF k, j, c
  <2> QED
    BY <1>2, <2>1, <2>2, <2>3 DEF Jobs
<1> HIDE DEF j
<1>5. pc'[i] = "validate" /\ job'[i] = j /\ group'[i] = "none"
  BY <1>1, <1>3, Moved, Unmoved
<1>6. server = "gone"
  BY DEF Inv, Types, Own, Shaped
<1>7. Own(i)'
  BY <1>1, <1>4, <1>5, <1>6
  DEF Own, Shaped, Known, Covered, Undisturbed, Engaged, Working, Applying
<1>8. "validate" \in Pcs /\ "validate" \notin Applying /\ contested' \in BOOLEAN
  BY DEF Pcs, Serving, Applying, Inv, Types
<1> QED
  BY <1>1, <1>3, <1>4, <1>7, <1>8, FaultCounts, QuietKeepsInv

LEMMA RefusedKeepsInv ==
    ASSUME Inv, NEW i \in Instances, pc[i] = "claim", Refused(i),
           UNCHANGED <<plan, record, target, server, group, revoked, faults, contested>>
    PROVE  Inv'
<1> DEFINE j == [job[i] EXCEPT !.seen = "computed"]
<1>1. faults' \in 0..MaxFaults /\ contested' \in BOOLEAN /\ server = "gone" /\ claim' = claim
  BY DEF Inv, Types, Own, Shaped, Refused
<1>2. ASSUME claim[job[i].plan].done # Unreported, Goto(i, "lapsed"),
             job' = [job EXCEPT ![i].seen = "computed"]
      PROVE  Inv'
  <2>1. pc' = [pc EXCEPT ![i] = "lapsed"] /\ job' = [job EXCEPT ![i] = j]
    BY <1>2 DEF Goto, Inv, Types
  <2>2. j \in Jobs /\ j.plan = job[i].plan
    <3>1. job[i] \in Jobs
      BY Unmoved
    <3> QED
      BY <3>1 DEF Jobs
  <2> HIDE DEF j
  <2>3. pc'[i] = "lapsed" /\ job'[i] = j /\ group'[i] = "none"
    BY <2>1, Moved, Unmoved
  <2>4. Own(i)'
    BY <1>1, <1>2, <2>2, <2>3
    DEF Own, Shaped, Known, Covered, Undisturbed, Engaged, Working, Applying
  <2>5. "lapsed" \in Pcs /\ "lapsed" \notin Applying
    BY DEF Pcs, Serving, Applying
  <2> QED
    BY <1>1, <2>1, <2>2, <2>4, <2>5, QuietKeepsInv
<1>3. CASE End(i)
  BY <1>1, <1>3, SameClaim, EndKeepsInv
<1> QED
  BY <1>2, <1>3 DEF Refused

LEMMA GrantedKeepsInv ==
    ASSUME Inv, NEW i \in Instances, pc[i] = "claim", Granted(i),
           UNCHANGED <<plan, record, target, server, group, revoked, faults, contested>>
    PROVE  Inv'
<1> DEFINE p == job[i].plan
           g == IF Live(p) THEN claim[p].gen ELSE claim[p].gen + 1
           c == [owner |-> i, gen |-> g, age |-> 0, done |-> Unreported]
           s == IF job[i].seen = "running" THEN "abandon" ELSE "ready"
           j == [job[i] EXCEPT !.seen = "computed", !.gen = g]
<1>1. p \in Plans /\ job[i] \in Jobs /\ claim[p].gen \in Nat /\ job[i].done = 0 /\ group[i] = "none"
  BY Unmoved DEF Inv, Types, Claims, Own, Shaped
<1>2. g \in Nat /\ c \in Claims /\ c.gen = g /\ c.owner = i /\ c.done = Unreported /\ s \in Pcs
      /\ s \in {"abandon", "ready"}
  BY <1>1, DeliveryAssumption DEF Claims, Pcs, Serving
<1>3. /\ claim[p].done = Unreported /\ (Live(p) => claim[p].owner = i)
      /\ claim' = [claim EXCEPT ![p] = c]
      /\ pc' = [pc EXCEPT ![i] = s] /\ job' = [job EXCEPT ![i] = j]
  BY DEF Granted, Goto, Inv, Types
<1>4. j \in Jobs /\ j.plan = p /\ j.done = 0
  BY <1>1, <1>2 DEF Jobs
<1>5. g > 0
  BY <1>1, <1>3, DeliveryAssumption DEF Inv, Shared, ServerFirst
<1>6. s = "ready" => plan[p] = "computed"
  <2>1. job[i].seen \in {"computed", "running"}
    BY <1>1 DEF Jobs
  <2> QED
    BY <1>3, <2>1 DEF Inv, Own, Known
<1>7. s = "abandon" => plan[p] \notin {"absent", "computed"}
  BY DEF Inv, Own, Known
<1> HIDE DEF j, c, g, s
<1>8. /\ pc'[i] = s /\ job'[i] = j /\ group'[i] = "none" /\ claim'[p] = c
      /\ \A k \in Instances \ {i} : pc'[k] = pc[k] /\ job'[k] = job[k] /\ group'[k] = group[k]
      /\ \A q \in Plans \ {p} : claim'[q] = claim[q]
  BY <1>1, <1>3 DEF Inv, Types
<1>9. /\ \A q \in Plans : claim'[q].done = claim[q].done /\ (claim'[q].gen = 0 => claim[q].gen = 0)
      /\ server = "gone" /\ server' = server /\ plan' = plan /\ target' = target
      /\ record' = record /\ contested' = contested
  BY <1>2, <1>3, <1>5, <1>8 DEF Inv, Own, Shaped, Types
<1>10. Types'
  BY <1>1, <1>2, <1>3, <1>4 DEF Inv, Types
<1>11. ServerFirst' /\ Ordered' /\ CompletionDecides'
  BY <1>2, <1>5, <1>8, <1>9 DEF Inv, Shared, ServerFirst, Ordered, CompletionDecides
<1>12. OneHandler'
  BY <1>2, <1>8, <1>9 DEF Inv, Shared, OneHandler, Applying
<1>13. Reported' /\ SucceededIsInstalled'
  BY <1>9 DEF Inv, Shared, Reported, SucceededIsInstalled, Latest
<1>14. Own(i)'
  BY <1>2, <1>3, <1>4, <1>6, <1>7, <1>8, <1>9, DeliveryAssumption
  DEF Own, Shaped, Known, Covered, Undisturbed, Engaged, Working, Applying, Steps
<1>15. ASSUME NEW k \in Instances \ {i} PROVE Own(k)'
  <2>1. Own(k) /\ job[k].plan \in Plans /\ job[k].age \in 0..Lifetime
    BY Unmoved DEF Inv
  <2>2. Shaped(k)' /\ Known(k)' /\ Undisturbed(k)'
    BY <1>8, <1>9, <2>1 DEF Own, Shaped, Known, Undisturbed, Engaged
  <2>3. \A q \in Plans : claim[q].age \in 0..Lifetime
    BY DEF Inv, Types, Claims
  <2>4. Covered(k)'
    BY <1>1, <1>3, <1>8, <1>9, <2>1, <2>3, DeliveryAssumption DEF Own, Covered, Live
  <2> QED
    BY <2>2, <2>4 DEF Own
<1> QED
  BY <1>10, <1>11, <1>12, <1>13, <1>14, <1>15 DEF Inv, Shared

LEMMA ClaimKeepsInv == ASSUME Inv, NEW i \in Instances, Claim(i) PROVE Inv'
<1>1. /\ pc[i] = "claim"
      /\ UNCHANGED <<plan, record, target, server, group, revoked, contested>>
  BY DEF Claim
<1>2. ASSUME Replay(i), Fault \/ UNCHANGED faults PROVE Inv'
  BY <1>1, <1>2, ReplayKeepsInv
<1>3. CASE Refused(i) /\ UNCHANGED faults
  BY <1>1, <1>3, RefusedKeepsInv
<1>4. CASE Granted(i) /\ UNCHANGED faults
  BY <1>1, <1>4, GrantedKeepsInv
<1>5. CASE Fault /\ End(i) /\ UNCHANGED claim
  BY <1>1, <1>5, FaultCounts, SameClaim, EndKeepsInv
<1> QED
  BY <1>2, <1>3, <1>4, <1>5 DEF Claim

\* A handler that applies a stored completion starts.
LEMMA ApplyKeepsInv ==
    ASSUME Inv, NEW i \in Instances, NEW j \in Jobs, pc[i] \in Serving, Apply(i),
           job' = [job EXCEPT ![i] = j], j.plan = job[i].plan, claim[j.plan].done = j.done,
           UNCHANGED <<plan, record, server, claim, target, group, revoked, faults>>
    PROVE  Inv'
<1>1. /\ server = "gone" /\ group[i] = "none" /\ faults' \in 0..MaxFaults
      /\ pc' = [pc EXCEPT ![i] = "load"] /\ j.done \in 0..NumSteps
  BY Unmoved DEF Inv, Types, Own, Shaped, Serving, Applying, Apply, Goto, Jobs
<1>2. pc'[i] = "load" /\ job'[i] = j /\ group'[i] = "none"
  BY <1>1, Moved
<1>3. contested' \in BOOLEAN /\ (contested => contested')
  BY Zenon DEF Apply, Inv, Types
<1>4. ~contested' => \A k \in Instances \ {i} : pc[k] \in Applying => job[k].plan # j.plan
  BY DEF Apply
<1>5. Own(i)'
  BY <1>1, <1>2 DEF Own, Shaped, Known, Covered, Undisturbed, Engaged, Working, Applying
<1>6. "load" \in Pcs
  BY DEF Pcs, Serving, Applying
<1> QED
  BY <1>1, <1>3, <1>4, <1>5, <1>6, QuietKeepsInv

LEMMA LapsedKeepsInv == ASSUME Inv, NEW i \in Instances, Lapsed(i) PROVE Inv'
<1> DEFINE p == job[i].plan
           j == [job[i] EXCEPT !.done = claim[p].done]
<1>1. /\ pc[i] = "lapsed" /\ pc[i] \in Serving /\ job[i] \in Jobs
      /\ claim[p].done \in 0..NumSteps
      /\ UNCHANGED <<plan, record, server, claim, target, group, revoked, faults>>
  BY Unmoved DEF Lapsed, Serving, Inv, Own, Known, Types, Claims
<1>2. ASSUME Apply(i), job' = [job EXCEPT ![i].done = claim[p].done] PROVE Inv'
  <2>1. job' = [job EXCEPT ![i] = j]
    BY <1>2 DEF Inv, Types
  <2>2. j \in Jobs /\ j.plan = p /\ j.done = claim[p].done
    BY <1>1 DEF Jobs
  <2> HIDE DEF j
  <2> QED
    BY <1>1, <1>2, <2>1, <2>2, ApplyKeepsInv
<1>3. CASE End(i) /\ UNCHANGED contested
  BY <1>1, <1>3, FaultCounts, SameClaim, EndKeepsInv
<1> QED
  BY <1>2, <1>3 DEF Lapsed

\* An instance forgets its plan.
LEMMA IdleOwn ==
    ASSUME Inv, NEW i \in Instances, pc[i] \in Serving, End(i), group' = group
    PROVE  /\ Own(i)' /\ pc' \in [Instances -> Pcs] /\ job' \in [Instances -> Jobs]
           /\ pc'[i] = "idle"
           /\ \A k \in Instances \ {i} : pc'[k] = pc[k] /\ job'[k] = job[k]
<1>1. /\ pc' = [pc EXCEPT ![i] = "idle"] /\ job' = [job EXCEPT ![i] = NoJob]
      /\ group'[i] = "none"
  BY Unmoved DEF End, Goto, Serving, Applying
<1>2. pc' \in [Instances -> Pcs] /\ job' \in [Instances -> Jobs]
  BY <1>1, NoJobIsJob DEF Inv, Types, Pcs
<1>3. pc'[i] = "idle" /\ job'[i] = NoJob
  BY <1>1 DEF Inv, Types
<1>4. Own(i)'
  BY <1>1, <1>3, NoJobIsJob
  DEF Own, Shaped, Known, Covered, Undisturbed, Engaged, Working, Applying
<1> QED
  BY <1>1, <1>2, <1>3, <1>4 DEF Inv, Types

LEMMA AbandonKeepsInv == ASSUME Inv, NEW i \in Instances, Abandon(i) PROVE Inv'
<1> DEFINE p == job[i].plan
<1>1. /\ pc[i] = "abandon" /\ End(i) /\ pc[i] \in Serving /\ p \in Plans /\ server = "gone"
      /\ UNCHANGED <<record, server, claim, target, group, revoked, faults, contested>>
      /\ plan[p] \notin {"absent", "computed"} /\ claim[p].done = Unreported
  BY Unmoved DEF Abandon, Serving, Inv, Types, Own, Shaped, Known
<1>2. CASE plan[p] # "running"
  <2>1. plan' = plan
    BY <1>1, <1>2 DEF Abandon, Inv, Types
  <2> QED
    BY <1>1, <2>1, FaultCounts, SameClaim, EndKeepsInv
<1>3. CASE plan[p] = "running"
  <2>1. /\ plan'[p] = "failed" /\ plan' \in [Plans -> PlanStates]
        /\ \A q \in Plans \ {p} : plan'[q] = plan[q]
    BY <1>1, <1>3 DEF Abandon, Inv, Types, PlanStates, Terminal
  <2>2. Types'
    BY <1>1, <2>1, IdleOwn DEF Inv, Types
  <2>3. ServerFirst' /\ Ordered' /\ CompletionDecides'
    BY <1>1, <1>3, <2>1
    DEF Inv, Shared, ServerFirst, Ordered, CompletionDecides, Terminal, Types
  <2>4. OneHandler' /\ Reported' /\ SucceededIsInstalled'
    <3>1. OneHandler'
      BY <1>1, IdleOwn DEF Inv, Shared, OneHandler, Applying
    <3>2. Reported' /\ SucceededIsInstalled'
      BY <1>1, <2>1 DEF Inv, Shared, Reported, Latest, SucceededIsInstalled
    <3> QED
      BY <3>1, <3>2
  <2>5. ASSUME NEW k \in Instances \ {i} PROVE Own(k)'
    <3>1. /\ Own(k) /\ job[k].plan \in Plans /\ job[k].done \in 0..NumSteps
          /\ pc'[k] = pc[k] /\ job'[k] = job[k]
      BY <1>1, Unmoved, IdleOwn DEF Inv
    <3>2. Shaped(k)' /\ Covered(k)' /\ Known(k)'
      BY <1>1, <1>3, <2>1, <3>1 DEF Own, Shaped, Covered, Known, Engaged
    <3>3. Undisturbed(k)'
      BY <1>1, <1>3, <2>1, <3>1 DEF Own, Known, Undisturbed, Applying, Unreported
    <3> QED
      BY <3>2, <3>3 DEF Own
  <2> QED
    BY <1>1, <2>2, <2>3, <2>4, <2>5, IdleOwn DEF Inv, Shared
<1> QED
  BY <1>2, <1>3

-----------------------------------------------------------------------------
(* The agent's steps. *)

\* An executor that ends installs its step under the claim that covers it,
\* unless its agent was stalled.
LEMMA ExecutorEnds ==
    ASSUME Inv, NEW i \in Instances, group[i] # "none", Ends(i, {target, Install(i)})
    PROVE  /\ target' \in Records /\ contested' \in BOOLEAN /\ (contested => contested')
           /\ contested' \/ Placed
           /\ \A s \in Steps : s <= job[i].done => target'[s] = target[s]
           /\ target' # target => target'[job[i].done + 1] = job[i].plan
           /\ group' = [group EXCEPT ![i] = "none"]
<1> DEFINE p == job[i].plan
           x == job[i].done + 1
<1>1. /\ p \in Plans /\ x \in Steps /\ job[i].done \in 0..NumSteps /\ job[i].age \in 0..Lifetime
      /\ target \in Records /\ Own(i) /\ p \in 0..NumPlans
  BY Unmoved, DeliveryAssumption DEF Inv, Types, Own, Shaped, Steps, Plans
<1>2. target' = target \/ target' = [target EXCEPT ![x] = p]
  BY DEF Ends, Install
<1>3. target' \in Records
  BY <1>1, <1>2 DEF Records
<1>4. contested' \in BOOLEAN /\ (contested => contested')
  BY Zenon DEF Ends, Inv, Types
<1>5. ASSUME ~contested' PROVE Placed
  <2>1. job[i].age < Lifetime
    <3>1. ~Stalled(i)
      BY <1>5, Zenon DEF Ends
    <3> QED
      BY <1>1, <3>1, DeliveryAssumption DEF Stalled
  <2>2. claim[p].owner = i /\ claim[p].done = Unreported
    BY <1>1, <2>1 DEF Own, Covered
  <2>3. claim[p].gen > 0
    <3>1. claim[p].gen # 0
      BY <1>1, <2>2, DeliveryAssumption DEF Inv, Shared, ServerFirst
    <3> QED
      BY <1>1, <3>1 DEF Inv, Types, Claims
  <2>4. Engaged(i)
    BY <1>1, Unmoved DEF Own, Shaped, Engaged, Working, Groups
  <2>5. plan[p] = "computed"
    BY <1>1, <2>2, <2>4 DEF Own, Known
  <2> QED
    BY <1>1, <1>2, <2>2, <2>3, <2>5 DEF Placed
<1>6. \A s \in Steps : s <= job[i].done => target'[s] = target[s]
  <2>1. \A s \in Steps : s <= job[i].done => s # x
    BY <1>1 DEF Steps
  <2> QED
    BY <1>1, <1>2, <2>1 DEF Records
<1>7. target' # target => target'[x] = p
  BY <1>1, <1>2 DEF Records
<1> QED
  BY <1>3, <1>4, <1>5, <1>6, <1>7 DEF Ends

\* A heartbeat that is answered covers the executor anew.
LEMMA RenewKeepsInv ==
    ASSUME Inv, NEW i \in Instances, pc[i] \in {"ready", "executing"}, Renew(i),
           pc' = [pc EXCEPT ![i] = "executing"], group' = [group EXCEPT ![i] = "alive"],
           UNCHANGED <<plan, record, target, server, revoked, faults, contested>>
    PROVE  Inv'
<1> DEFINE p == job[i].plan
           j == [job[i] EXCEPT !.age = 0]
<1>1. /\ p \in Plans /\ job[i] \in Jobs /\ 0 \in 0..Lifetime /\ claim' = [claim EXCEPT ![p].age = 0]
      /\ claim[p].owner = i /\ claim[p].gen = job[i].gen /\ claim[p].done = Unreported
  BY Unmoved, DeliveryAssumption DEF Renew, Renewable
<1>2. Kept /\ claim'[p].age = 0
  BY <1>1, RenewedClaim
<1>3. job' = [job EXCEPT ![i] = j]
  BY DEF Renew, Inv, Types
<1>4. j \in Jobs /\ j.plan = p /\ j.done = job[i].done /\ j.gen = job[i].gen /\ j.age = 0
  BY <1>1 DEF Jobs
<1> HIDE DEF j
<1>5. pc'[i] = "executing" /\ job'[i] = j /\ group'[i] = "alive"
  BY <1>3 DEF Inv, Types
<1>6. /\ Own(i) /\ Engaged(i) /\ server = "gone" /\ job[i].done < NumSteps
      /\ "executing" \in Pcs /\ "executing" \notin Applying /\ "alive" \in Groups
      /\ target' \in Records /\ revoked' \in SUBSET Instances /\ faults' \in 0..MaxFaults
      /\ contested' \in BOOLEAN /\ contested' = contested
  BY DEF Inv, Types, Own, Shaped, Engaged, Working, Pcs, Applying, Serving, Groups
<1>7. Shaped(i)' /\ Known(i)' /\ Covered(i)'
  BY <1>1, <1>2, <1>4, <1>5, <1>6 DEF Own, Shaped, Known, Covered, Kept, Working, Applying
<1>8. Undisturbed(i)'
  BY <1>1, <1>2, <1>4, <1>5, <1>6 DEF Own, Undisturbed, Kept, Working
<1>9. Own(i)'
  BY <1>7, <1>8 DEF Own
<1>10. Placed /\ (contested => contested')
  BY DEF Placed
<1> QED
  BY <1>2, <1>3, <1>4, <1>6, <1>9, <1>10, MoveKeepsInv, Zenon

\* A heartbeat without an answer that counts leaves the claim, or renews it.
LEMMA UnansweredKeeps ==
    ASSUME Inv, NEW i \in Instances, Conflict(i) \/ RenewFails(i)
    PROVE  Kept /\ faults' \in 0..MaxFaults
<1>1. job[i].plan \in Plans
  BY Unmoved
<1>2. faults' \in 0..MaxFaults
  BY FaultCounts DEF Conflict, RenewFails
<1>3. UNCHANGED claim \/ claim' = [claim EXCEPT ![job[i].plan].age = 0]
  BY DEF Conflict, RenewFails
<1> QED
  BY <1>1, <1>2, <1>3, SameClaim, RenewedClaim

LEMMA StartStepKeepsInv == ASSUME Inv, NEW i \in Instances, StartStep(i) PROVE Inv'
<1>1. pc[i] = "ready" /\ UNCHANGED <<plan, record, target, server, revoked, contested>>
  BY DEF StartStep
<1>2. CASE Renew(i) /\ group' = [group EXCEPT ![i] = "alive"] /\ Goto(i, "executing")
           /\ UNCHANGED faults
  BY <1>1, <1>2, RenewKeepsInv DEF Goto
<1>3. CASE (Conflict(i) \/ RenewFails(i)) /\ End(i) /\ UNCHANGED group
  BY <1>1, <1>3, UnansweredKeeps, EndKeepsInv
<1> QED
  BY <1>2, <1>3 DEF StartStep

LEMMA HeartbeatKeepsInv == ASSUME Inv, NEW i \in Instances, Heartbeat(i) PROVE Inv'
<1>1. /\ pc[i] = "executing" /\ Renew(i)
      /\ UNCHANGED <<plan, record, target, server, pc, group, revoked, faults, contested>>
  BY DEF Heartbeat
<1>2. group[i] = "alive"
  BY <1>1 DEF Inv, Own, Shaped
<1>3. pc' = [pc EXCEPT ![i] = "executing"] /\ group' = [group EXCEPT ![i] = "alive"]
  BY <1>1, <1>2, Unmoved
<1> QED
  BY <1>1, <1>3, RenewKeepsInv

\* The agent goes on after its executor ended, with the steps it has seen done.
LEMMA StepOverKeepsInv ==
    ASSUME Inv, NEW i \in Instances, NEW j \in Jobs, NEW s \in {"ready", "validate"},
           pc[i] = "executing", Ends(i, {target, Install(i)}), Kept, faults' \in 0..MaxFaults,
           pc' = [pc EXCEPT ![i] = s], job' = [job EXCEPT ![i] = j],
           j.plan = job[i].plan, s = "ready" => j.done < NumSteps,
           j.done # job[i].done => j.done = job[i].done + 1 /\ target' = Install(i),
           UNCHANGED <<plan, record, server, revoked>>
    PROVE  Inv'
<1> DEFINE p == job[i].plan
<1>1. /\ Own(i) /\ Engaged(i) /\ server = "gone" /\ group[i] = "alive" /\ p \in Plans
      /\ job[i].done \in 0..NumSteps /\ job[i].done < NumSteps /\ revoked' \in SUBSET Instances
      /\ s \in Pcs /\ s \notin Applying /\ "none" \in Groups /\ target \in Records
  BY Unmoved DEF Inv, Types, Own, Shaped, Engaged, Working, Pcs, Serving, Applying, Groups
<1>2. /\ pc'[i] = s /\ job'[i] = j /\ group'[i] = "none"
  BY DEF Ends, Inv, Types
<1>3. Shaped(i)' /\ Known(i)' /\ Covered(i)'
  BY <1>1, <1>2 DEF Own, Shaped, Known, Covered, Kept, Engaged, Working, Applying
<1>4. Undisturbed(i)'
  <2> SUFFICES ASSUME ~contested', claim'[p].done = Unreported, NEW x \in Steps, x <= j.done
               PROVE  target'[x] = p
    BY <1>1, <1>2 DEF Undisturbed, Working
  <2>1. CASE x <= job[i].done
    <3>1. ~contested /\ claim[p].done = Unreported
      BY <1>1, ExecutorEnds DEF Kept
    <3>2. target[x] = p
      BY <1>1, <2>1, <3>1 DEF Own, Undisturbed, Working
    <3> QED
      BY <1>1, <2>1, <3>2, ExecutorEnds
  <2>2. CASE ~(x <= job[i].done)
    <3>1. x = job[i].done + 1 /\ target' = Install(i)
      BY <1>1, <2>2 DEF Steps
    <3> QED
      BY <1>1, <3>1 DEF Install, Records
  <2> QED
    BY <2>1, <2>2
<1>5. Own(i)'
  BY <1>3, <1>4 DEF Own
<1> QED
  BY <1>1, <1>5, ExecutorEnds, MoveKeepsInv

LEMMA KilledKeepsInv == ASSUME Inv, NEW i \in Instances, Killed(i) PROVE Inv'
<1> DEFINE j == [job[i] EXCEPT !.age = 0]
<1>1. /\ pc[i] = "executing" /\ group[i] # "none" /\ Ends(i, {target, Install(i)})
      /\ UNCHANGED <<plan, record, server, revoked>> /\ revoked' \in SUBSET Instances
      /\ Kept /\ faults' \in 0..MaxFaults
  BY UnansweredKeeps DEF Killed, Inv, Types, Own, Shaped
<1>2. CASE Goto(i, "validate") /\ job' = [job EXCEPT ![i].age = 0]
  <2>1. job[i] \in Jobs /\ 0 \in 0..Lifetime
    BY Unmoved, DeliveryAssumption
  <2>2. j \in Jobs /\ j.plan = job[i].plan /\ j.done = job[i].done
    BY <2>1 DEF Jobs
  <2>3. job' = [job EXCEPT ![i] = j] /\ pc' = [pc EXCEPT ![i] = "validate"]
    BY <1>2 DEF Inv, Types, Goto
  <2> HIDE DEF j
  <2>4. "validate" \in {"ready", "validate"} /\ "validate" # "ready"
    OBVIOUS
  <2> QED
    BY <1>1, <2>2, <2>3, <2>4, StepOverKeepsInv
<1>3. CASE End(i)
  BY <1>1, <1>3, ExecutorEnds, RestKeepsInv DEF End, Goto
<1> QED
  BY <1>2, <1>3 DEF Killed

LEMMA StepEndsKeepsInv == ASSUME Inv, NEW i \in Instances, StepEnds(i) PROVE Inv'
<1> DEFINE d == job[i].done + 1
           k == [job[i] EXCEPT !.done = d]
           j == [k EXCEPT !.age = 0]
           h == [job[i] EXCEPT !.age = 0]
<1>1. /\ pc[i] = "executing" /\ job[i] \in Jobs /\ 0 \in 0..Lifetime
      /\ UNCHANGED <<plan, record, server, revoked>> /\ Kept /\ faults' \in 0..MaxFaults
  BY Unmoved, DeliveryAssumption, SameClaim, FaultCounts DEF StepEnds
<1>2. d \in 0..NumSteps
  <2>1. job[i].done < NumSteps /\ job[i].done \in 0..NumSteps
    BY <1>1, Unmoved DEF Inv, Own, Shaped
  <2> QED
    BY <2>1, DeliveryAssumption
<1>3. ASSUME Ends(i, {Install(i)}), job' = [job EXCEPT ![i].done = @ + 1, ![i].age = 0],
             Goto(i, IF job'[i].done = NumSteps THEN "validate" ELSE "ready")
      PROVE  Inv'
  <2>1. job' = [job EXCEPT ![i] = j]
    BY <1>3 DEF Inv, Types
  <2>2. k \in Jobs /\ k.plan = job[i].plan /\ k.done = d
    BY <1>1, <1>2 DEF Jobs
  <2> HIDE DEF k
  <2>3. j \in Jobs /\ j.plan = job[i].plan /\ j.done = d
    BY <1>1, <2>2 DEF Jobs
  <2> HIDE DEF j
  <2>4. job'[i] = j
    BY <2>1 DEF Inv, Types
  <2>5. pc' = [pc EXCEPT ![i] = IF d = NumSteps THEN "validate" ELSE "ready"]
    BY <1>3, <2>3, <2>4 DEF Goto
  <2>6. Ends(i, {target, Install(i)}) /\ target' = Install(i)
    BY <1>3 DEF Ends
  <2>7. d # NumSteps => d < NumSteps
    BY <1>2, DeliveryAssumption
  <2>8. CASE d = NumSteps
    BY <1>1, <2>1, <2>3, <2>5, <2>6, <2>8, StepOverKeepsInv
  <2>9. CASE d # NumSteps
    BY <1>1, <2>1, <2>3, <2>5, <2>6, <2>7, <2>9, StepOverKeepsInv
  <2> QED
    BY <2>8, <2>9
<1>4. ASSUME Ends(i, {target, Install(i)}), job' = [job EXCEPT ![i].age = 0], Goto(i, "validate")
      PROVE  Inv'
  <2>1. job' = [job EXCEPT ![i] = h] /\ pc' = [pc EXCEPT ![i] = "validate"]
    BY <1>4 DEF Inv, Types, Goto
  <2>2. h \in Jobs /\ h.plan = job[i].plan /\ h.done = job[i].done
    BY <1>1 DEF Jobs
  <2> HIDE DEF h
  <2>3. "validate" \in {"ready", "validate"} /\ "validate" # "ready"
    OBVIOUS
  <2> QED
    BY <1>1, <1>4, <2>1, <2>2, <2>3, StepOverKeepsInv
<1> QED
  BY <1>3, <1>4 DEF StepEnds

-----------------------------------------------------------------------------
(* The completion. *)

\* A handler that only reads keeps its job and goes on.
LEMMA OnKeepsInv ==
    ASSUME Inv, NEW i \in Instances, NEW s \in Pcs, pc[i] \in Serving,
           pc' = [pc EXCEPT ![i] = s], Own(i)', UNCHANGED job, s \in Applying => pc[i] \in Applying,
           UNCHANGED <<plan, claim, record, target, server, group, revoked, faults, contested>>
    PROVE  Inv'
<1>1. job' = [job EXCEPT ![i] = job[i]] /\ job[i] \in Jobs
  BY Unmoved
<1>2. faults' \in 0..MaxFaults /\ contested' \in BOOLEAN /\ contested' = contested
  BY DEF Inv, Types
<1>3. ~contested' /\ s \in Applying =>
         \A k \in Instances \ {i} : pc[k] \in Applying => job[k].plan # job[i].plan
  BY <1>2 DEF Inv, Shared, OneHandler
<1>4. contested => contested'
  BY <1>2
<1> QED
  BY <1>1, <1>2, <1>3, <1>4, QuietKeepsInv

LEMMA ValidateKeepsInv == ASSUME Inv, NEW i \in Instances, Validate(i) PROVE Inv'
<1>1. /\ pc[i] = "validate" /\ pc[i] \in Serving /\ pc[i] \notin {"executing", "dead"}
      /\ "store" \in Pcs /\ "store" \notin Applying
      /\ UNCHANGED <<plan, claim, record, target, server, group, revoked, faults, contested>>
  BY DEF Validate, Serving, Pcs, Applying
<1>2. CASE Goto(i, "store") /\ UNCHANGED job
  <2>1. pc' = [pc EXCEPT ![i] = "store"] /\ pc'[i] = "store" /\ job'[i] = job[i]
        /\ group'[i] = group[i]
    BY <1>1, <1>2 DEF Goto, Inv, Types
  <2>2. Own(i)'
    BY <1>1, <2>1 DEF Inv, Own, Shaped, Known, Covered, Undisturbed, Engaged, Working, Applying
  <2> QED
    BY <1>1, <1>2, <2>1, <2>2, OnKeepsInv
<1>3. CASE End(i)
  BY <1>1, <1>3, FaultCounts, SameClaim, EndKeepsInv
<1> QED
  BY <1>2, <1>3 DEF Validate, Unless

LEMMA LoadKeepsInv == ASSUME Inv, NEW i \in Instances, Load(i) PROVE Inv'
<1> DEFINE s == IF plan[job[i].plan] = "computed" THEN "putRunning" ELSE "read"
<1>1. /\ pc[i] = "load" /\ pc[i] \in Serving /\ pc[i] \in Applying
      /\ pc[i] \notin {"executing", "dead"}
      /\ s \in Pcs /\ s \in {"putRunning", "read"}
      /\ UNCHANGED <<plan, claim, record, target, server, group, revoked, faults, contested>>
  BY DEF Load, Serving, Pcs, Applying
<1>2. CASE Pending(job[i].plan) /\ Goto(i, s) /\ UNCHANGED job
  <2>1. pc' = [pc EXCEPT ![i] = s] /\ pc'[i] = s /\ job'[i] = job[i] /\ group'[i] = group[i]
    BY <1>1, <1>2 DEF Goto, Inv, Types
  <2>2. /\ s = "putRunning" => plan[job[i].plan] = "computed"
        /\ s = "read" => plan[job[i].plan] = "running"
    BY <1>2 DEF Pending
  <2> HIDE DEF s
  <2>3. Own(i)'
    BY <1>1, <2>1, <2>2
    DEF Inv, Own, Shaped, Known, Covered, Undisturbed, Engaged, Working, Applying
  <2> QED
    BY <1>1, <1>2, <2>1, <2>3, OnKeepsInv
<1>3. CASE End(i)
  BY <1>1, <1>3, FaultCounts, SameClaim, EndKeepsInv
<1> QED
  BY <1>2, <1>3 DEF Load, Unless

LEMMA ReadKeepsInv == ASSUME Inv, NEW i \in Instances, Read(i) PROVE Inv'
<1> DEFINE j == [job[i] EXCEPT !.snap = record]
<1>1. /\ pc[i] = "read" /\ pc[i] \in Applying /\ pc[i] \notin {"executing", "dead"}
      /\ "put" \in Pcs /\ job[i] \in Jobs /\ record \in Records
      /\ UNCHANGED <<plan, claim, record, target, server, group, revoked, faults, contested>>
      /\ contested' \in BOOLEAN /\ faults' \in 0..MaxFaults
  BY Unmoved DEF Read, Serving, Pcs, Applying, Inv, Types
<1>2. CASE job' = [job EXCEPT ![i].snap = record] /\ Goto(i, "put")
  <2>1. pc' = [pc EXCEPT ![i] = "put"] /\ job' = [job EXCEPT ![i] = j]
    BY <1>2 DEF Goto, Inv, Types
  <2>2. j \in Jobs /\ j.plan = job[i].plan /\ j.done = job[i].done
    BY <1>1 DEF Jobs
  <2> HIDE DEF j
  <2>3. pc'[i] = "put" /\ job'[i] = j /\ group'[i] = "none"
    BY <1>1, <2>1, Moved, Unmoved
  <2>4. Own(i)'
    BY <1>1, <2>2, <2>3
    DEF Inv, Own, Shaped, Known, Covered, Undisturbed, Engaged, Working, Applying
  <2>5. ~contested' => \A k \in Instances \ {i} : pc[k] \in Applying => job[k].plan # j.plan
    BY <1>1, <2>2 DEF Inv, Shared, OneHandler
  <2>6. contested => contested'
    BY <1>1
  <2> QED
    BY <1>1, <2>1, <2>2, <2>4, <2>5, <2>6, QuietKeepsInv
<1>3. CASE End(i)
  BY <1>1, <1>3, SameClaim, EndKeepsInv
<1> QED
  BY <1>2, <1>3 DEF Read

\* The first completion of a plan is stored while its claim is live.
LEMMA FirstKeepsInv ==
    ASSUME Inv, NEW i \in Instances, pc[i] = "store", Apply(i),
           claim[job[i].plan].owner = i, claim[job[i].plan].done = Unreported,
           claim' = [claim EXCEPT ![job[i].plan].done = job[i].done],
           UNCHANGED <<plan, record, server, target, group, revoked, faults, job>>
    PROVE  Inv'
<1> DEFINE p == job[i].plan
           d == job[i].done
           c == [claim[p] EXCEPT !.done = d]
<1>1. /\ p \in Plans /\ d \in 0..NumSteps /\ d # Unreported /\ server = "gone"
      /\ group[i] = "none" /\ claim[p] \in Claims /\ pc' = [pc EXCEPT ![i] = "load"]
      /\ Own(i) /\ plan[p] = "computed"
  BY Unmoved
  DEF Inv, Types, Own, Shaped, Known, Engaged, Working, Apply, Goto, Unreported
<1>2. claim' = [claim EXCEPT ![p] = c]
  BY DEF Inv, Types
<1>3. c \in Claims /\ c.owner = i /\ c.gen = claim[p].gen /\ c.age = claim[p].age /\ c.done = d
  BY <1>1 DEF Claims
<1> HIDE DEF c
<1>4. /\ claim' \in [Plans -> Claims] /\ claim'[p] = c
      /\ \A q \in Plans \ {p} : claim'[q] = claim[q]
      /\ pc'[i] = "load" /\ pc' \in [Instances -> Pcs]
      /\ \A k \in Instances \ {i} : pc'[k] = pc[k]
  BY <1>1, <1>2, <1>3 DEF Inv, Types, Pcs, Serving, Applying
<1>5. contested' \in BOOLEAN /\ (contested => contested')
  BY Zenon DEF Apply, Inv, Types
<1>6. Types'
  BY <1>4, <1>5 DEF Inv, Types
<1>7. ServerFirst' /\ Ordered' /\ CompletionDecides'
  <2>1. claim[p].gen # 0
    BY <1>1, DeliveryAssumption DEF Inv, Shared, ServerFirst
  <2> QED
    BY <1>1, <1>3, <1>4, <1>5, <2>1 DEF Inv, Shared, ServerFirst, Ordered, CompletionDecides
<1>8. OneHandler'
  BY <1>4, <1>5 DEF Inv, Shared, OneHandler, Apply
<1>9. Reported' /\ SucceededIsInstalled'
  <2>1. \A q \in Plans : claim'[q].gen = claim[q].gen
    BY <1>3, <1>4
  <2>2. ~contested => \A s \in Steps : s <= d => target[s] = p
    BY <1>1 DEF Own, Undisturbed, Working
  <2> QED
    BY <1>3, <1>4, <1>5, <2>1, <2>2 DEF Inv, Shared, Reported, SucceededIsInstalled, Latest
<1>10. Own(i)'
  BY <1>1, <1>3, <1>4 DEF Own, Shaped, Known, Covered, Undisturbed, Engaged, Working, Applying
<1>11. ASSUME NEW k \in Instances \ {i} PROVE Own(k)'
  <2>1. Own(k) /\ job[k].plan \in Plans /\ job[k].done \in 0..NumSteps
    BY Unmoved DEF Inv
  <2>2. job[k].done # Unreported
    BY <2>1 DEF Unreported
  <2>3. Shaped(k)' /\ Known(k)'
    BY <1>1, <1>3, <1>4, <2>1, <2>2 DEF Own, Shaped, Known, Engaged
  <2>4. Covered(k)'
    BY <1>1, <1>3, <1>4, <2>1 DEF Own, Covered
  <2>5. Undisturbed(k)'
    BY <1>1, <1>3, <1>4, <1>5, <2>1 DEF Own, Undisturbed
  <2> QED
    BY <2>3, <2>4, <2>5 DEF Own
<1> QED
  BY <1>6, <1>7, <1>8, <1>9, <1>10, <1>11 DEF Inv, Shared

LEMMA StoreKeepsInv == ASSUME Inv, NEW i \in Instances, Store(i) PROVE Inv'
<1> DEFINE p == job[i].plan
<1>1. /\ pc[i] = "store" /\ pc[i] \in Serving /\ pc[i] \notin {"executing", "dead"}
      /\ UNCHANGED <<plan, record, target, server, group, revoked, faults>>
  BY DEF Store, Serving
<1>2. CASE /\ claim[p].owner = i /\ claim[p].done = Unreported
           /\ claim' = [claim EXCEPT ![p].done = job[i].done] /\ Apply(i) /\ UNCHANGED job
  BY <1>1, <1>2, FirstKeepsInv
<1>3. CASE claim[p].done = job[i].done /\ Apply(i) /\ UNCHANGED <<claim, job>>
  <2>1. job' = [job EXCEPT ![i] = job[i]] /\ job[i] \in Jobs
    BY <1>3, Unmoved
  <2> QED
    BY <1>1, <1>3, <2>1, ApplyKeepsInv
<1>4. CASE End(i) /\ UNCHANGED <<claim, contested>>
  BY <1>1, <1>4, FaultCounts, SameClaim, EndKeepsInv
<1> QED
  BY <1>2, <1>3, <1>4 DEF Store

\* What an applying handler knows of its plan.
LEMMA ApplyingKnows ==
    ASSUME Inv, NEW i \in Instances, pc[i] \in Applying
    PROVE  /\ job[i].plan \in Plans /\ claim[job[i].plan].done = job[i].done
           /\ job[i].done \in 0..NumSteps /\ claim[job[i].plan].done # Unreported
           /\ server = "gone" /\ group[i] = "none" /\ plan[job[i].plan] # "absent"
           /\ claim[job[i].plan].gen # 0
           /\ ~contested => \A k \in Instances \ {i} :
                                pc[k] \in Applying => job[k].plan # job[i].plan
<1>1. /\ job[i].plan \in Plans /\ claim[job[i].plan].done = job[i].done
      /\ job[i].done \in 0..NumSteps /\ server = "gone" /\ group[i] = "none"
  BY Unmoved DEF Inv, Types, Own, Shaped, Known, Applying
<1>2. claim[job[i].plan].done # Unreported
  BY <1>1 DEF Unreported
<1>3. plan[job[i].plan] # "absent" /\ claim[job[i].plan].gen # 0
  BY <1>1, <1>2 DEF Inv, Shared, CompletionDecides, ServerFirst
<1> QED
  BY <1>1, <1>2, <1>3 DEF Inv, Shared, OneHandler

\* The plan of a stored completion goes on; the other instances see nothing else.
LEMMA OthersKeep ==
    ASSUME Inv, NEW i \in Instances, pc[i] \in Applying, NEW v \in PlanStates \ {"absent", "computed"},
           plan' = [plan EXCEPT ![job[i].plan] = v],
           \A k \in Instances \ {i} : pc'[k] = pc[k] /\ job'[k] = job[k],
           UNCHANGED <<claim, target, server, group, contested>>
    PROVE  \A k \in Instances \ {i} : Own(k)'
<1> DEFINE p == job[i].plan
<1>1. plan'[p] = v /\ \A q \in Plans \ {p} : plan'[q] = plan[q]
  BY ApplyingKnows DEF Inv, Types
<1> SUFFICES ASSUME NEW k \in Instances \ {i} PROVE Own(k)'
  OBVIOUS
<1>2. Own(k) /\ job[k].plan \in Plans
  BY Unmoved DEF Inv
<1>3. Shaped(k)' /\ Covered(k)'
  BY <1>2 DEF Own, Shaped, Covered
<1>4. Known(k)'
  BY <1>1, <1>2, ApplyingKnows DEF Own, Known, Engaged
<1>5. Undisturbed(k)'
  BY <1>1, <1>2, ApplyingKnows DEF Own, Undisturbed, Applying
<1> QED
  BY <1>3, <1>4, <1>5 DEF Own

LEMMA PutRunningKeepsInv == ASSUME Inv, NEW i \in Instances, PutRunning(i) PROVE Inv'
<1> DEFINE p == job[i].plan
<1>1. /\ pc[i] = "putRunning" /\ pc[i] \in Applying /\ p \in Plans
      /\ plan' = [plan EXCEPT ![p] = "running"] /\ pc' = [pc EXCEPT ![i] = "read"]
      /\ UNCHANGED <<claim, record, target, server, job, group, revoked, faults, contested>>
      /\ ~contested => plan[p] = "computed"
      /\ "running" \in PlanStates \ {"absent", "computed"}
  BY Unmoved DEF PutRunning, Goto, Applying, Inv, Own, Undisturbed, PlanStates, Terminal
<1>2. /\ plan'[p] = "running" /\ \A q \in Plans \ {p} : plan'[q] = plan[q]
      /\ pc'[i] = "read" /\ \A k \in Instances \ {i} : pc'[k] = pc[k] /\ job'[k] = job[k]
  BY <1>1 DEF Inv, Types
<1>3. Types'
  BY <1>1 DEF Inv, Types, Pcs, Serving, Applying
<1>4. ServerFirst' /\ CompletionDecides'
  BY <1>1, <1>2, ApplyingKnows DEF Inv, Shared, ServerFirst, CompletionDecides
<1>5. Ordered'
  BY <1>1, <1>2, ApplyingKnows DEF Inv, Shared, Ordered, Terminal
<1>6. OneHandler'
  BY <1>1, <1>2, ApplyingKnows DEF Inv, Shared, OneHandler
<1>7. Reported' /\ SucceededIsInstalled'
  BY <1>1, <1>2 DEF Inv, Shared, Reported, SucceededIsInstalled, Latest
<1>8. Own(i)'
  BY <1>1, <1>2, ApplyingKnows
  DEF Own, Shaped, Known, Covered, Undisturbed, Engaged, Working, Applying
<1>9. \A k \in Instances \ {i} : Own(k)'
  BY <1>1, <1>2, OthersKeep
<1> QED
  BY <1>3, <1>4, <1>5, <1>6, <1>7, <1>8, <1>9 DEF Inv, Shared

LEMMA PutKeepsInv == ASSUME Inv, NEW i \in Instances, Put(i) PROVE Inv'
<1> DEFINE p == job[i].plan
           d == job[i].done
           v == Verdict(i)
<1>1. /\ pc[i] = "put" /\ pc[i] \in Applying /\ pc[i] \in Serving /\ p \in Plans /\ End(i)
      /\ plan' = [plan EXCEPT ![p] = v]
      /\ record' = [s \in Steps |-> IF s <= d THEN p ELSE job[i].snap[s]]
      /\ UNCHANGED <<claim, target, server, group, revoked, faults, contested>>
      /\ ~contested => plan[p] = "running"
      /\ v \in PlanStates \ {"absent", "computed"} /\ v \in Terminal
      /\ v = IF d = NumSteps THEN "succeeded" ELSE "failed"
  BY Unmoved
  DEF Put, Applying, Serving, Inv, Own, Undisturbed, PlanStates, Terminal, Verdict
<1>2. record' \in Records
  <2>1. job[i].snap \in [Steps -> 0..NumPlans] /\ p \in 0..NumPlans
    BY <1>1, Unmoved DEF Jobs, Records, Plans
  <2> QED
    BY <1>1, <2>1 DEF Records
<1> HIDE DEF v
<1>3. /\ plan'[p] = v /\ \A q \in Plans \ {p} : plan'[q] = plan[q]
      /\ plan' \in [Plans -> PlanStates]
  BY <1>1 DEF Inv, Types
<1>4. /\ Own(i)' /\ pc' \in [Instances -> Pcs] /\ job' \in [Instances -> Jobs] /\ pc'[i] = "idle"
      /\ \A k \in Instances \ {i} : pc'[k] = pc[k] /\ job'[k] = job[k]
  BY <1>1, IdleOwn
<1>5. Types'
  BY <1>1, <1>2, <1>3, <1>4 DEF Inv, Types
<1>6. ServerFirst' /\ CompletionDecides'
  BY <1>1, <1>3, ApplyingKnows DEF Inv, Shared, ServerFirst, CompletionDecides
<1>7. Ordered'
  BY <1>1, <1>3, ApplyingKnows DEF Inv, Shared, Ordered, Terminal
<1>8. OneHandler' /\ Reported'
  BY <1>1, <1>3, <1>4 DEF Inv, Shared, OneHandler, Reported, Latest, Applying
<1>9. SucceededIsInstalled'
  <2> SUFFICES ASSUME NEW q \in Plans, plan'[q] = "succeeded", Latest(q), ~contested
               PROVE  target = [s \in Steps |-> q] /\ record' = target
    BY <1>1 DEF SucceededIsInstalled, Latest
  <2>1. q = p
    <3>1. q \in Nat /\ p \in Nat
      BY <1>1, DeliveryAssumption DEF Plans
    <3>2. CASE q < p
      BY <1>1, <3>1, <3>2, ApplyingKnows DEF Latest
    <3>3. CASE q > p
      <4>1. plan[q] = "succeeded"
        BY <1>3, <3>1, <3>3
      <4> QED
        BY <1>1, <3>1, <3>3, <4>1 DEF Inv, Shared, Ordered, Terminal
    <3> QED
      BY <3>1, <3>2, <3>3
  <2>2. d = NumSteps
    BY <1>1, <1>3, <2>1
  <2>3. \A s \in Steps : s <= d
    BY <2>2, DeliveryAssumption DEF Steps
  <2>4. \A s \in Steps : target[s] = p
    BY <1>1, <2>1, <2>3, ApplyingKnows DEF Inv, Shared, Reported
  <2>5. record' = [s \in Steps |-> p]
    BY <1>1, <2>3
  <2> QED
    BY <2>1, <2>4, <2>5 DEF Inv, Types, Records
<1>10. \A k \in Instances \ {i} : Own(k)'
  BY <1>1, <1>4, OthersKeep
<1> QED
  BY <1>4, <1>5, <1>6, <1>7, <1>8, <1>9, <1>10 DEF Inv, Shared

-----------------------------------------------------------------------------
(* What goes wrong, and time. *)

LEMMA TimeoutKeepsInv == ASSUME Inv, NEW i \in Instances, Timeout(i) PROVE Inv'
<1>1. /\ pc[i] \notin {"executing", "dead"} /\ End(i)
      /\ UNCHANGED <<plan, claim, record, target, server, group, revoked, contested>>
      /\ Fault
  BY DEF Timeout, Serving, Applying
<1> QED
  BY <1>1, FaultCounts, SameClaim, EndKeepsInv

LEMMA StallKeepsInv == ASSUME Inv, NEW i \in Instances, Stall(i) PROVE Inv'
<1> DEFINE j == [job[i] EXCEPT !.stall = TRUE]
<1>1. /\ job' = [job EXCEPT ![i] = j] /\ job[i] \in Jobs /\ pc' = [pc EXCEPT ![i] = pc[i]]
      /\ UNCHANGED <<plan, claim, record, target, server, pc, group, revoked, contested>>
      /\ contested' \in BOOLEAN /\ faults' \in 0..MaxFaults /\ pc[i] \in Pcs
  BY Unmoved, FaultCounts DEF Stall, Inv, Types
<1>2. /\ j \in Jobs /\ j.plan = job[i].plan /\ j.done = job[i].done /\ j.seen = job[i].seen
      /\ j.gen = job[i].gen /\ j.age = job[i].age
  BY <1>1 DEF Jobs
<1> HIDE DEF j
<1>3. job'[i] = j /\ pc'[i] = pc[i] /\ group'[i] = group[i] /\ Own(i)
  BY <1>1 DEF Inv, Types
<1>4. Own(i)'
  BY <1>1, <1>2, <1>3 DEF Own, Shaped, Known, Covered, Undisturbed, Engaged
<1>5. ~contested' /\ pc[i] \in Applying =>
         \A k \in Instances \ {i} : pc[k] \in Applying => job[k].plan # j.plan
  BY <1>1, <1>2, ApplyingKnows
<1>6. contested => contested'
  BY <1>1
<1> QED
  BY <1>1, <1>2, <1>4, <1>5, <1>6, QuietKeepsInv

LEMMA CrashKeepsInv == ASSUME Inv, NEW i \in Instances, Crash(i) PROVE Inv'
<1>1. /\ pc[i] # "dead" /\ pc' = [pc EXCEPT ![i] = "dead"]
      /\ UNCHANGED <<plan, claim, record, target, server, revoked, contested>>
      /\ contested' \in BOOLEAN /\ faults' \in 0..MaxFaults /\ Kept /\ target' \in Records
      /\ revoked' \in SUBSET Instances
  BY FaultCounts, SameClaim DEF Crash, Goto, Inv, Types
<1>2. Placed /\ (contested => contested')
  BY <1>1 DEF Placed
<1>3. CASE group[i] = "alive"
  <2>1. /\ group' = [group EXCEPT ![i] = "orphan"] /\ job' = [job EXCEPT ![i] = job[i]]
        /\ job[i] \in Jobs /\ "dead" \in Pcs /\ "dead" \notin Applying /\ "orphan" \in Groups
    BY <1>3, Unmoved DEF Crash, Pcs, Applying, Groups
  <2>2. /\ group'[i] = "orphan" /\ job'[i] = job[i] /\ pc'[i] = "dead" /\ Own(i) /\ Engaged(i)
        /\ server = "gone"
    BY <1>1, <1>3, <2>1 DEF Inv, Types, Own, Shaped, Engaged, Working
  <2>3. Own(i)'
    BY <1>1, <1>3, <2>2
    DEF Own, Shaped, Known, Covered, Undisturbed, Working, Applying
  <2> QED
    BY <1>1, <1>2, <2>1, <2>3, MoveKeepsInv, Zenon
<1>4. CASE group[i] # "alive"
  <2>1. group[i] = "none"
    BY <1>1, <1>4 DEF Inv, Types, Groups, Own, Shaped
  <2>2. group' = [group EXCEPT ![i] = "none"] /\ job' = [job EXCEPT ![i] = NoJob]
    BY <1>4, <2>1, Unmoved DEF Crash
  <2> QED
    BY <1>1, <1>2, <2>2, RestKeepsInv
<1> QED
  BY <1>3, <1>4

LEMMA GuardKillsKeepsInv == ASSUME Inv, NEW i \in Instances, GuardKills(i) PROVE Inv'
<1>1. /\ group[i] = "orphan" /\ Ends(i, {target, Install(i)}) /\ job' = [job EXCEPT ![i] = NoJob]
      /\ UNCHANGED <<plan, claim, record, server, revoked, faults>>
      /\ Kept /\ faults' \in 0..MaxFaults /\ revoked' \in SUBSET Instances
  BY SameClaim DEF GuardKills, Inv, Types
<1>2. pc' = [pc EXCEPT ![i] = "dead"]
  BY <1>1, Unmoved DEF GuardKills, Inv, Own, Shaped
<1> QED
  BY <1>1, <1>2, ExecutorEnds, RestKeepsInv

\* A step that touches neither the plans nor the claims nor any instance.
LEMMA AsideKeepsInv ==
    ASSUME Inv, UNCHANGED <<plan, claim, record, target, pc, job, group, contested>>,
           server' = server \/ server' = "gone", revoked' \in SUBSET Instances, faults' \in 0..MaxFaults
    PROVE  Inv'
<1>1. Types'
  BY DEF Inv, Types
<1>2. Shared'
  BY DEF Inv, Shared, ServerFirst, Ordered, CompletionDecides, OneHandler, Reported, Latest,
         SucceededIsInstalled
<1>3. ASSUME NEW k \in Instances PROVE Own(k)'
  BY DEF Inv, Own, Shaped, Known, Covered, Undisturbed, Engaged
<1> QED
  BY <1>1, <1>2, <1>3 DEF Inv

LEMMA TickKeepsInv == ASSUME Inv, Tick PROVE Inv'
<1> DEFINE c(p) == [claim[p] EXCEPT !.age = IF claim[p].age < Lifetime THEN claim[p].age + 1
                                            ELSE claim[p].age]
           j(i) == [job[i] EXCEPT !.age = job[i].age + 1]
           Busy(i) == pc[i] \in Serving \cup {"ready", "executing"} /\ job[i].age < Lifetime
<1>1. /\ UNCHANGED <<plan, record, target, server, pc, group, revoked, faults, contested>>
      /\ \A p \in Plans : claim'[p] = c(p)
      /\ \A i \in Instances : job'[i] = IF Busy(i) THEN j(i) ELSE job[i]
      /\ claim' = [p \in Plans |-> c(p)]
      /\ job' = [i \in Instances |-> IF Busy(i) THEN j(i) ELSE job[i]]
      /\ \A i \in Instances : group[i] # "orphan"
  BY DEF Tick
<1>2. ASSUME NEW p \in Plans
      PROVE  /\ c(p) \in Claims /\ c(p).owner = claim[p].owner /\ c(p).gen = claim[p].gen
             /\ c(p).done = claim[p].done /\ claim[p].age \in 0..Lifetime
             /\ c(p).age = IF claim[p].age < Lifetime THEN claim[p].age + 1 ELSE claim[p].age
  <2>1. claim[p] \in Claims
    BY DEF Inv, Types
  <2> QED
    BY <2>1, DeliveryAssumption DEF Claims
<1>3. ASSUME NEW i \in Instances, job[i].age < Lifetime
      PROVE  /\ j(i) \in Jobs /\ j(i).plan = job[i].plan /\ j(i).seen = job[i].seen
             /\ j(i).done = job[i].done /\ j(i).gen = job[i].gen /\ j(i).age = job[i].age + 1
  <2>1. job[i] \in Jobs
    BY Unmoved
  <2>2. job[i].age + 1 \in 0..Lifetime
    BY <1>3, <2>1, DeliveryAssumption DEF Jobs
  <2> QED
    BY <2>1, <2>2 DEF Jobs
<1> HIDE DEF c, j
<1>4. /\ \A p \in Plans : /\ claim'[p].owner = claim[p].owner /\ claim'[p].gen = claim[p].gen
                          /\ claim'[p].done = claim[p].done
      /\ claim' \in [Plans -> Claims]
  BY <1>1, <1>2
<1>5. /\ \A i \in Instances : /\ job'[i] \in Jobs /\ job'[i].plan = job[i].plan
                              /\ job'[i].seen = job[i].seen /\ job'[i].done = job[i].done
                              /\ job'[i].gen = job[i].gen
      /\ job' \in [Instances -> Jobs]
  <2>1. \A i \in Instances : job'[i] \in Jobs /\ job'[i].plan = job[i].plan
                              /\ job'[i].seen = job[i].seen /\ job'[i].done = job[i].done
                              /\ job'[i].gen = job[i].gen
    BY <1>1, <1>3, Unmoved
  <2> QED
    BY <1>1, <2>1
<1>6. Types'
  BY <1>1, <1>4, <1>5 DEF Inv, Types
<1>7. Shared'
  <2>1. ServerFirst' /\ Ordered' /\ CompletionDecides'
    BY <1>1, <1>4 DEF Inv, Shared, ServerFirst, Ordered, CompletionDecides
  <2>2. OneHandler'
    BY <1>1, <1>5 DEF Inv, Shared, OneHandler
  <2>3. Reported' /\ SucceededIsInstalled'
    BY <1>1, <1>4 DEF Inv, Shared, Reported, Latest, SucceededIsInstalled
  <2> QED
    BY <2>1, <2>2, <2>3 DEF Shared
<1>8. ASSUME NEW i \in Instances PROVE Own(i)'
  <2>1. Own(i) /\ job[i].plan \in Plans /\ job[i].age \in 0..Lifetime /\ group[i] \in Groups
    BY Unmoved DEF Inv
  <2>2. Shaped(i)' /\ Known(i)' /\ Undisturbed(i)'
    BY <1>1, <1>4, <1>5, <2>1 DEF Own, Shaped, Known, Undisturbed, Engaged
  <2>3. Covered(i)'
    <3> SUFFICES ASSUME group[i] # "none", job'[i].age < Lifetime
                 PROVE  LET k == claim'[job[i].plan] IN
                        /\ k.owner = i /\ k.gen = job[i].gen /\ k.age <= job'[i].age
                        /\ k.done = Unreported
      BY <1>1, <1>5 DEF Covered
    <3>1. pc[i] = "executing"
      BY <1>1, <2>1 DEF Own, Shaped, Groups
    <3>2. job[i].age < Lifetime /\ job'[i].age = job[i].age + 1
      <4>1. job[i].age < Lifetime
        BY <1>1, <2>1, <3>1, DeliveryAssumption
      <4> QED
        BY <1>1, <1>3, <3>1, <4>1
    <3>3. /\ claim[job[i].plan].owner = i /\ claim[job[i].plan].gen = job[i].gen
          /\ claim[job[i].plan].age <= job[i].age /\ claim[job[i].plan].done = Unreported
      BY <2>1, <3>2 DEF Own, Covered
    <3>4. claim'[job[i].plan].age <= job[i].age + 1
      BY <1>1, <1>2, <2>1, <3>2, <3>3, DeliveryAssumption
    <3> QED
      BY <1>4, <2>1, <3>2, <3>3, <3>4
  <2> QED
    BY <2>2, <2>3 DEF Own
<1> QED
  BY <1>6, <1>7, <1>8 DEF Inv

-----------------------------------------------------------------------------
(* Planning and the server's own execution. *)

LEMMA PlanNextKeepsInv == ASSUME Inv, NEW p \in Plans, PlanNext(p) PROVE Inv'
<1>1. /\ plan[p] = "absent" /\ \A q \in Plans : q < p => plan[q] \in Terminal
      /\ plan' = [plan EXCEPT ![p] = "computed"]
      /\ UNCHANGED <<claim, record, target, server, pc, job, group, revoked, faults, contested>>
  BY DEF PlanNext
<1>2. plan'[p] = "computed" /\ \A q \in Plans \ {p} : plan'[q] = plan[q]
  BY <1>1 DEF Inv, Types
<1>3. Types'
  BY <1>1 DEF Inv, Types, PlanStates
<1>4. ServerFirst' /\ CompletionDecides' /\ OneHandler' /\ Reported' /\ SucceededIsInstalled'
  <2>1. 1 \in Plans
    BY DeliveryAssumption DEF Plans
  <2>2. ServerFirst' /\ CompletionDecides'
    BY <1>1, <1>2, <2>1 DEF Inv, Shared, ServerFirst, CompletionDecides
  <2>3. OneHandler' /\ Reported' /\ SucceededIsInstalled'
    BY <1>1, <1>2 DEF Inv, Shared, OneHandler, Reported, Latest, SucceededIsInstalled
  <2> QED
    BY <2>2, <2>3
<1>5. Ordered'
  <2>1. \A q, r \in Plans : q < r => q # r
    BY DeliveryAssumption DEF Plans
  <2>2. \A q \in Plans : q < p => plan[q] \notin {"absent", "computed"}
    BY <1>1 DEF Terminal
  <2>3. \A r \in Plans : p < r => plan[r] = "absent"
    BY <1>1 DEF Inv, Shared, Ordered
  <2> QED
    BY <1>1, <1>2, <2>1, <2>2, <2>3 DEF Inv, Shared, Ordered
<1>6. ASSUME NEW k \in Instances PROVE Own(k)'
  <2>1. Own(k) /\ job[k].plan \in Plans
    BY Unmoved DEF Inv
  <2>2. Shaped(k)' /\ Covered(k)'
    BY <1>1, <2>1 DEF Own, Shaped, Covered
  <2>3. Known(k)'
    BY <1>1, <1>2, <2>1 DEF Own, Known, Engaged
  <2>4. Undisturbed(k)'
    BY <1>1, <1>2, <2>1 DEF Own, Undisturbed
  <2> QED
    BY <2>2, <2>3, <2>4 DEF Own
<1> QED
  BY <1>3, <1>4, <1>5, <1>6 DEF Inv, Shared

LEMMA ServerFinishKeepsInv == ASSUME Inv, ServerFinish PROVE Inv'
<1>1. /\ server = "executing" /\ server' = "gone" /\ 1 \in Plans
      /\ plan[1] = "running" /\ \A p \in Plans : claim[p].gen = 0
      /\ UNCHANGED <<claim, pc, job, group, revoked, faults, contested>>
      /\ \A k \in Instances : pc[k] \in {"idle", "dead"} /\ group[k] = "none"
  BY DeliveryAssumption DEF ServerFinish, Inv, Shared, ServerFirst, Own, Shaped, Plans
<1>2. \A p \in Plans : claim[p].done = Unreported /\ claim[p].owner = Nobody
  BY <1>1 DEF Inv, Shared, ServerFirst
<1>3. PICK v \in Terminal :
         /\ plan' = [plan EXCEPT ![1] = v]
         /\ \/ v = "succeeded" /\ record' = [s \in Steps |-> 1] /\ target' = [s \in Steps |-> 1]
            \/ v = "failed" /\ UNCHANGED <<record, target>>
  BY DEF ServerFinish, Terminal
<1>4. /\ plan'[1] = v /\ \A q \in Plans \ {1} : plan'[q] = plan[q]
      /\ plan' \in [Plans -> PlanStates]
  BY <1>1, <1>3 DEF Inv, Types, PlanStates
<1>5. Types'
  <2>1. record' \in Records /\ target' \in Records
    BY <1>3, DeliveryAssumption DEF Inv, Types, Records
  <2> QED
    BY <1>1, <1>4, <2>1 DEF Inv, Types
<1>6. ServerFirst' /\ CompletionDecides' /\ OneHandler' /\ Reported'
  BY <1>1, <1>2 DEF ServerFirst, CompletionDecides, OneHandler, Reported, Applying
<1>7. Ordered'
  BY <1>1, <1>3, <1>4 DEF Inv, Shared, Ordered, Terminal
<1>8. SucceededIsInstalled'
  <2> SUFFICES ASSUME NEW p \in Plans, plan'[p] = "succeeded", ~contested
               PROVE  target' = [s \in Steps |-> p] /\ record' = target'
    BY <1>1 DEF SucceededIsInstalled
  <2>1. p = 1
    <3>1. p # 1 => p > 1
      BY DeliveryAssumption DEF Plans
    <3> QED
      BY <1>1, <1>4, <3>1 DEF Inv, Shared, Ordered, Terminal
  <2> QED
    BY <1>3, <1>4, <2>1
<1>9. ASSUME NEW k \in Instances PROVE Own(k)'
  BY <1>1 DEF Inv, Own, Shaped, Known, Covered, Undisturbed, Engaged, Working, Applying
<1> QED
  BY <1>5, <1>6, <1>7, <1>8, <1>9 DEF Inv, Shared

-----------------------------------------------------------------------------

LEMMA NextKeepsInv == ASSUME Inv, [Next]_vars PROVE Inv'
<1>1. ASSUME NEW p \in Plans, PlanNext(p) PROVE Inv'
  BY <1>1, PlanNextKeepsInv
<1>2. CASE ServerFinish
  BY <1>2, ServerFinishKeepsInv
<1>3. CASE ServerStop
  <2>1. revoked' \in SUBSET Instances /\ faults' \in 0..MaxFaults
    BY <1>3 DEF ServerStop, Inv, Types
  <2> QED
    BY <1>3, <2>1, AsideKeepsInv DEF ServerStop
<1>4. ASSUME NEW i \in Instances, Proceed(i) PROVE Inv'
  <2>1. CASE Poll(i) \/ Claim(i) \/ Lapsed(i) \/ Abandon(i)
    BY <2>1, PollKeepsInv, ClaimKeepsInv, LapsedKeepsInv, AbandonKeepsInv
  <2>2. CASE StartStep(i) \/ Killed(i) \/ StepEnds(i)
    BY <2>2, StartStepKeepsInv, KilledKeepsInv, StepEndsKeepsInv
  <2>3. CASE Validate(i) \/ Store(i) \/ Load(i)
    BY <2>3, ValidateKeepsInv, StoreKeepsInv, LoadKeepsInv
  <2>4. CASE PutRunning(i) \/ Read(i) \/ Put(i)
    BY <2>4, PutRunningKeepsInv, ReadKeepsInv, PutKeepsInv
  <2> QED
    BY <1>4, <2>1, <2>2, <2>3, <2>4 DEF Proceed
<1>5. ASSUME NEW i \in Instances, Heartbeat(i) \/ Timeout(i) \/ Stall(i) \/ Crash(i) PROVE Inv'
  BY <1>5, HeartbeatKeepsInv, TimeoutKeepsInv, StallKeepsInv, CrashKeepsInv
<1>6. ASSUME NEW i \in Instances, GuardKills(i) PROVE Inv'
  BY <1>6, GuardKillsKeepsInv
<1>7. ASSUME NEW i \in Instances, Revoke(i) PROVE Inv'
  <2>1. revoked' \in SUBSET Instances /\ faults' \in 0..MaxFaults
    BY <1>7, FaultCounts DEF Revoke, Inv, Types
  <2> QED
    BY <1>7, <2>1, AsideKeepsInv DEF Revoke
<1>8. CASE Tick
  BY <1>8, TickKeepsInv
<1>9. CASE UNCHANGED vars
  <2>1. revoked' \in SUBSET Instances /\ faults' \in 0..MaxFaults
    BY <1>9 DEF vars, Inv, Types
  <2> QED
    BY <1>9, <2>1, AsideKeepsInv DEF vars
<1> QED
  BY <1>1, <1>2, <1>3, <1>4, <1>5, <1>6, <1>7, <1>8, <1>9 DEF Next

LEMMA Invariance == Spec => []Inv
<1>1. Inv /\ [Next]_vars => Inv'
  BY NextKeepsInv
<1> QED
  BY InitInv, <1>1, PTL DEF Spec

\* Every variable keeps its type, and an executor runs for an instance that
\* executes or is left by one that crashed, for any number of instances, plans and steps.
THEOREM TypeCorrect == Spec => []TypeOK
<1>1. Inv => TypeOK
  <2> SUFFICES ASSUME Inv PROVE TypeOK
    OBVIOUS
  <2>1. \A i \in Instances : /\ group[i] = "alive" <=> pc[i] = "executing"
                             /\ group[i] = "orphan" => pc[i] = "dead"
                             /\ group[i] # "none" => job[i].done < NumSteps
    BY DEF Inv, Own, Shaped
  <2> QED
    BY <2>1 DEF Inv, Types, TypeOK, Groups
<1> QED
  BY Invariance, <1>1, PTL

\* complete_runtime_plan keeps the first completion, and whatever handler applies
\* it, late, twice or beside another one, never ends the plan in another state.
THEOREM StoredCompletionDecides == Spec => []CompletionDecides
<1>1. Inv => CompletionDecides
  BY DEF Inv, Shared
<1> QED
  BY Invariance, <1>1, PTL

\* Of two executors in the environment, orphans of crashed agents included, one
\* belongs to an agent that has not asked for its renewal in time: both claims
\* would cover a computed plan, and only one plan is computed at a time.
THEOREM ExecutorExclusion == Spec => []OneExecutor
<1>1. Inv => OneExecutor
  <2> SUFFICES ASSUME Inv, NEW i \in Instances, NEW j \in Instances, i # j,
                      group[i] # "none", group[j] # "none", ~Stalled(i), ~Stalled(j)
               PROVE  FALSE
    BY DEF OneExecutor
  <2>1. ASSUME NEW k \in Instances, group[k] # "none", ~Stalled(k)
        PROVE  job[k].plan \in Plans /\ plan[job[k].plan] = "computed" /\ claim[job[k].plan].owner = k
    <3>1. job[k].plan \in Plans /\ job[k].age < Lifetime /\ Own(k) /\ Engaged(k)
      BY <2>1, Unmoved, DeliveryAssumption
      DEF Stalled, Inv, Own, Shaped, Engaged, Working, Groups
    <3>2. claim[job[k].plan].owner = k /\ claim[job[k].plan].done = Unreported
      BY <2>1, <3>1 DEF Own, Covered
    <3> QED
      BY <3>1, <3>2 DEF Own, Known
  <2>2. job[i].plan = job[j].plan
    <3>1. job[i].plan \in Nat /\ job[j].plan \in Nat
      BY <2>1, DeliveryAssumption DEF Plans
    <3> QED
      BY <2>1, <3>1 DEF Inv, Shared, Ordered
  <2> QED
    BY <2>1, <2>2
<1> QED
  BY Invariance, <1>1, PTL

\* A plan that succeeded is what is installed and recorded until a later plan is
\* granted, unless a completion was applied twice at once or an executor ran on
\* under a stalled agent: complete_runtime_work records just what was reported.
THEOREM InstalledIsRecorded == Spec => []SucceededIsInstalled
<1>1. Inv => SucceededIsInstalled
  BY DEF Inv, Shared
<1> QED
  BY Invariance, <1>1, PTL
=============================================================================
