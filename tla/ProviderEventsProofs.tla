------------------------ MODULE ProviderEventsProofs ------------------------
(***************************************************************************)
(* Proofs about ProviderEvents, for any events, workers and batches: what  *)
(* a provider receives for an event never changes, nothing counts as       *)
(* delivered that no provider accepted, and two workers send one event     *)
(* only when one of them is stalled.                                       *)
(***************************************************************************)
EXTENDS ProviderEvents, FiniteSetTheorems, TLAPS

\* Types, without the order of the next attempts and the bounds of the clocks.
RowType ==
    [state : {"absent", "queued", "delivered"}, meta : Nat, token : Tokens, left : Int,
     wait : Int, attempts : 0..MaxBackoff]
Steps == {"idle", "work", "reserve", "bind", "send", "ack", "defer"}
JobType ==
    [pc : Steps, batch : SUBSET Events,
     read : [Events -> Nat], event : Events, meta : Nat, age : Int, pace : {"steady", "stalled"}]

Typed ==
    /\ row \in [Events -> RowType]
    /\ sequence \in Nat \ {0}
    /\ job \in [Workers -> JobType]
    /\ received \in [Events -> SUBSET Nat]

\* Sequences are handed out once, and each is bound to one event.
Sequenced ==
    /\ \A e \in Events : row[e].meta < sequence
    /\ \A e, f \in Events : e # f /\ row[e].meta # 0 => row[e].meta # row[f].meta

\* What a worker read of an event that had metadata is still its metadata, and
\* of an event it holds the claim of, it read all there is until it binds it.
ReadIsBound ==
    \A w \in Workers : \A e \in Events :
        /\ job[w].read[e] # 0 => row[e].meta = job[w].read[e]
        /\ job[w].pc # "idle" /\ row[e].token = w =>
             \/ row[e].meta = job[w].read[e]
             \/ e = job[w].event /\ job[w].pc \in {"send", "ack", "defer"}

\* A worker that reserves a sequence read none; the one it reserved is not
\* bound to any event, and no other worker has it.
Reserved ==
    \A w \in Workers :
        /\ job[w].pc \in {"reserve", "bind"} => job[w].read[job[w].event] = 0
        /\ job[w].pc = "bind" =>
             /\ 0 < job[w].meta /\ job[w].meta < sequence
             /\ \A e \in Events : row[e].meta # job[w].meta
             /\ \A v \in Workers \ {w} : job[v].pc = "bind" => job[v].meta # job[w].meta

\* What is sent is bound, and what was received was sent.
Sent ==
    /\ \A w \in Workers : job[w].pc = "send" =>
         job[w].meta # 0 /\ row[job[w].event].meta = job[w].meta
    /\ \A e \in Events : received[e] \subseteq {row[e].meta} \ {0}

\* An acknowledgement follows an acceptance.
Acknowledged ==
    /\ \A w \in Workers : job[w].pc = "ack" => received[job[w].event] # {}
    /\ DeliveredWasAccepted

Inv == Typed /\ Sequenced /\ ReadIsBound /\ Reserved /\ Sent /\ Acknowledged

-----------------------------------------------------------------------------

LEMMA IdleIsJob == Idle \in JobType /\ \A e \in Events : Idle.read[e] = 0
<1>1. (CHOOSE e \in Events : TRUE) \in Events
  BY EventsAssumption
<1> QED
  BY <1>1 DEF Idle, JobType, Steps

LEMMA InitInv == Init => Inv
<1> SUFFICES ASSUME Init PROVE Inv
  OBVIOUS
<1>1. Typed
  BY IdleIsJob, EventsAssumption DEF Init, Typed, Tokens, RowType
<1>2. \A w \in Workers : job[w].pc = "idle" /\ \A e \in Events : job[w].read[e] = 0
  BY IdleIsJob DEF Init, Idle
<1>3. Sequenced /\ ReadIsBound /\ Reserved /\ Sent /\ Acknowledged
  BY <1>2 DEF Init, Sequenced, ReadIsBound, Reserved, Sent, Acknowledged, DeliveredWasAccepted
<1> QED
  BY <1>1, <1>3 DEF Inv

\* One field of a row changes, and no other.
LEMMA SetToken ==
    ASSUME NEW r \in RowType, NEW x \in Tokens
    PROVE  LET k == [r EXCEPT !.token = x] IN
           k \in RowType /\ k.meta = r.meta /\ k.token = x /\ k.state = r.state /\ k.left = r.left
  BY DEF RowType

LEMMA SetLeft ==
    ASSUME NEW r \in RowType, NEW x \in Int
    PROVE  LET k == [r EXCEPT !.left = x] IN
           k \in RowType /\ k.meta = r.meta /\ k.token = r.token /\ k.state = r.state /\ k.left = x
  BY DEF RowType

LEMMA SetWait ==
    ASSUME NEW r \in RowType, NEW x \in Int
    PROVE  LET k == [r EXCEPT !.wait = x] IN
           k \in RowType /\ k.meta = r.meta /\ k.token = r.token /\ k.state = r.state /\ k.left = r.left
  BY DEF RowType

LEMMA SetAttempts ==
    ASSUME NEW r \in RowType, NEW x \in 0..MaxBackoff
    PROVE  LET k == [r EXCEPT !.attempts = x] IN
           k \in RowType /\ k.meta = r.meta /\ k.token = r.token /\ k.state = r.state /\ k.left = r.left
  BY DEF RowType

LEMMA SetState ==
    ASSUME NEW r \in RowType, NEW x \in {"absent", "queued", "delivered"}
    PROVE  LET k == [r EXCEPT !.state = x] IN
           k \in RowType /\ k.meta = r.meta /\ k.token = r.token /\ k.state = x /\ k.left = r.left
  BY DEF RowType

\* The claim of a worker whose batch ends is nobody's; nothing else changes.
LEMMA ClosedRows ==
    ASSUME NEW w \in Workers, NEW rows \in [Events -> RowType]
    PROVE  /\ Closed(w, rows) \in [Events -> RowType]
           /\ \A e \in Events :
                /\ Closed(w, rows)[e].meta = rows[e].meta
                /\ Closed(w, rows)[e].state = rows[e].state
                /\ Closed(w, rows)[e].token \in {rows[e].token, Stale}
                /\ rows[e].token # w => Closed(w, rows)[e] = rows[e]
  BY DEF Closed, Tokens, RowType

\* A worker lets go of its batch and turns idle: an event it has settled may
\* have changed state, no event its metadata, and no other worker's claim.
LEMMA ResetKeepsInv ==
    ASSUME Inv, NEW w \in Workers, Reset(w), UNCHANGED <<sequence, received>>,
           row' \in [Events -> RowType],
           \A e \in Events :
               /\ row'[e].meta = row[e].meta
               /\ row'[e].state = "delivered" => received[e] # {}
               /\ row'[e].token \in {row[e].token, Stale, NoToken}
    PROVE  Inv'
<1>1. /\ job' \in [Workers -> JobType]
      /\ job'[w].pc = "idle" /\ \A e \in Events : job'[w].read[e] = 0
      /\ \A v \in Workers \ {w} : job'[v] = job[v]
  BY IdleIsJob DEF Reset, Inv, Typed, Idle
<1>2. \A v \in Workers : job[v].event \in Events
  BY DEF Inv, Typed, JobType
<1>3. Typed'
  BY <1>1 DEF Inv, Typed
<1>4. Sequenced'
  BY DEF Inv, Sequenced
<1>5. ReadIsBound'
  BY <1>1, EventsAssumption DEF Inv, ReadIsBound
<1>6. Reserved'
  BY <1>1, <1>2 DEF Inv, Reserved
<1>7. Sent'
  BY <1>1, <1>2 DEF Inv, Sent
<1>8. Acknowledged'
  BY <1>1, <1>2 DEF Inv, Acknowledged, DeliveredWasAccepted
<1> QED
  BY <1>3, <1>4, <1>5, <1>6, <1>7, <1>8 DEF Inv

LEMMA AbortKeepsInv ==
    ASSUME Inv, NEW w \in Workers, Abort(w), UNCHANGED <<sequence, received>> PROVE Inv'
<1>1. row' = Closed(w, row) /\ Reset(w)
  BY DEF Abort
<1>2. \A e \in Events : row[e].state = "delivered" => received[e] # {}
  BY DEF Inv, Acknowledged, DeliveredWasAccepted
<1>3. row \in [Events -> RowType]
  BY DEF Inv, Typed
<1> QED
  BY <1>1, <1>2, <1>3, ClosedRows, ResetKeepsInv

\* One field of a worker's record changes, and no other.
LEMMA SetPc ==
    ASSUME NEW j \in JobType, NEW x \in Steps
    PROVE  LET k == [j EXCEPT !.pc = x] IN
           /\ k \in JobType /\ k.pc = x /\ k.batch = j.batch
           /\ k.read = j.read /\ k.event = j.event /\ k.meta = j.meta
           /\ k.age = j.age /\ k.pace = j.pace
  BY DEF JobType

LEMMA SetBatch ==
    ASSUME NEW j \in JobType, NEW x \in SUBSET Events
    PROVE  LET k == [j EXCEPT !.batch = x] IN
           /\ k \in JobType /\ k.pc = j.pc /\ k.batch = x
           /\ k.read = j.read /\ k.event = j.event /\ k.meta = j.meta
           /\ k.age = j.age /\ k.pace = j.pace
  BY DEF JobType

LEMMA SetRead ==
    ASSUME NEW j \in JobType, NEW x \in [Events -> Nat]
    PROVE  LET k == [j EXCEPT !.read = x] IN
           /\ k \in JobType /\ k.pc = j.pc /\ k.batch = j.batch
           /\ k.read = x /\ k.event = j.event /\ k.meta = j.meta
           /\ k.age = j.age /\ k.pace = j.pace
  BY DEF JobType

LEMMA SetEvent ==
    ASSUME NEW j \in JobType, NEW x \in Events
    PROVE  LET k == [j EXCEPT !.event = x] IN
           /\ k \in JobType /\ k.pc = j.pc /\ k.batch = j.batch
           /\ k.read = j.read /\ k.event = x /\ k.meta = j.meta
           /\ k.age = j.age /\ k.pace = j.pace
  BY DEF JobType

LEMMA SetMeta ==
    ASSUME NEW j \in JobType, NEW x \in Nat
    PROVE  LET k == [j EXCEPT !.meta = x] IN
           /\ k \in JobType /\ k.pc = j.pc /\ k.batch = j.batch
           /\ k.read = j.read /\ k.event = j.event /\ k.meta = x
           /\ k.age = j.age /\ k.pace = j.pace
  BY DEF JobType

LEMMA SetAge ==
    ASSUME NEW j \in JobType, NEW x \in Int
    PROVE  LET k == [j EXCEPT !.age = x] IN
           /\ k \in JobType /\ k.pc = j.pc /\ k.batch = j.batch
           /\ k.read = j.read /\ k.event = j.event /\ k.meta = j.meta
           /\ k.age = x /\ k.pace = j.pace
  BY DEF JobType

LEMMA SetPace ==
    ASSUME NEW j \in JobType, NEW x \in {"steady", "stalled"}
    PROVE  LET k == [j EXCEPT !.pace = x] IN
           /\ k \in JobType /\ k.pc = j.pc /\ k.batch = j.batch
           /\ k.read = j.read /\ k.event = j.event /\ k.meta = j.meta
           /\ k.age = j.age /\ k.pace = x
  BY DEF JobType

\* A worker goes on with the rest of its batch.
LEMMA JobGoesOn ==
    ASSUME NEW j \in JobType, NEW b \in SUBSET Events
    PROVE  LET k == [j EXCEPT !.pc = "work", !.batch = b, !.age = 0] IN
           k \in JobType /\ k.pc = "work" /\ k.read = j.read
<1> DEFINE j1 == [j EXCEPT !.pc = "work"]
           j2 == [j1 EXCEPT !.batch = b]
           j3 == [j2 EXCEPT !.age = 0]
<1>1. /\ j1 \in JobType /\ j1.pc = "work" /\ j1.batch = j.batch
      /\ j1.read = j.read /\ j1.event = j.event /\ j1.meta = j.meta
  BY SetPc DEF Steps
<1> HIDE DEF j1
<1>2. /\ j2 \in JobType /\ j2.pc = "work" /\ j2.batch = b
      /\ j2.read = j.read /\ j2.event = j.event /\ j2.meta = j.meta
  BY <1>1, SetBatch
<1> HIDE DEF j2
<1>3. /\ j3 \in JobType /\ j3.pc = "work" /\ j3.batch = b
      /\ j3.read = j.read /\ j3.event = j.event /\ j3.meta = j.meta
  BY <1>2, SetAge
<1> QED
  BY <1>3 DEF j1, j2

\* A worker changes its own record, and no other worker's.
LEMMA JobChanges ==
    ASSUME Typed, NEW w \in Workers, NEW j \in JobType, job' = [job EXCEPT ![w] = j]
    PROVE  /\ job' \in [Workers -> JobType] /\ job'[w] = j
           /\ \A v \in Workers \ {w} : job'[v] = job[v]
  BY DEF Typed

\* A worker settles the event it holds and goes on with its batch.
LEMMA NextEventKeepsInv ==
    ASSUME Inv, NEW w \in Workers, NEW rows \in [Events -> RowType],
           NextEvent(w, rows), UNCHANGED <<sequence, received>>,
           job[w].pc \in {"ack", "defer"}, rows[job[w].event].token = NoToken,
           \A e \in Events :
               /\ rows[e].meta = row[e].meta
               /\ rows[e].state = "delivered" => received[e] # {}
               /\ rows[e].token \in {row[e].token, NoToken}
    PROVE  Inv'
<1> DEFINE rest == job[w].batch \ {job[w].event}
<1>1. CASE rest = {}
  BY <1>1, ClosedRows, ResetKeepsInv DEF NextEvent
<1>2. CASE rest # {}
  <2>1. row' = rows /\ job' = [job EXCEPT ![w].pc = "work", ![w].batch = rest, ![w].age = 0]
    BY <1>2 DEF NextEvent
  <2>2. /\ job' \in [Workers -> JobType]
        /\ job'[w].pc = "work" /\ job'[w].read = job[w].read
        /\ \A v \in Workers \ {w} : job'[v] = job[v]
    <3> DEFINE j == [job[w] EXCEPT !.pc = "work", !.batch = rest, !.age = 0]
    <3>1. job[w] \in JobType /\ rest \in SUBSET Events
      BY DEF Inv, Typed, JobType
    <3>2. j \in JobType /\ j.pc = "work" /\ j.read = job[w].read
      BY <3>1, JobGoesOn
    <3>3. job' = [job EXCEPT ![w] = j]
      BY <2>1 DEF Inv, Typed
    <3> HIDE DEF j
    <3> QED
      BY <3>2, <3>3, JobChanges DEF Inv
  <2>3. \A v \in Workers : job[v].event \in Events
    BY DEF Inv, Typed, JobType
  <2>4. Typed'
    BY <2>1, <2>2 DEF Inv, Typed
  <2>5. Sequenced'
    BY <2>1 DEF Inv, Sequenced
  <2>6. ReadIsBound'
    BY <2>1, <2>2, EventsAssumption DEF Inv, ReadIsBound
  <2>7. Reserved'
    BY <2>1, <2>2, <2>3 DEF Inv, Reserved
  <2>8. Sent'
    BY <2>1, <2>2, <2>3 DEF Inv, Sent
  <2>9. Acknowledged'
    BY <2>1, <2>2, <2>3 DEF Inv, Acknowledged, DeliveredWasAccepted
  <2> QED
    BY <2>4, <2>5, <2>6, <2>7, <2>8, <2>9 DEF Inv
<1> QED
  BY <1>1, <1>2
-----------------------------------------------------------------------------

\* A worker takes a step that leaves every row's metadata and state alone, and
\* gives itself no claim: only what it remembers changes.
LEMMA OwnStepKeepsInv ==
    ASSUME Inv, NEW w \in Workers, NEW j \in JobType, job' = [job EXCEPT ![w] = j],
           UNCHANGED <<row, sequence, received>>, j.read = job[w].read,
           job[w].pc # "idle",
           j.pc \in {"reserve"} => j.read[j.event] = 0,
           j.pc # "bind" \/ (j.meta = job[w].meta /\ j.event = job[w].event /\ job[w].pc = "bind"),
           j.pc = "send" => j.meta # 0 /\ row[j.event].meta = j.meta,
           j.pc = "ack" => job[w].pc = "ack" /\ j.event = job[w].event,
           \/ job[w].pc \notin {"send", "ack", "defer"}
           \/ j.event = job[w].event /\ j.pc \in {"send", "ack", "defer"}
    PROVE  Inv'
<1>1. /\ job' \in [Workers -> JobType] /\ job'[w] = j
      /\ \A v \in Workers \ {w} : job'[v] = job[v]
  BY JobChanges DEF Inv
<1>2. /\ \A v \in Workers : job[v].event \in Events
      /\ j.event \in Events
  BY DEF Inv, Typed, JobType
<1>3. Typed'
  BY <1>1 DEF Inv, Typed
<1>4. Sequenced'
  BY DEF Inv, Sequenced
<1>5. ReadIsBound'
  BY <1>1 DEF Inv, ReadIsBound
<1>6. Reserved'
  BY <1>1, <1>2 DEF Inv, Reserved
<1>7. Sent'
  BY <1>1, <1>2 DEF Inv, Sent
<1>8. Acknowledged'
  BY <1>1, <1>2 DEF Inv, Acknowledged, DeliveredWasAccepted
<1> QED
  BY <1>3, <1>4, <1>5, <1>6, <1>7, <1>8 DEF Inv

\* A step that leaves the metadata and the claims alone, and of the workers
\* all but their clocks.
LEMMA QuietKeepsInv ==
    ASSUME Inv, UNCHANGED <<sequence, received>>,
           row' \in [Events -> RowType], job' \in [Workers -> JobType],
           \A e \in Events :
               /\ row'[e].meta = row[e].meta /\ row'[e].token = row[e].token
               /\ row'[e].state = "delivered" => row[e].state = "delivered",
           \A w \in Workers :
               /\ job'[w].pc = job[w].pc /\ job'[w].read = job[w].read
               /\ job'[w].event = job[w].event /\ job'[w].meta = job[w].meta
    PROVE  Inv'
<1>1. \A w \in Workers : job[w].event \in Events
  BY DEF Inv, Typed, JobType
<1>2. Typed'
  BY DEF Inv, Typed
<1>3. Sequenced'
  BY DEF Inv, Sequenced
<1>4. ReadIsBound'
  BY DEF Inv, ReadIsBound
<1>5. Reserved'
  BY <1>1 DEF Inv, Reserved
<1>6. Sent'
  BY <1>1 DEF Inv, Sent
<1>7. Acknowledged'
  BY <1>1 DEF Inv, Acknowledged, DeliveredWasAccepted
<1> QED
  BY <1>2, <1>3, <1>4, <1>5, <1>6, <1>7 DEF Inv

LEMMA EnqueueKeepsInv ==
    ASSUME Inv, NEW e \in Events, Enqueue(e) PROVE Inv'
<1>1. row \in [Events -> RowType] /\ job \in [Workers -> JobType]
  BY DEF Inv, Typed
<1>2. row' = [row EXCEPT ![e].state = "queued"] /\ UNCHANGED <<job, sequence, received>>
  BY DEF Enqueue
<1>3. /\ row' \in [Events -> RowType]
      /\ \A f \in Events :
           /\ row'[f].meta = row[f].meta /\ row'[f].token = row[f].token
           /\ row'[f].state = "delivered" => row[f].state = "delivered"
  BY <1>1, <1>2 DEF RowType
<1> QED
  BY <1>1, <1>2, <1>3, QuietKeepsInv

LEMMA StallKeepsInv ==
    ASSUME Inv, NEW w \in Workers, Stall(w) PROVE Inv'
<1>1. row \in [Events -> RowType] /\ job \in [Workers -> JobType] /\ job[w] \in JobType
  BY DEF Inv, Typed
<1> DEFINE j == [job[w] EXCEPT !.pace = "stalled"]
<1>2. /\ j \in JobType /\ j.pc = job[w].pc /\ j.read = job[w].read
      /\ j.event = job[w].event /\ j.meta = job[w].meta
  BY <1>1, SetPace
<1>3. job' = [job EXCEPT ![w] = j] /\ UNCHANGED <<row, sequence, received>>
  BY <1>1 DEF Stall
<1> HIDE DEF j
<1> QED
  BY <1>1, <1>2, <1>3, QuietKeepsInv

LEMMA TickKeepsInv ==
    ASSUME Inv, Tick PROVE Inv'
<1>1. row \in [Events -> RowType] /\ job \in [Workers -> JobType]
  BY DEF Inv, Typed
<1>2. UNCHANGED <<sequence, received>>
  BY DEF Tick
<1>3. /\ row' \in [Events -> RowType]
      /\ \A e \in Events :
           /\ row'[e].meta = row[e].meta /\ row'[e].token = row[e].token
           /\ row'[e].state = "delivered" => row[e].state = "delivered"
  <2> DEFINE less(n) == IF n = 0 THEN 0 ELSE n - 1
  <2>1. row' = [e \in Events |->
                  [row[e] EXCEPT !.left = less(row[e].left), !.wait = less(row[e].wait)]]
    BY <1>1 DEF Tick, RowType
  <2>2. \A e \in Events :
          row[e] \in RowType /\ less(row[e].left) \in Int /\ less(row[e].wait) \in Int
    BY <1>1 DEF RowType
  <2> HIDE DEF less
  <2>3. ASSUME NEW e \in Events
        PROVE  /\ row'[e] \in RowType /\ row'[e].meta = row[e].meta
               /\ row'[e].token = row[e].token /\ row'[e].state = row[e].state
    <3> DEFINE r1 == [row[e] EXCEPT !.left = less(row[e].left)]
               r2 == [r1 EXCEPT !.wait = less(row[e].wait)]
    <3>1. r1 \in RowType /\ r1.meta = row[e].meta /\ r1.token = row[e].token /\ r1.state = row[e].state
      BY <2>2, SetLeft
    <3>2. row'[e] = r2
      BY <2>1
    <3> HIDE DEF r1
    <3>3. r2 \in RowType /\ r2.meta = r1.meta /\ r2.token = r1.token /\ r2.state = r1.state
      BY <2>2, <3>1, SetWait
    <3> QED
      BY <3>1, <3>2, <3>3
  <2> QED
    BY <2>1, <2>3
<1>4. job' = [w \in Workers |->
                IF job[w].pc = "idle" \/ job[w].age > ClaimLife THEN job[w]
                ELSE [job[w] EXCEPT !.age = job[w].age + 1]]
  BY <1>1 DEF Tick
<1>5. ASSUME NEW w \in Workers
      PROVE  /\ job'[w] \in JobType /\ job'[w].pc = job[w].pc /\ job'[w].read = job[w].read
             /\ job'[w].event = job[w].event /\ job'[w].meta = job[w].meta
  <2>1. job[w] \in JobType /\ job[w].age + 1 \in Int
    BY <1>1 DEF JobType
  <2> QED
    BY <1>4, <2>1, SetAge
<1>6. job' \in [Workers -> JobType]
  BY <1>4, <1>5
<1> QED
  BY <1>2, <1>3, <1>5, <1>6, QuietKeepsInv

-----------------------------------------------------------------------------

LEMMA ClaimKeepsInv ==
    ASSUME Inv, NEW w \in Workers, Claim(w) PROVE Inv'
<1>1. /\ row \in [Events -> RowType] /\ job \in [Workers -> JobType] /\ job[w] \in JobType
      /\ \A v \in Workers : job[v].event \in Events
  BY DEF Inv, Typed, JobType
<1> DEFINE rows(batch) == [e \in Events |->
                     IF e \in batch THEN [row[e] EXCEPT !.token = w, !.left = ClaimLife]
                     ELSE IF row[e].state = "queued" /\ row[e].left = 0
                          THEN [row[e] EXCEPT !.token = NoToken]
                     ELSE row[e]]
           m == [e \in Events |-> row[e].meta]
           j(batch) == [job[w] EXCEPT !.pc = "work", !.batch = batch, !.read = m]
<1>2. PICK batch \in SUBSET Events :
        row' = rows(batch) /\ job' = [job EXCEPT ![w] = j(batch)]
  BY <1>1 DEF Claim
<1>3. UNCHANGED <<sequence, received>>
  BY DEF Claim
<1>4. m \in [Events -> Nat] /\ \A e \in Events : m[e] = row[e].meta
  BY <1>1 DEF RowType
<1> HIDE DEF m
<1>5. j(batch) \in JobType /\ j(batch).pc = "work" /\ j(batch).read = m
  <2> DEFINE j1 == [job[w] EXCEPT !.pc = "work"]
             j2 == [j1 EXCEPT !.batch = batch]
             j3 == [j2 EXCEPT !.read = m]
  <2>1. j(batch) = j3
    OBVIOUS
  <2>2. j1 \in JobType /\ j1.pc = "work"
    BY <1>1, SetPc DEF Steps
  <2> HIDE DEF j1
  <2>3. j2 \in JobType /\ j2.pc = "work"
    BY <1>2, <2>2, SetBatch
  <2> HIDE DEF j2
  <2>4. j3 \in JobType /\ j3.pc = "work" /\ j3.read = m
    BY <1>4, <2>3, SetRead
  <2> QED
    BY <2>1, <2>4
<1>6. ASSUME NEW e \in Events
      PROVE  /\ rows(batch)[e] \in RowType
             /\ rows(batch)[e].meta = row[e].meta /\ rows(batch)[e].state = row[e].state
             /\ rows(batch)[e].token \in {row[e].token, w, NoToken}
  <2>1. row[e] \in RowType /\ w \in Tokens /\ NoToken \in Tokens /\ ClaimLife \in Int
    BY <1>1, EventsAssumption DEF Tokens, ClaimLife
  <2>2. LET k == [row[e] EXCEPT !.token = w, !.left = ClaimLife] IN
        k \in RowType /\ k.meta = row[e].meta /\ k.token = w /\ k.state = row[e].state
    <3> DEFINE r1 == [row[e] EXCEPT !.token = w]
               r2 == [r1 EXCEPT !.left = ClaimLife]
    <3>1. r1 \in RowType /\ r1.meta = row[e].meta /\ r1.token = w /\ r1.state = row[e].state
      BY <2>1, SetToken
    <3>2. r2 = [row[e] EXCEPT !.token = w, !.left = ClaimLife]
      OBVIOUS
    <3> HIDE DEF r1
    <3>3. r2 \in RowType /\ r2.meta = r1.meta /\ r2.token = r1.token /\ r2.state = r1.state
      BY <2>1, <3>1, SetLeft
    <3> QED
      BY <3>1, <3>2, <3>3
  <2>3. LET k == [row[e] EXCEPT !.token = NoToken] IN
        k \in RowType /\ k.meta = row[e].meta /\ k.token = NoToken /\ k.state = row[e].state
    BY <2>1, SetToken
  <2> QED
    BY <2>1, <2>2, <2>3
<1>7. /\ row' \in [Events -> RowType]
      /\ \A e \in Events :
           /\ row'[e].meta = row[e].meta /\ row'[e].state = row[e].state
           /\ row'[e].token \in {row[e].token, w, NoToken}
  BY <1>2, <1>6
<1> HIDE DEF j, rows
<1>8. /\ job' \in [Workers -> JobType] /\ job'[w].pc = "work" /\ job'[w].read = m
      /\ \A v \in Workers \ {w} : job'[v] = job[v]
  BY <1>2, <1>5, JobChanges DEF Inv
<1>9. Typed'
  BY <1>3, <1>7, <1>8 DEF Inv, Typed
<1>10. Sequenced'
  BY <1>3, <1>7 DEF Inv, Sequenced
<1>11. ReadIsBound'
  BY <1>4, <1>7, <1>8, EventsAssumption DEF Inv, ReadIsBound
<1>12. Reserved'
  BY <1>1, <1>3, <1>7, <1>8 DEF Inv, Reserved
<1>13. Sent'
  BY <1>1, <1>3, <1>7, <1>8 DEF Inv, Sent
<1>14. Acknowledged'
  BY <1>1, <1>3, <1>7, <1>8 DEF Inv, Acknowledged, DeliveredWasAccepted
<1> QED
  BY <1>9, <1>10, <1>11, <1>12, <1>13, <1>14 DEF Inv

LEMMA BeginKeepsInv ==
    ASSUME Inv, NEW w \in Workers, Begin(w) PROVE Inv'
<1>1. /\ job \in [Workers -> JobType] /\ job[w] \in JobType /\ job[w].pc = "work"
      /\ job[w].batch \in SUBSET Events /\ job[w].read \in [Events -> Nat]
  BY DEF Inv, Typed, JobType, Begin
<1> DEFINE p(e) == CASE e \in Poison -> "defer"
                     [] e \notin Poison /\ job[w].read[e] = 0 -> "reserve"
                     [] OTHER -> "send"
<1>2. PICK e \in job[w].batch :
        job' = [job EXCEPT ![w].event = e, ![w].meta = job[w].read[e], ![w].pc = p(e)]
  BY DEF Begin
<1>3. UNCHANGED <<row, sequence, received>>
  BY DEF Begin
<1>4. /\ e \in Events /\ job[w].read[e] \in Nat
      /\ p(e) \in {"defer", "reserve", "send"}
      /\ p(e) = "reserve" => job[w].read[e] = 0
      /\ p(e) = "send" => job[w].read[e] # 0
  BY <1>1, <1>2
<1>5. p(e) \in Steps
  BY <1>4 DEF Steps
<1> HIDE DEF p
<1> DEFINE j1 == [job[w] EXCEPT !.event = e]
           j2 == [j1 EXCEPT !.meta = job[w].read[e]]
           j3 == [j2 EXCEPT !.pc = p(e)]
<1>6. job' = [job EXCEPT ![w] = j3]
  BY <1>1, <1>2
<1>7. j1 \in JobType /\ j1.read = job[w].read /\ j1.event = e
  BY <1>1, <1>4, SetEvent
<1> HIDE DEF j1
<1>8. j2 \in JobType /\ j2.read = job[w].read /\ j2.event = e /\ j2.meta = job[w].read[e]
  BY <1>4, <1>7, SetMeta
<1> HIDE DEF j2
<1>9. /\ j3 \in JobType /\ j3.read = job[w].read /\ j3.event = e
      /\ j3.meta = job[w].read[e] /\ j3.pc = p(e)
  BY <1>5, <1>8, SetPc
<1> HIDE DEF j3
<1>10. p(e) = "send" => row[e].meta = job[w].read[e]
  BY <1>4 DEF Inv, ReadIsBound
<1> QED
  BY <1>1, <1>3, <1>4, <1>6, <1>9, <1>10, OwnStepKeepsInv

LEMMA ReserveKeepsInv ==
    ASSUME Inv, NEW w \in Workers, Reserve(w) PROVE Inv'
<1>1. CASE ~Held(w)
  BY <1>1, AbortKeepsInv DEF Reserve
<1>2. CASE Held(w)
  <2>1. /\ job \in [Workers -> JobType] /\ job[w] \in JobType /\ sequence \in Nat \ {0}
        /\ \A v \in Workers : job[v].event \in Events
    BY DEF Inv, Typed, JobType
  <2>2. /\ job[w].pc = "reserve"
        /\ job' = [job EXCEPT ![w].pc = "bind", ![w].meta = sequence]
        /\ sequence' = sequence + 1 /\ UNCHANGED <<row, received>>
    BY <1>2 DEF Reserve
  <2> DEFINE j1 == [job[w] EXCEPT !.pc = "bind"]
             j2 == [j1 EXCEPT !.meta = sequence]
  <2>3. job' = [job EXCEPT ![w] = j2]
    BY <2>1, <2>2
  <2>4. j1 \in JobType /\ j1.pc = "bind" /\ j1.read = job[w].read /\ j1.event = job[w].event
    BY <2>1, SetPc DEF Steps
  <2> HIDE DEF j1
  <2>5. /\ j2 \in JobType /\ j2.pc = "bind" /\ j2.read = job[w].read
        /\ j2.event = job[w].event /\ j2.meta = sequence
    BY <2>1, <2>4, SetMeta
  <2> HIDE DEF j2
  <2>6. /\ job' \in [Workers -> JobType] /\ job'[w] = j2
        /\ \A v \in Workers \ {w} : job'[v] = job[v]
    BY <2>3, <2>5, JobChanges DEF Inv
  <2>7. \A e \in Events : row[e].meta \in Nat
    BY DEF Inv, Typed, RowType
  <2>8. Typed'
    BY <2>1, <2>2, <2>6 DEF Inv, Typed
  <2>9. Sequenced'
    BY <2>1, <2>2, <2>7 DEF Inv, Sequenced
  <2>10. ReadIsBound'
    BY <2>2, <2>5, <2>6 DEF Inv, ReadIsBound
  <2>11. Reserved'
    <3>1. \A v \in Workers : job[v].meta \in Nat
      BY <2>1 DEF JobType
    <3>2. \A e \in Events : row[e].meta # sequence
      BY <2>1, <2>7 DEF Inv, Sequenced
    <3>3. \A v \in Workers : job[v].pc = "bind" => job[v].meta < sequence /\ job[v].meta # sequence
      BY <2>1, <3>1 DEF Inv, Reserved
    <3> QED
      BY <2>1, <2>2, <2>5, <2>6, <3>1, <3>2, <3>3 DEF Inv, Reserved
  <2>12. Sent'
    BY <2>1, <2>2, <2>5, <2>6 DEF Inv, Sent
  <2>13. Acknowledged'
    BY <2>1, <2>2, <2>5, <2>6 DEF Inv, Acknowledged, DeliveredWasAccepted
  <2> QED
    BY <2>8, <2>9, <2>10, <2>11, <2>12, <2>13 DEF Inv
<1> QED
  BY <1>1, <1>2

\* Who binds holds the claim, so that the event had no metadata: what others
\* read, sent or were sent is not disturbed.
LEMMA BindKeepsInv ==
    ASSUME Inv, NEW w \in Workers, Bind(w) PROVE Inv'
<1>1. CASE ~Held(w)
  BY <1>1, AbortKeepsInv DEF Bind
<1>2. CASE Held(w)
  <2> DEFINE e == job[w].event
             j == [job[w] EXCEPT !.pc = "send"]
  <2>1. /\ job \in [Workers -> JobType] /\ job[w] \in JobType /\ row \in [Events -> RowType]
        /\ \A v \in Workers : job[v].event \in Events /\ job[v].meta \in Nat
        /\ sequence \in Nat /\ \A f \in Events : row[f].meta \in Nat
    BY DEF Inv, Typed, JobType, RowType
  <2>2. /\ job[w].pc = "bind" /\ row[e].token = w
        /\ row' = [row EXCEPT ![e].meta = job[w].meta]
        /\ job' = [job EXCEPT ![w] = j]
        /\ UNCHANGED <<sequence, received>>
    BY <1>2, <2>1 DEF Bind, Held
  <2>3. /\ j \in JobType /\ j.pc = "send" /\ j.read = job[w].read
        /\ j.event = e /\ j.meta = job[w].meta
    BY <2>1, SetPc DEF Steps
  <2> HIDE DEF j
  <2>4. /\ job' \in [Workers -> JobType] /\ job'[w] = j
        /\ \A v \in Workers \ {w} : job'[v] = job[v]
    BY <2>2, <2>3, JobChanges DEF Inv
  <2>5. /\ row' \in [Events -> RowType] /\ row'[e].meta = job[w].meta
        /\ \A f \in Events : row'[f].token = row[f].token /\ row'[f].state = row[f].state
        /\ \A f \in Events \ {e} : row'[f].meta = row[f].meta
    BY <2>1, <2>2 DEF RowType
  <2>6. row[e].meta = 0
    BY <2>1, <2>2 DEF Inv, ReadIsBound, Reserved
  <2>7. /\ 0 < job[w].meta /\ job[w].meta < sequence
        /\ \A f \in Events : row[f].meta # job[w].meta
        /\ \A v \in Workers \ {w} : job[v].pc = "bind" => job[v].meta # job[w].meta
    BY <2>2 DEF Inv, Reserved
  <2>8. Typed'
    BY <2>2, <2>4, <2>5 DEF Inv, Typed
  <2>9. Sequenced'
    BY <2>1, <2>2, <2>5, <2>7 DEF Inv, Sequenced
  <2>10. ReadIsBound'
    BY <2>1, <2>2, <2>3, <2>4, <2>5, <2>6 DEF Inv, ReadIsBound
  <2>11. Reserved'
    BY <2>1, <2>2, <2>3, <2>4, <2>5, <2>7 DEF Inv, Reserved
  <2>12. Sent'
    BY <2>1, <2>2, <2>3, <2>4, <2>5, <2>6, <2>7 DEF Inv, Sent
  <2>13. Acknowledged'
    BY <2>1, <2>2, <2>3, <2>4, <2>5 DEF Inv, Acknowledged, DeliveredWasAccepted
  <2> QED
    BY <2>8, <2>9, <2>10, <2>11, <2>12, <2>13 DEF Inv
<1> QED
  BY <1>1, <1>2

LEMMA SendKeepsInv ==
    ASSUME Inv, NEW w \in Workers, Send(w) PROVE Inv'
<1> DEFINE e == job[w].event
<1>1. /\ job \in [Workers -> JobType] /\ job[w] \in JobType
      /\ \A v \in Workers : job[v].event \in Events /\ job[v].meta \in Nat
      /\ received \in [Events -> SUBSET Nat]
  BY DEF Inv, Typed, JobType
<1>2. /\ job[w].pc = "send" /\ UNCHANGED <<row, sequence>>
      /\ received' \in {received, [received EXCEPT ![e] = received[e] \cup {job[w].meta}]}
  BY DEF Send, Accept
<1>3. PICK p \in {"ack", "defer"} :
        /\ job' = [job EXCEPT ![w].pc = p]
        /\ p = "ack" => received' = [received EXCEPT ![e] = received[e] \cup {job[w].meta}]
  BY DEF Send, Accept
<1> DEFINE j == [job[w] EXCEPT !.pc = p]
<1>4. job' = [job EXCEPT ![w] = j]
  BY <1>1, <1>3
<1>p. p \in Steps
  BY <1>3 DEF Steps
<1>5. /\ j \in JobType /\ j.pc = p /\ j.read = job[w].read
      /\ j.event = e /\ j.meta = job[w].meta
  BY <1>1, <1>p, SetPc
<1> HIDE DEF j
<1>6. /\ job' \in [Workers -> JobType] /\ job'[w] = j
      /\ \A v \in Workers \ {w} : job'[v] = job[v]
  BY <1>4, <1>5, JobChanges DEF Inv
<1>7. job[w].meta # 0 /\ row[e].meta = job[w].meta
  BY <1>2 DEF Inv, Sent
<1>8. /\ received' \in [Events -> SUBSET Nat]
      /\ \A f \in Events : received[f] \subseteq received'[f]
      /\ \A f \in Events : received'[f] \subseteq received[f] \cup ({row[f].meta} \ {0})
      /\ p = "ack" => received'[e] # {}
  <2>1. CASE received' = received /\ p # "ack"
    BY <1>1, <2>1
  <2>2. CASE received' = [received EXCEPT ![e] = received[e] \cup {job[w].meta}]
    <3>1. received[e] \cup {job[w].meta} \in SUBSET Nat /\ e \in Events
      BY <1>1
    <3>2. /\ received' \in [Events -> SUBSET Nat]
          /\ received'[e] = received[e] \cup {job[w].meta}
          /\ \A f \in Events \ {e} : received'[f] = received[f]
      BY <1>1, <2>2, <3>1
    <3> QED
      BY <1>7, <3>1, <3>2
  <2> QED
    BY <1>2, <1>3, <2>1, <2>2
<1>9. Typed'
  BY <1>2, <1>6, <1>8 DEF Inv, Typed
<1>10. Sequenced'
  BY <1>2 DEF Inv, Sequenced
<1>11. ReadIsBound'
  BY <1>2, <1>3, <1>5, <1>6 DEF Inv, ReadIsBound
<1>12. Reserved'
  BY <1>1, <1>2, <1>3, <1>5, <1>6 DEF Inv, Reserved
<1>13. Sent'
  BY <1>1, <1>2, <1>3, <1>5, <1>6, <1>8 DEF Inv, Sent
<1>14. Acknowledged'
  BY <1>1, <1>2, <1>3, <1>5, <1>6, <1>8 DEF Inv, Acknowledged, DeliveredWasAccepted
<1> QED
  BY <1>9, <1>10, <1>11, <1>12, <1>13, <1>14 DEF Inv

\* A worker gives up the claim of its event, after it changed other fields.
LEMMA Settles ==
    ASSUME Inv, NEW w \in Workers, Held(w), NEW r \in RowType,
           NextEvent(w, [row EXCEPT ![job[w].event] = r]),
           UNCHANGED <<sequence, received>>,
           job[w].pc \in {"ack", "defer"},
           r.token = NoToken, r.meta = row[job[w].event].meta,
           r.state = "delivered" => received[job[w].event] # {}
    PROVE  Inv'
<1> DEFINE e == job[w].event
           rows == [row EXCEPT ![e] = r]
<1>1. e \in Events /\ row \in [Events -> RowType]
  BY DEF Inv, Typed, JobType
<1>2. \A f \in Events : row[f].state = "delivered" => received[f] # {}
  BY DEF Inv, Acknowledged, DeliveredWasAccepted
<1>3. /\ rows \in [Events -> RowType] /\ rows[e].token = NoToken
      /\ \A f \in Events :
           /\ rows[f].meta = row[f].meta
           /\ rows[f].state = "delivered" => received[f] # {}
           /\ rows[f].token \in {row[f].token, NoToken}
  BY <1>1, <1>2
<1> HIDE DEF rows
<1>4. NextEvent(w, rows)
  BY DEF rows
<1> QED
  BY <1>3, <1>4, NextEventKeepsInv

LEMMA AckKeepsInv ==
    ASSUME Inv, NEW w \in Workers, Ack(w) PROVE Inv'
<1>1. CASE ~Held(w)
  BY <1>1, AbortKeepsInv DEF Ack
<1>2. CASE Held(w)
  <2> DEFINE e == job[w].event
             r1 == [row[e] EXCEPT !.state = "delivered"]
             r2 == [r1 EXCEPT !.token = NoToken]
  <2>1. e \in Events /\ row \in [Events -> RowType] /\ row[e] \in RowType /\ NoToken \in Tokens
    BY DEF Inv, Typed, JobType, Tokens
  <2>2. job[w].pc = "ack" /\ UNCHANGED <<sequence, received>> /\ received[e] # {}
    BY DEF Ack, Inv, Acknowledged
  <2>3. NextEvent(w, [row EXCEPT ![e].state = "delivered", ![e].token = NoToken])
    BY <1>2 DEF Ack
  <2>4. [row EXCEPT ![e].state = "delivered", ![e].token = NoToken] = [row EXCEPT ![e] = r2]
    BY <2>1
  <2>5. NextEvent(w, [row EXCEPT ![e] = r2])
    BY <2>3, <2>4
  <2>6. r1 \in RowType /\ r1.meta = row[e].meta
    BY <2>1, SetState
  <2> HIDE DEF r1
  <2>7. r2 \in RowType /\ r2.meta = row[e].meta /\ r2.token = NoToken
    BY <2>1, <2>6, SetToken
  <2> HIDE DEF r2
  <2> QED
    BY <1>2, <2>2, <2>5, <2>7, Settles
<1> QED
  BY <1>1, <1>2

LEMMA DeferKeepsInv ==
    ASSUME Inv, NEW w \in Workers, Defer(w) PROVE Inv'
<1>1. CASE ~Held(w)
  BY <1>1, AbortKeepsInv DEF Defer
<1>2. CASE Held(w)
  <2> DEFINE e == job[w].event
             wait == IF e \in Poison THEN PoisonDelay ELSE Delay(row[e].attempts)
             attempts == IF row[e].attempts < MaxBackoff THEN row[e].attempts + 1 ELSE MaxBackoff
             r1 == [row[e] EXCEPT !.token = NoToken]
             r2 == [r1 EXCEPT !.wait = wait]
             r3 == [r2 EXCEPT !.attempts = attempts]
  <2>1. /\ e \in Events /\ row \in [Events -> RowType] /\ row[e] \in RowType
        /\ NoToken \in Tokens /\ row[e].attempts \in 0..MaxBackoff
    BY DEF Inv, Typed, JobType, RowType, Tokens
  <2>2. /\ job[w].pc = "defer" /\ UNCHANGED <<sequence, received>>
        /\ row[e].state = "delivered" => received[e] # {}
    BY <2>1 DEF Defer, Inv, Acknowledged, DeliveredWasAccepted
  <2>3. NextEvent(w, [row EXCEPT ![e].token = NoToken, ![e].wait = wait, ![e].attempts = attempts])
    BY <1>2 DEF Defer
  <2>4. wait \in Int
    BY <2>1, EventsAssumption DEF Delay
  <2>5. attempts \in 0..MaxBackoff
    BY <2>1, EventsAssumption
  <2> HIDE DEF wait, attempts
  <2>6. [row EXCEPT ![e].token = NoToken, ![e].wait = wait, ![e].attempts = attempts]
          = [row EXCEPT ![e] = r3]
    BY <2>1
  <2>7. NextEvent(w, [row EXCEPT ![e] = r3])
    BY <2>3, <2>6
  <2>8. r1 \in RowType /\ r1.meta = row[e].meta /\ r1.token = NoToken /\ r1.state = row[e].state
    BY <2>1, SetToken
  <2> HIDE DEF r1
  <2>9. r2 \in RowType /\ r2.meta = r1.meta /\ r2.token = r1.token /\ r2.state = r1.state
    BY <2>4, <2>8, SetWait
  <2> HIDE DEF r2
  <2>10. r3 \in RowType /\ r3.meta = r2.meta /\ r3.token = r2.token /\ r3.state = r2.state
    BY <2>5, <2>9, SetAttempts
  <2> HIDE DEF r3
  <2> QED
    BY <1>2, <2>2, <2>7, <2>8, <2>9, <2>10, Settles
<1> QED
  BY <1>1, <1>2

LEMMA NextKeepsInv == Inv /\ [Next]_vars => Inv'
<1> SUFFICES ASSUME Inv, [Next]_vars PROVE Inv'
  OBVIOUS
<1>1. CASE UNCHANGED vars
  BY <1>1 DEF vars, Inv, Typed, Sequenced, ReadIsBound, Reserved, Sent, Acknowledged,
              DeliveredWasAccepted
<1>2. CASE \E e \in Events : Enqueue(e)
  BY <1>2, EnqueueKeepsInv
<1>3. ASSUME NEW w \in Workers, Crash(w) PROVE Inv'
  BY <1>3, AbortKeepsInv DEF Crash
<1>4. ASSUME NEW w \in Workers, Work(w) PROVE Inv'
  BY <1>4, ClaimKeepsInv, BeginKeepsInv, ReserveKeepsInv, BindKeepsInv, SendKeepsInv,
     AckKeepsInv, DeferKeepsInv DEF Work
<1>5. CASE \E w \in Workers : Stall(w)
  BY <1>5, StallKeepsInv
<1>6. CASE Tick
  BY <1>6, TickKeepsInv
<1> QED
  BY <1>1, <1>2, <1>3, <1>4, <1>5, <1>6 DEF Next

-----------------------------------------------------------------------------

\* The invariant of the outbox holds in every behaviour.
THEOREM InvAlways == Spec => []Inv
  BY InitInv, NextKeepsInv, PTL DEF Spec

\* However claims lapse and are taken over, and whatever times out: every
\* delivery of an event carries the metadata of its first, and no other event
\* is ever delivered with it.
THEOREM MetadataIsStable == Spec => []StableMetadata
<1>1. Inv => StableMetadata
  <2> SUFFICES ASSUME Inv PROVE StableMetadata
    OBVIOUS
  <2>1. \A e \in Events : received[e] \subseteq {row[e].meta} \ {0}
    BY DEF Inv, Sent
  <2>2. \A e, f \in Events : e # f /\ row[e].meta # 0 => row[e].meta # row[f].meta
    BY DEF Inv, Sequenced
  <2> QED
    BY <2>1, <2>2 DEF StableMetadata
<1> QED
  BY <1>1, InvAlways, PTL

\* No outcome of a delivery, and no worker that took over a claim, marks an
\* event delivered that the provider has not accepted.
THEOREM OnlyAcceptedIsDelivered == Spec => []DeliveredWasAccepted
<1>1. Inv => DeliveredWasAccepted
  BY DEF Inv, Acknowledged
<1> QED
  BY <1>1, InvAlways, PTL

-----------------------------------------------------------------------------
(* The claims of a batch. *)

\* A worker that is not stalled holds every event of its batch, with a timeout
\* left for each of them and the slack: nobody else may claim one.
Guarded(w) ==
    /\ job[w].pc = "idle" => job[w].age = 0
    /\ job[w].pc # "idle" /\ job[w].pace = "steady" =>
         /\ job[w].batch # {} /\ job[w].age \in {0, 1}
         /\ job[w].pc # "work" => job[w].event \in job[w].batch
         /\ \A e \in job[w].batch :
              /\ row[e].token = w /\ row[e].state = "queued"
              /\ row[e].left >= Cardinality(job[w].batch) + Slack - job[w].age

Batches == Inv /\ \A w \in Workers : Guarded(w)

LEMMA BatchCounts ==
    ASSUME NEW b \in SUBSET Events
    PROVE  /\ IsFiniteSet(b) /\ Cardinality(b) \in Nat
           /\ b # {} => Cardinality(b) >= 1
           /\ \A e \in b : Cardinality(b \ {e}) = Cardinality(b) - 1
<1>1. IsFiniteSet(b)
  BY EventsAssumption, FS_Subset
<1> QED
  BY <1>1, FS_CardinalityType, FS_EmptySet, FS_RemoveElement

\* A row is left alone where another worker holds its live claim.
Respects(w) ==
    \A e \in Events :
        /\ row[e].token \in Workers \ {w} /\ row[e].state = "queued" /\ row[e].left > 0
        => row'[e].token = row[e].token /\ row'[e].state = "queued" /\ row'[e].left = row[e].left

LEMMA StepGuards ==
    ASSUME Batches, Inv', NEW w \in Workers, NEW j \in JobType, job' = [job EXCEPT ![w] = j],
           Respects(w), j.pc = "idle" => j.age = 0,
           j.pc # "idle" /\ j.pace = "steady" =>
             /\ j.batch # {} /\ j.age \in {0, 1}
             /\ j.pc # "work" => j.event \in j.batch
             /\ \A e \in j.batch :
                  /\ row'[e].token = w /\ row'[e].state = "queued"
                  /\ row'[e].left >= Cardinality(j.batch) + Slack - j.age
    PROVE  Batches'
<1>1. job'[w] = j /\ \A v \in Workers \ {w} : job'[v] = job[v]
  BY JobChanges DEF Batches, Inv
<1>2. Guarded(w)'
  BY <1>1 DEF Guarded
<1>3. ASSUME NEW v \in Workers \ {w} PROVE Guarded(v)'
  <2>1. Guarded(v) /\ job[v].batch \in SUBSET Events
    BY DEF Batches, Inv, Typed, JobType
  <2>2. CASE job[v].pc # "idle" /\ job[v].pace = "steady"
    <3>1. \A e \in job[v].batch : e \in Events /\ row[e].left \in Int /\ row[e].left > 0
      BY <2>1, <2>2, BatchCounts, EventsAssumption DEF Guarded, Batches, Inv, Typed, RowType
    <3>2. \A e \in job[v].batch : row[e].token \in Workers \ {w} /\ row[e].state = "queued"
      BY <2>1, <2>2 DEF Guarded
    <3>3. \A e \in job[v].batch : row'[e].token = row[e].token /\ row'[e].state = "queued"
                                  /\ row'[e].left = row[e].left
      BY <3>1, <3>2 DEF Respects
    <3> QED
      BY <1>1, <2>1, <2>2, <3>3 DEF Guarded
  <2>3. CASE ~(job[v].pc # "idle" /\ job[v].pace = "steady")
    BY <1>1, <2>1, <2>3 DEF Guarded
  <2> QED
    BY <2>2, <2>3
<1> QED
  BY <1>2, <1>3 DEF Batches

\* The batch of a worker ends.
LEMMA ResetGuards ==
    ASSUME Batches, Inv', NEW w \in Workers, Reset(w), Respects(w) PROVE Batches'
<1>1. Idle \in JobType /\ Idle.pc = "idle" /\ Idle.age = 0
  BY IdleIsJob DEF Idle
<1> HIDE DEF Idle
<1> QED
  BY <1>1, StepGuards DEF Reset

\* Nothing but its own claims is touched when a batch ends.
LEMMA ClosedRespects ==
    ASSUME NEW w \in Workers, NEW rows \in [Events -> RowType], row' = Closed(w, rows),
           \A e \in Events : row[e].token # w => rows[e] = row[e],
           \A e \in Events : rows[e].token \in {row[e].token, NoToken}
    PROVE  Respects(w)
  BY ClosedRows DEF Respects

LEMMA AbortGuards ==
    ASSUME Batches, Inv', NEW w \in Workers, Abort(w) PROVE Batches'
<1>1. row \in [Events -> RowType] /\ row' = Closed(w, row) /\ Reset(w)
  BY DEF Batches, Inv, Typed, Abort
<1>2. Respects(w)
  BY <1>1, ClosedRespects
<1> QED
  BY <1>1, <1>2, ResetGuards

\* A worker takes a step that leaves the claims alone.
LEMMA OwnStepGuards ==
    ASSUME Batches, Inv', NEW w \in Workers, NEW j \in JobType, job' = [job EXCEPT ![w] = j],
           \A e \in Events : row'[e].token = row[e].token /\ row'[e].state = row[e].state
                             /\ row'[e].left = row[e].left,
           job[w].pc # "idle", j.pc # "idle", j.batch = job[w].batch, j.age = job[w].age,
           j.pace = "steady" => job[w].pace = "steady",
           j.event \in j.batch \/ j.pc = "work" \/ (j.event = job[w].event /\ job[w].pc # "work")
    PROVE  Batches'
<1>1. Respects(w)
  BY DEF Respects
<1>2. Guarded(w) /\ j.batch \in SUBSET Events
  BY DEF Batches, JobType
<1> QED
  BY <1>1, <1>2, StepGuards DEF Guarded

\* A worker settles its event: the rest of the batch keeps its time.
LEMMA SettlesGuards ==
    ASSUME Batches, Inv', NEW w \in Workers, Held(w), NEW r \in RowType, r.token = NoToken,
           NextEvent(w, [row EXCEPT ![job[w].event] = r]), job[w].pc \in {"ack", "defer"}
    PROVE  Batches'
<1> DEFINE e == job[w].event
           rest == job[w].batch \ {e}
           rows == [row EXCEPT ![e] = r]
           j1 == [job[w] EXCEPT !.pc = "work"]
           j2 == [j1 EXCEPT !.batch = rest]
           j3 == [j2 EXCEPT !.age = 0]
<1>1. /\ e \in Events /\ row \in [Events -> RowType] /\ rows \in [Events -> RowType]
      /\ job \in [Workers -> JobType] /\ job[w] \in JobType /\ row[e].token = w
      /\ rest \in SUBSET Events /\ job[w].batch \in SUBSET Events
  BY DEF Batches, Inv, Typed, JobType, Held
<1>2. /\ \A f \in Events \ {e} : rows[f] = row[f]
      /\ rows[e].token = NoToken
  BY <1>1
<1>3. NextEvent(w, rows)
  OBVIOUS
<1> HIDE DEF rows
<1>4. CASE rest = {}
  <2>1. Reset(w) /\ row' = Closed(w, rows)
    BY <1>3, <1>4 DEF NextEvent
  <2>2. Respects(w)
    BY <1>1, <1>2, <2>1, ClosedRespects
  <2> QED
    BY <2>1, <2>2, ResetGuards
<1>5. CASE rest # {}
  <2>1. row' = rows /\ job' = [job EXCEPT ![w] = j3]
    BY <1>1, <1>3, <1>5 DEF NextEvent
  <2>2. Respects(w)
    BY <1>1, <1>2, <2>1 DEF Respects
  <2>3. j1 \in JobType /\ j1.pc = "work" /\ j1.pace = job[w].pace
    BY <1>1, SetPc DEF Steps
  <2> HIDE DEF j1, rest
  <2>4. j2 \in JobType /\ j2.pc = "work" /\ j2.pace = job[w].pace /\ j2.batch = rest
    BY <1>1, <2>3, SetBatch
  <2> HIDE DEF j2
  <2>5. j3 \in JobType /\ j3.pc = "work" /\ j3.pace = job[w].pace /\ j3.batch = rest /\ j3.age = 0
    BY <2>4, SetAge
  <2> HIDE DEF j3
  <2>6. ASSUME job[w].pace = "steady", NEW f \in rest
        PROVE  /\ row'[f].token = w /\ row'[f].state = "queued"
               /\ row'[f].left >= Cardinality(rest) + Slack - 0
    <3>1. Guarded(w) /\ f \in job[w].batch /\ f \in Events \ {e}
      BY <1>1, <2>6 DEF Batches, rest
    <3>2. /\ row[f].token = w /\ row[f].state = "queued" /\ row[f].left \in Int
          /\ row[f].left >= Cardinality(job[w].batch) + Slack - job[w].age
          /\ job[w].age \in {0, 1} /\ e \in job[w].batch
      BY <1>1, <2>6, <3>1 DEF Guarded, RowType
    <3>3. Cardinality(rest) = Cardinality(job[w].batch) - 1 /\ Cardinality(job[w].batch) \in Nat
      BY <1>1, <3>2, BatchCounts DEF rest
    <3> QED
      BY <1>2, <2>1, <3>1, <3>2, <3>3, EventsAssumption
  <2> QED
    BY <1>5, <2>1, <2>2, <2>5, <2>6, StepGuards
<1> QED
  BY <1>4, <1>5

\* A batch is at most Limit events that nobody else holds in time.
LEMMA ClaimGuards ==
    ASSUME Batches, Inv', NEW w \in Workers, Claim(w) PROVE Batches'
<1> DEFINE m == [e \in Events |-> row[e].meta]
<1>1. /\ row \in [Events -> RowType] /\ job \in [Workers -> JobType] /\ job[w] \in JobType
      /\ job[w].pc = "idle" /\ job[w].age = 0 /\ m \in [Events -> Nat]
  BY DEF Batches, Inv, Typed, RowType, Guarded, Claim
<1> HIDE DEF m
<1>2. PICK batch \in SUBSET {e \in Events : Claimable(e)} :
        /\ batch # {} /\ Cardinality(batch) <= Limit
        /\ row' = [e \in Events |->
                      IF e \in batch THEN [row[e] EXCEPT !.token = w, !.left = ClaimLife]
                      ELSE IF row[e].state = "queued" /\ row[e].left = 0
                      THEN [row[e] EXCEPT !.token = NoToken]
                      ELSE row[e]]
        /\ job' = [job EXCEPT ![w].pc = "work", ![w].batch = batch, ![w].read = m]
  BY DEF Claim, m
<1> DEFINE j1 == [job[w] EXCEPT !.pc = "work"]
           j2 == [j1 EXCEPT !.batch = batch]
           j3 == [j2 EXCEPT !.read = m]
<1>3. job' = [job EXCEPT ![w] = j3]
  BY <1>1, <1>2
<1>4. j1 \in JobType /\ j1.pc = "work" /\ j1.age = 0
  BY <1>1, SetPc DEF Steps
<1> HIDE DEF j1
<1>5. j2 \in JobType /\ j2.pc = "work" /\ j2.age = 0 /\ j2.batch = batch
  BY <1>2, <1>4, SetBatch
<1> HIDE DEF j2
<1>6. j3 \in JobType /\ j3.pc = "work" /\ j3.age = 0 /\ j3.batch = batch
  BY <1>1, <1>5, SetRead
<1> HIDE DEF j3
<1>7. ASSUME NEW e \in batch
      PROVE  row'[e].token = w /\ row'[e].state = "queued" /\ row'[e].left = ClaimLife
  <2>1. row[e] \in RowType /\ row[e].state = "queued" /\ e \in Events
    BY <1>1, <1>2 DEF Claimable
  <2>2. row'[e] = [row[e] EXCEPT !.token = w, !.left = ClaimLife]
    BY <1>2, <2>1
  <2> QED
    BY <2>1, <2>2 DEF RowType
<1>8. Respects(w)
  <2> SUFFICES ASSUME NEW e \in Events, row[e].token \in Workers \ {w}, row[e].state = "queued",
                      row[e].left > 0
               PROVE  row'[e] = row[e]
    BY DEF Respects
  <2>1. row[e].token # NoToken /\ row[e].left \in Int
    BY <1>1, EventsAssumption DEF RowType
  <2>2. row[e].left # 0
    BY <2>1
  <2>3. e \notin batch
    BY <1>2, <2>1, <2>2 DEF Claimable
  <2> QED
    BY <1>2, <2>2, <2>3
<1>9. Cardinality(batch) \in Nat /\ Cardinality(batch) <= Limit
  BY <1>2, BatchCounts
<1>10. ClaimLife >= Cardinality(batch) + Slack - 0
  BY <1>9, EventsAssumption DEF ClaimLife
<1>11. /\ j3.batch # {} /\ j3.age \in {0, 1} /\ j3.pc # "idle" /\ j3.pc = "work"
       /\ \A e \in j3.batch :
            /\ row'[e].token = w /\ row'[e].state = "queued"
            /\ row'[e].left >= Cardinality(j3.batch) + Slack - j3.age
  BY <1>2, <1>6, <1>7, <1>10
<1> QED
  BY <1>3, <1>6, <1>8, <1>11, StepGuards

LEMMA BeginGuards ==
    ASSUME Batches, Inv', NEW w \in Workers, Begin(w) PROVE Batches'
<1>1. /\ job \in [Workers -> JobType] /\ job[w] \in JobType /\ job[w].pc = "work"
      /\ job[w].batch \in SUBSET Events /\ job[w].read \in [Events -> Nat] /\ row' = row
  BY DEF Batches, Inv, Typed, JobType, Begin
<1>2. PICK e \in job[w].batch, p \in {"defer", "reserve", "send"} :
        job' = [job EXCEPT ![w].event = e, ![w].meta = job[w].read[e], ![w].pc = p]
  BY DEF Begin
<1>3. e \in Events /\ job[w].read[e] \in Nat /\ p \in Steps /\ p # "idle"
  BY <1>1, <1>2 DEF Steps
<1> DEFINE j1 == [job[w] EXCEPT !.event = e]
           j2 == [j1 EXCEPT !.meta = job[w].read[e]]
           j3 == [j2 EXCEPT !.pc = p]
<1>4. job' = [job EXCEPT ![w] = j3]
  BY <1>1, <1>2
<1>5. /\ j1 \in JobType /\ j1.event = e /\ j1.batch = job[w].batch /\ j1.age = job[w].age
      /\ j1.pace = job[w].pace
  BY <1>1, <1>3, SetEvent
<1> HIDE DEF j1
<1>6. /\ j2 \in JobType /\ j2.event = e /\ j2.batch = job[w].batch /\ j2.age = job[w].age
      /\ j2.pace = job[w].pace
  BY <1>3, <1>5, SetMeta
<1> HIDE DEF j2
<1>7. /\ j3 \in JobType /\ j3.event = e /\ j3.batch = job[w].batch /\ j3.age = job[w].age
      /\ j3.pace = job[w].pace /\ j3.pc = p
  BY <1>3, <1>6, SetPc
<1> HIDE DEF j3
<1> QED
  BY <1>1, <1>2, <1>3, <1>4, <1>7, OwnStepGuards

LEMMA ReserveGuards ==
    ASSUME Batches, Inv', NEW w \in Workers, Reserve(w) PROVE Batches'
<1>1. CASE ~Held(w)
  BY <1>1, AbortGuards DEF Reserve
<1>2. CASE Held(w)
  <2>1. /\ job \in [Workers -> JobType] /\ job[w] \in JobType /\ sequence \in Nat
        /\ job[w].pc = "reserve" /\ row' = row
        /\ job' = [job EXCEPT ![w].pc = "bind", ![w].meta = sequence]
    BY <1>2 DEF Reserve, Batches, Inv, Typed
  <2> DEFINE j1 == [job[w] EXCEPT !.pc = "bind"]
             j2 == [j1 EXCEPT !.meta = sequence]
  <2>2. job' = [job EXCEPT ![w] = j2]
    BY <2>1
  <2>3. /\ j1 \in JobType /\ j1.pc = "bind" /\ j1.event = job[w].event /\ j1.age = job[w].age
        /\ j1.pace = job[w].pace /\ j1.batch = job[w].batch
    BY <2>1, SetPc DEF Steps
  <2> HIDE DEF j1
  <2>4. /\ j2 \in JobType /\ j2.pc = "bind" /\ j2.event = job[w].event /\ j2.age = job[w].age
        /\ j2.pace = job[w].pace /\ j2.batch = job[w].batch
    BY <2>1, <2>3, SetMeta
  <2> HIDE DEF j2
  <2> QED
    BY <2>1, <2>2, <2>4, OwnStepGuards
<1> QED
  BY <1>1, <1>2

\* A worker changes its program counter.
LEMMA PcGuards ==
    ASSUME Batches, Inv', NEW w \in Workers, NEW p \in Steps \ {"idle", "work"},
           job' = [job EXCEPT ![w].pc = p], job[w].pc \notin {"idle", "work"},
           \A e \in Events : row'[e].token = row[e].token /\ row'[e].state = row[e].state
                             /\ row'[e].left = row[e].left
    PROVE  Batches'
<1> DEFINE j == [job[w] EXCEPT !.pc = p]
<1>1. job[w] \in JobType /\ job' = [job EXCEPT ![w] = j]
  BY DEF Batches, Inv, Typed
<1>2. /\ j \in JobType /\ j.pc = p /\ j.event = job[w].event /\ j.age = job[w].age
      /\ j.pace = job[w].pace /\ j.batch = job[w].batch
  BY <1>1, SetPc
<1> HIDE DEF j
<1>3. /\ j.pc # "idle" /\ job[w].pc # "idle" /\ (j.pace = "steady" => job[w].pace = "steady")
      /\ j.event \in j.batch \/ j.pc = "work" \/ (j.event = job[w].event /\ job[w].pc # "work")
  BY <1>2
<1> QED
  BY <1>1, <1>2, <1>3, OwnStepGuards

LEMMA BindGuards ==
    ASSUME Batches, Inv', NEW w \in Workers, Bind(w) PROVE Batches'
<1>1. CASE ~Held(w)
  BY <1>1, AbortGuards DEF Bind
<1>2. CASE Held(w)
  <2>1. /\ row \in [Events -> RowType] /\ job[w].event \in Events /\ job[w].pc = "bind"
        /\ row' = [row EXCEPT ![job[w].event].meta = job[w].meta]
        /\ job' = [job EXCEPT ![w].pc = "send"] /\ "send" \in Steps \ {"idle", "work"}
    BY <1>2 DEF Bind, Batches, Inv, Typed, JobType, Steps
  <2>2. \A e \in Events : row'[e].token = row[e].token /\ row'[e].state = row[e].state
                          /\ row'[e].left = row[e].left
    BY <2>1 DEF RowType
  <2> QED
    BY <2>1, <2>2, PcGuards
<1> QED
  BY <1>1, <1>2

LEMMA SendGuards ==
    ASSUME Batches, Inv', NEW w \in Workers, Send(w) PROVE Batches'
<1>1. job[w].pc = "send" /\ row' = row
  BY DEF Send
<1>2. PICK p \in {"ack", "defer"} : job' = [job EXCEPT ![w].pc = p]
  BY DEF Send
<1>3. p \in Steps \ {"idle", "work"}
  BY <1>2 DEF Steps
<1> QED
  BY <1>1, <1>2, <1>3, PcGuards

LEMMA AckGuards ==
    ASSUME Batches, Inv', NEW w \in Workers, Ack(w) PROVE Batches'
<1>1. CASE ~Held(w)
  BY <1>1, AbortGuards DEF Ack
<1>2. CASE Held(w)
  <2> DEFINE e == job[w].event
             r1 == [row[e] EXCEPT !.state = "delivered"]
             r2 == [r1 EXCEPT !.token = NoToken]
  <2>1. e \in Events /\ row \in [Events -> RowType] /\ row[e] \in RowType /\ NoToken \in Tokens
    BY DEF Batches, Inv, Typed, JobType, Tokens
  <2>2. /\ job[w].pc = "ack"
        /\ NextEvent(w, [row EXCEPT ![e].state = "delivered", ![e].token = NoToken])
    BY <1>2 DEF Ack
  <2>3. [row EXCEPT ![e].state = "delivered", ![e].token = NoToken] = [row EXCEPT ![e] = r2]
    BY <2>1
  <2>4. NextEvent(w, [row EXCEPT ![e] = r2])
    BY <2>2, <2>3
  <2>5. r1 \in RowType
    BY <2>1, SetState
  <2> HIDE DEF r1
  <2>6. r2 \in RowType /\ r2.token = NoToken
    BY <2>1, <2>5, SetToken
  <2> HIDE DEF r2
  <2> QED
    BY <1>2, <2>2, <2>4, <2>6, SettlesGuards
<1> QED
  BY <1>1, <1>2

LEMMA DeferGuards ==
    ASSUME Batches, Inv', NEW w \in Workers, Defer(w) PROVE Batches'
<1>1. CASE ~Held(w)
  BY <1>1, AbortGuards DEF Defer
<1>2. CASE Held(w)
  <2> DEFINE e == job[w].event
             wait == IF e \in Poison THEN PoisonDelay ELSE Delay(row[e].attempts)
             attempts == IF row[e].attempts < MaxBackoff THEN row[e].attempts + 1 ELSE MaxBackoff
             r1 == [row[e] EXCEPT !.token = NoToken]
             r2 == [r1 EXCEPT !.wait = wait]
             r3 == [r2 EXCEPT !.attempts = attempts]
  <2>1. /\ e \in Events /\ row \in [Events -> RowType] /\ row[e] \in RowType
        /\ NoToken \in Tokens /\ row[e].attempts \in 0..MaxBackoff
    BY DEF Batches, Inv, Typed, JobType, RowType, Tokens
  <2>2. /\ job[w].pc = "defer"
        /\ NextEvent(w, [row EXCEPT ![e].token = NoToken, ![e].wait = wait, ![e].attempts = attempts])
    BY <1>2 DEF Defer
  <2>3. wait \in Int
    BY <2>1, EventsAssumption DEF Delay
  <2>4. attempts \in 0..MaxBackoff
    BY <2>1, EventsAssumption
  <2> HIDE DEF wait, attempts
  <2>5. [row EXCEPT ![e].token = NoToken, ![e].wait = wait, ![e].attempts = attempts]
          = [row EXCEPT ![e] = r3]
    BY <2>1
  <2>6. NextEvent(w, [row EXCEPT ![e] = r3])
    BY <2>2, <2>5
  <2>7. r1 \in RowType /\ r1.token = NoToken
    BY <2>1, SetToken
  <2> HIDE DEF r1
  <2>8. r2 \in RowType /\ r2.token = NoToken
    BY <2>3, <2>7, SetWait
  <2> HIDE DEF r2
  <2>9. r3 \in RowType /\ r3.token = NoToken
    BY <2>4, <2>8, SetAttempts
  <2> HIDE DEF r3
  <2> QED
    BY <1>2, <2>2, <2>6, <2>9, SettlesGuards
<1> QED
  BY <1>1, <1>2

LEMMA StallGuards ==
    ASSUME Batches, Inv', NEW w \in Workers, Stall(w) PROVE Batches'
<1> DEFINE j == [job[w] EXCEPT !.pace = "stalled"]
<1>1. job[w] \in JobType /\ job' = [job EXCEPT ![w] = j] /\ row' = row /\ job[w].pc # "idle"
  BY DEF Batches, Inv, Typed, Stall
<1>2. j \in JobType /\ j.pc = job[w].pc /\ j.pace = "stalled"
  BY <1>1, SetPace
<1> HIDE DEF j
<1>3. Respects(w)
  BY <1>1 DEF Respects
<1> QED
  BY <1>1, <1>2, <1>3, StepGuards

LEMMA EnqueueGuards ==
    ASSUME Batches, Inv', NEW e \in Events, Enqueue(e) PROVE Batches'
<1>1. /\ row \in [Events -> RowType] /\ row[e].state = "absent" /\ job' = job
      /\ row' = [row EXCEPT ![e].state = "queued"]
  BY DEF Batches, Inv, Typed, Enqueue
<1>2. \A f \in Events \ {e} : row'[f] = row[f]
  BY <1>1
<1>3. ASSUME NEW w \in Workers PROVE Guarded(w)'
  <2>1. Guarded(w) /\ job[w].batch \in SUBSET Events
    BY DEF Batches, Inv, Typed, JobType
  <2> QED
    BY <1>1, <1>2, <2>1 DEF Guarded
<1> QED
  BY <1>3 DEF Batches

\* A tick costs a worker that is not stalled one of its claim's ticks, and
\* finds it at the start of an event.
LEMMA TickGuards ==
    ASSUME Batches, Inv', Tick PROVE Batches'
<1> DEFINE less(n) == IF n = 0 THEN 0 ELSE n - 1
<1>1. /\ row \in [Events -> RowType] /\ job \in [Workers -> JobType]
      /\ \A w \in Workers : job[w].pc # "idle" => job[w].age = 0 \/ job[w].pace = "stalled"
  BY DEF Batches, Inv, Typed, Tick
<1>2. ASSUME NEW e \in Events
      PROVE  /\ row'[e].token = row[e].token /\ row'[e].state = row[e].state
             /\ row'[e].left = less(row[e].left) /\ row[e].left \in Int
  <2> DEFINE r1 == [row[e] EXCEPT !.left = less(row[e].left)]
             r2 == [r1 EXCEPT !.wait = less(row[e].wait)]
  <2>1. row'[e] = r2
    BY <1>1 DEF Tick, RowType
  <2>2. row[e] \in RowType /\ row[e].left \in Int /\ less(row[e].left) \in Int
        /\ less(row[e].wait) \in Int
    BY <1>1 DEF RowType
  <2> HIDE DEF less
  <2>3. /\ r1 \in RowType /\ r1.token = row[e].token /\ r1.state = row[e].state
        /\ r1.left = less(row[e].left)
    BY <2>2, SetLeft
  <2> HIDE DEF r1
  <2>4. r2.token = r1.token /\ r2.state = r1.state /\ r2.left = r1.left
    BY <2>2, <2>3, SetWait
  <2> HIDE DEF r2
  <2> QED
    BY <2>1, <2>2, <2>3, <2>4
<1>3. ASSUME NEW w \in Workers PROVE Guarded(w)'
  <2> DEFINE j == [job[w] EXCEPT !.age = job[w].age + 1]
  <2>1. /\ Guarded(w) /\ job[w] \in JobType /\ job[w].batch \in SUBSET Events
        /\ job[w].age + 1 \in Int /\ job[w].age \in Int
    BY <1>1 DEF Batches, JobType
  <2>2. /\ j.pc = job[w].pc /\ j.batch = job[w].batch /\ j.event = job[w].event
        /\ j.age = job[w].age + 1 /\ j.pace = job[w].pace
    BY <2>1, SetAge
  <2>3. job'[w] = IF job[w].pc = "idle" \/ job[w].age > ClaimLife THEN job[w] ELSE j
    BY <1>1 DEF Tick
  <2> HIDE DEF j
  <2>4. CASE job[w].pc = "idle"
    BY <2>1, <2>3, <2>4 DEF Guarded
  <2>5. CASE job[w].pc # "idle" /\ job[w].pace = "stalled"
    BY <2>2, <2>3, <2>5 DEF Guarded
  <2>6. CASE job[w].pc # "idle" /\ job[w].pace # "stalled"
    <3>1. job[w].age = 0 /\ job[w].pace = "steady" /\ ClaimLife >= 0
      BY <1>1, <2>1, <2>6, EventsAssumption DEF JobType, ClaimLife
    <3>2. job'[w] = j /\ job'[w].age = 1
      BY <2>2, <2>3, <2>6, <3>1, EventsAssumption DEF ClaimLife
    <3>3. ASSUME NEW e \in job[w].batch
          PROVE  /\ row'[e].token = w /\ row'[e].state = "queued"
                 /\ row'[e].left >= Cardinality(job[w].batch) + Slack - 1
      <4>1. /\ row[e].token = w /\ row[e].state = "queued" /\ e \in Events
            /\ row[e].left >= Cardinality(job[w].batch) + Slack
        BY <2>1, <2>6, <3>1, BatchCounts, EventsAssumption DEF Guarded
      <4>2. Cardinality(job[w].batch) \in Nat
        BY <2>1, BatchCounts
      <4> QED
        BY <1>2, <4>1, <4>2, EventsAssumption
    <3> QED
      BY <2>1, <2>2, <2>6, <3>1, <3>2, <3>3 DEF Guarded
  <2> QED
    BY <2>4, <2>5, <2>6
<1> QED
  BY <1>3 DEF Batches

LEMMA NextGuards == Batches /\ [Next]_vars => Batches'
<1> SUFFICES ASSUME Batches, [Next]_vars PROVE Batches'
  OBVIOUS
<1>1. Inv'
  BY NextKeepsInv DEF Batches
<1>2. CASE UNCHANGED vars
  BY <1>1, <1>2 DEF vars, Batches, Guarded
<1>3. CASE \E e \in Events : Enqueue(e)
  BY <1>1, <1>3, EnqueueGuards
<1>4. ASSUME NEW w \in Workers, Crash(w) PROVE Batches'
  BY <1>1, <1>4, AbortGuards DEF Crash
<1>5. ASSUME NEW w \in Workers, Claim(w) \/ Begin(w) \/ Reserve(w) \/ Bind(w) PROVE Batches'
  BY <1>1, <1>5, ClaimGuards, BeginGuards, ReserveGuards, BindGuards
<1>6. ASSUME NEW w \in Workers, Send(w) \/ Ack(w) \/ Defer(w) PROVE Batches'
  BY <1>1, <1>6, SendGuards, AckGuards, DeferGuards
<1>7. CASE \E w \in Workers : Stall(w)
  BY <1>1, <1>7, StallGuards
<1>8. CASE Tick
  BY <1>1, <1>8, TickGuards
<1> QED
  BY <1>2, <1>3, <1>4, <1>5, <1>6, <1>7, <1>8 DEF Next, Work

\* claim_until is long enough for every delivery of the batch to time out: an
\* event is sent by two workers at once only when one of them is stalled,
\* whatever lapses, crashes or is taken over, for batches of any size.
THEOREM SendersAreAlone == Spec => []OneSender
<1>1. Init => Batches
  <2> SUFFICES ASSUME Init PROVE Batches
    OBVIOUS
  <2>1. \A w \in Workers : job[w].pc = "idle" /\ job[w].age = 0
    BY DEF Init, Idle
  <2> QED
    BY <2>1, InitInv DEF Batches, Guarded
<1>2. Batches => OneSender
  BY DEF Batches, Guarded, OneSender, Inv, Typed, JobType
<1> QED
  BY <1>1, <1>2, NextGuards, PTL DEF Spec
=============================================================================
