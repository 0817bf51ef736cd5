--------------------------- MODULE ProviderEvents ---------------------------
(***************************************************************************)
(* The durable outbox of one provider kind: events are enqueued, claimed   *)
(* in batches by workers (of this process and of other hubs), given their  *)
(* delivery metadata once, delivered with a timeout, and then acknowledged *)
(* or deferred.  Outcome, feedback, operational and deploy webhook workers *)
(* share this lifecycle.                                                   *)
(*                                                                         *)
(* A tick is the timeout of one delivery.  The remaining life of a claim   *)
(* and the remaining wait before the next attempt are counted down.  Every *)
(* claim operation has a fresh token: the token of a batch that ended is   *)
(* Stale.  Enqueueing an event again changes nothing and is left out.  The *)
(* code counts the wait of a failed event from the start of its batch; the *)
(* model counts it from the failure, so an event is due a little later.    *)
(***************************************************************************)
EXTENDS Integers, Sequences, FiniteSets

CONSTANTS
    Events,         \* events of the kind
    Poison,         \* events whose durable envelope does not parse
    Workers,        \* workers that deliver the kind
    NoToken, Stale, \* no claim, the claim of a batch that ended
    Limit,          \* events a batch claims at most
    Slack,          \* 30 seconds of a claim, beyond its deliveries
    MaxBackoff,     \* bound: attempts that still double the delay
    PoisonDelay,    \* one minute, the delay of a poison event
    MaxFaults       \* bound: crashes, stalls, rejections and timeouts

ASSUME EventsAssumption ==
    /\ Events # {} /\ IsFiniteSet(Events) /\ Poison \subseteq Events
    /\ NoToken \notin Workers /\ Stale \notin Workers
    /\ NoToken # Stale
    /\ Limit \in Nat \ {0} /\ Slack \in Nat \ {0} /\ MaxBackoff \in Nat /\ MaxFaults \in Nat
    /\ PoisonDelay \in Nat \ {0}

VARIABLES
    row,        \* the row of each event
    order,      \* the undelivered events, by the time of their next attempt
    sequence,   \* provider_event_sequences: the next sequence
    job,        \* what each worker is doing
    received,   \* history: the metadata each event was accepted with
    faults      \* faults so far

vars == <<row, order, sequence, job, received, faults>>

\* Mutant: the claim does not grow with the batch.
LifeOfOne == Slack

\* claim_until: a timeout for every event of the batch, and the slack.
ClaimLife == Limit + Slack
Delay(attempts) == 2 ^ attempts
MaxWait == IF Delay(MaxBackoff) > PoisonDelay THEN Delay(MaxBackoff) ELSE PoisonDelay
Tokens == Workers \cup {NoToken, Stale}

\* Metadata is the sequence reserved for the event, 0 before it is bound; the
\* time of collection is bound with it.
Rows == [state : {"absent", "queued", "delivered"}, meta : Nat, token : Tokens,
         left : 0..ClaimLife, wait : 0..MaxWait, attempts : 0..MaxBackoff]

\* A worker holds the rest of its batch as it was read, the event it is at,
\* the metadata it delivers, ticks since it began with the event, and whether
\* it is stalled.
Jobs == [pc : {"idle", "work", "reserve", "bind", "send", "ack", "defer"},
         batch : SUBSET Events, read : [Events -> Nat], event : Events, meta : Nat,
         age : 0..ClaimLife + 1, pace : {"steady", "stalled"}]
Idle == [pc |-> "idle", batch |-> {}, read |-> [e \in Events |-> 0],
         event |-> CHOOSE e \in Events : TRUE, meta |-> 0, age |-> 0, pace |-> "steady"]

\* Every variable has its type, and order holds the undelivered events.
TypeOK ==
    /\ row \in [Events -> Rows]
    /\ order \in Seq(Events)
    /\ \A e \in Events :
          row[e].state = "queued" <=> \E n \in 1..Len(order) : order[n] = e
    /\ sequence \in Nat \ {0}
    /\ job \in [Workers -> Jobs]
    /\ received \in [Events -> SUBSET Nat]
    /\ faults \in 0..MaxFaults

Fault == faults < MaxFaults /\ faults' = faults + 1

\* The row is claimed under the token of this worker's batch and undelivered.
Held(w) == row[job[w].event].token = w /\ row[job[w].event].state = "queued"

\* The batch ends, and with it the use of its token.
Closed(w, rows) ==
    [e \in Events |-> IF rows[e].token = w THEN [rows[e] EXCEPT !.token = Stale] ELSE rows[e]]
Reset(w) == job' = [job EXCEPT ![w] = Idle]

\* A store call finds no claimed row: the error ends the batch.
Abort(w) == Reset(w) /\ row' = Closed(w, row)

\* The event is done; the batch goes on, or ends.
NextEvent(w, rows) ==
    LET rest == job[w].batch \ {job[w].event} IN
    IF rest = {}
    THEN Reset(w) /\ row' = Closed(w, rows)
    ELSE /\ job' = [job EXCEPT ![w].pc = "work", ![w].batch = rest, ![w].age = 0]
         /\ row' = rows

\* The order of the next attempts, without e, and with e at its place.
Others(e) == SelectSeq(order, LAMBDA f : f # e)
Insert(e, wait, events) ==
    SelectSeq(events, LAMBDA f : row[f].wait <= wait) \o <<e>>
        \o SelectSeq(events, LAMBDA f : row[f].wait > wait)

-----------------------------------------------------------------------------

\* enqueue_provider_event: the event waits for its first attempt.
Enqueue(e) ==
    /\ row[e].state = "absent"
    /\ row' = [row EXCEPT ![e].state = "queued"]
    /\ order' = Insert(e, 0, order)
    /\ UNCHANGED <<sequence, job, received, faults>>

\* Mutant: the claim of a batch that was aborted is not taken over.
OnlyUnclaimed(e) == row[e].state = "queued" /\ row[e].wait = 0 /\ row[e].token = NoToken

\* Due, and not claimed or claimed by a batch whose time is over.
Claimable(e) ==
    /\ row[e].state = "queued" /\ row[e].wait = 0
    /\ row[e].token = NoToken \/ row[e].left = 0

\* The next attempt of f comes before that of e.
Precedes(f, e) ==
    \E m, n \in 1..Len(order) : m < n /\ order[m] = f /\ order[n] = e

\* claim_provider_events_for_kind, one transaction: expired claims are dropped,
\* and the first Limit events that are due are claimed.
Claim(w) ==
    /\ job[w].pc = "idle"
    /\ \E batch \in SUBSET {e \in Events : Claimable(e)} :
          /\ batch # {} /\ Cardinality(batch) <= Limit
          /\ \A e \in Events \ batch : Claimable(e) =>
                Cardinality(batch) = Limit /\ \A f \in batch : Precedes(f, e)
          /\ row' = [e \in Events |->
                        IF e \in batch THEN [row[e] EXCEPT !.token = w, !.left = ClaimLife]
                        ELSE IF row[e].state = "queued" /\ row[e].left = 0
                        THEN [row[e] EXCEPT !.token = NoToken]
                        ELSE row[e]]
          /\ job' = [job EXCEPT ![w].pc = "work", ![w].batch = batch,
                                ![w].read = [e \in Events |-> row[e].meta]]
    /\ UNCHANGED <<order, sequence, received, faults>>

\* deliver_optional_event: a poison event is deferred, one without metadata
\* gets it first.
Begin(w) ==
    /\ job[w].pc = "work"
    /\ \E e \in job[w].batch :
          job' = [job EXCEPT ![w].event = e, ![w].meta = job[w].read[e],
                             ![w].pc = CASE e \in Poison -> "defer"
                                         [] e \notin Poison /\ job[w].read[e] = 0 -> "reserve"
                                         [] OTHER -> "send"]
    /\ UNCHANGED <<row, order, sequence, received, faults>>

\* reserve_provider_event_sequence.
Reserve(w) ==
    /\ job[w].pc = "reserve"
    /\ \/ /\ Held(w)
          /\ job' = [job EXCEPT ![w].pc = "bind", ![w].meta = sequence]
          /\ sequence' = sequence + 1
          /\ UNCHANGED row
       \/ ~Held(w) /\ Abort(w) /\ UNCHANGED sequence
    /\ UNCHANGED <<order, received, faults>>

\* Mutant: the row is updated whoever holds its claim.
BindUnclaimed(w) ==
    /\ job[w].pc = "bind"
    /\ row' = [row EXCEPT ![job[w].event].meta = job[w].meta]
    /\ job' = [job EXCEPT ![w].pc = "send"]
    /\ UNCHANGED <<order, sequence, received, faults>>

\* bind_provider_event_collection_time.
Bind(w) ==
    /\ job[w].pc = "bind"
    /\ \/ /\ Held(w)
          /\ row' = [row EXCEPT ![job[w].event].meta = job[w].meta]
          /\ job' = [job EXCEPT ![w].pc = "send"]
       \/ ~Held(w) /\ Abort(w)
    /\ UNCHANGED <<order, sequence, received, faults>>

Accept(w) == received' = [received EXCEPT ![job[w].event] = @ \cup {job[w].meta}]

\* Mutant: a timeout counts as a delivery.
SendTrusting(w) ==
    /\ job[w].pc = "send"
    /\ \/ Accept(w) /\ UNCHANGED faults
       \/ UNCHANGED received /\ Fault
    /\ job' = [job EXCEPT ![w].pc = "ack"]
    /\ UNCHANGED <<row, order, sequence>>

\* The provider accepts and answers in time; accepts, and the answer is late;
\* or does not accept.
Send(w) ==
    /\ job[w].pc = "send"
    /\ \/ Accept(w) /\ job' = [job EXCEPT ![w].pc = "ack"] /\ UNCHANGED faults
       \/ Accept(w) /\ job' = [job EXCEPT ![w].pc = "defer"] /\ Fault
       \/ UNCHANGED received /\ job' = [job EXCEPT ![w].pc = "defer"] /\ Fault
    /\ UNCHANGED <<row, order, sequence>>

\* mark_provider_event_delivered.
Ack(w) ==
    /\ job[w].pc = "ack"
    /\ \/ /\ Held(w)
          /\ NextEvent(w, [row EXCEPT ![job[w].event].state = "delivered",
                                      ![job[w].event].token = NoToken])
          /\ order' = Others(job[w].event)
       \/ ~Held(w) /\ Abort(w) /\ UNCHANGED order
    /\ UNCHANGED <<sequence, received, faults>>

\* record_provider_failure: the claim is given up, and the event waits, twice
\* as long after every attempt.
Defer(w) ==
    /\ job[w].pc = "defer"
    /\ \/ LET e == job[w].event
              wait == IF e \in Poison THEN PoisonDelay ELSE Delay(row[e].attempts)
              attempts == IF row[e].attempts < MaxBackoff THEN row[e].attempts + 1 ELSE MaxBackoff
          IN /\ Held(w)
             /\ NextEvent(w, [row EXCEPT ![e].token = NoToken, ![e].wait = wait,
                                         ![e].attempts = attempts])
             /\ order' = Insert(e, wait, Others(e))
       \/ ~Held(w) /\ Abort(w) /\ UNCHANGED order
    /\ UNCHANGED <<sequence, received, faults>>

\* The process of a worker dies.
Crash(w) ==
    /\ job[w].pc # "idle" /\ Fault
    /\ Abort(w)
    /\ UNCHANGED <<order, sequence, received>>

\* A worker is slow: its delivery lasts longer than the timeout.
Stall(w) ==
    /\ job[w].pc # "idle" /\ job[w].pace = "steady" /\ Fault
    /\ job' = [job EXCEPT ![w].pace = "stalled"]
    /\ UNCHANGED <<row, order, sequence, received>>

\* The timeout of one delivery passes; a worker that is not stalled has done
\* with its event by then.
Tick ==
    /\ \A w \in Workers : job[w].pc # "idle" => job[w].age = 0 \/ job[w].pace = "stalled"
    /\ row' = [e \in Events |-> [row[e] EXCEPT !.left = IF @ = 0 THEN 0 ELSE @ - 1,
                                               !.wait = IF @ = 0 THEN 0 ELSE @ - 1]]
    /\ job' = [w \in Workers |->
                  IF job[w].pc = "idle" \/ job[w].age > ClaimLife THEN job[w]
                  ELSE [job[w] EXCEPT !.age = @ + 1]]
    /\ UNCHANGED <<order, sequence, received, faults>>

Init ==
    /\ row = [e \in Events |-> [state |-> "absent", meta |-> 0, token |-> NoToken, left |-> 0,
                                wait |-> 0, attempts |-> 0]]
    /\ order = <<>>
    /\ sequence = 1
    /\ job = [w \in Workers |-> Idle]
    /\ received = [e \in Events |-> {}]
    /\ faults = 0

Work(w) ==
    Claim(w) \/ Begin(w) \/ Reserve(w) \/ Bind(w) \/ Send(w) \/ Ack(w) \/ Defer(w)

Next ==
    \/ \E e \in Events : Enqueue(e)
    \/ \E w \in Workers : Work(w) \/ Crash(w) \/ Stall(w)
    \/ Tick

\* Workers run, and time passes.
Fairness == WF_vars(Tick) /\ \A w \in Workers : WF_vars(Work(w))

Spec == Init /\ [][Next]_vars /\ Fairness

-----------------------------------------------------------------------------
(* Properties. *)

\* A retry, by this worker or by one that took over its claim, repeats the
\* event with the metadata of the first delivery, which no other event has.
StableMetadata ==
    \A e \in Events :
        /\ received[e] \subseteq {row[e].meta} \ {0}
        /\ \A f \in Events \ {e} : received[e] \cap received[f] = {}

\* An event counts as delivered only when the provider accepted it.
DeliveredWasAccepted == \A e \in Events : row[e].state = "delivered" => received[e] # {}

\* The claim of a batch outlives its last delivery: two workers deliver one
\* event at the same time only when one of them is stalled.
OneSender ==
    \A v, w \in Workers :
        /\ v # w
        /\ job[v].pc = "send" /\ job[w].pc = "send"
        /\ job[v].event = job[w].event
        => job[v].pace = "stalled" \/ job[w].pace = "stalled"

\* Rejections, crashes and poison events in front of it delay an event, and
\* do not lose it.
EventuallyDelivered ==
    \A e \in Events \ Poison : row[e].state = "queued" ~> row[e].state = "delivered"
=============================================================================
