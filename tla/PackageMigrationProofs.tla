------------------------ MODULE PackageMigrationProofs ------------------------
(***************************************************************************)
(* Proofs about PackageMigration.  The inductive invariant has two parts.  *)
(* What a record says of its own plans holds of the stored record and of   *)
(* every copy, whatever overlaps.  That the record speaks for the          *)
(* environment holds while no command ran beside another: then the one     *)
(* command that is past its lease has the stored record, or what will      *)
(* become of it.                                                           *)
(***************************************************************************)
EXTENDS PackageMigration, FiniteSetTheorems, TLAPS

Records == [status : Statuses, approved : BOOLEAN, gen : 0..MaxGeneration,
            receipts : Seq(Receipts), pending : 0..MaxPlans, back : 0..MaxPlans]
Jobs == [pc : Pcs, op : Ops, rec : Records]

Types ==
    /\ record \in Records
    /\ lease \in Callers \cup {Nobody}
    /\ locked \in BOOLEAN /\ allowed \in 0..MaxPlans
    /\ plans \in Seq(PlanRecords) /\ Len(plans) <= MaxPlans /\ other \in 0..MaxPlans
    /\ deployed \in Versions
    /\ job \in [Callers -> Jobs]
    /\ faults \in 0..MaxFaults
    /\ cut \in BOOLEAN /\ overlapped \in BOOLEAN /\ crossed \in BOOLEAN

\* Where a command holds the lease, where its copy is the stored record but for
\* what it is about to store, and where it has a plan.
Past == {"next", "create", "pending", "authorize", "apply", "claim", "applying", "applied",
         "erred", "save", "unlock"}
Working == Past \cup {"lock"}
Midway == Working \ {"save", "unlock"}
WithPlan == {"pending", "authorize", "apply", "claim", "applying", "applied", "erred"}

Reverses(j) == j.op = "rollback"
PlanIn(j) == IF Reverses(j) THEN j.rec.back ELSE j.rec.pending

\* A record is consistent with itself and with the plans ps that it names.
Consistent(r, ps) ==
    /\ Len(r.receipts) <= NumCheckpoints
    /\ r.status \in {"absent", "admitted"} => r.receipts = <<>> /\ r.pending = NoPlan
    /\ r.status = "running" => Len(r.receipts) < NumCheckpoints
    /\ r.pending # NoPlan =>
          /\ r.pending <= Len(ps)
          /\ Len(r.receipts) < NumCheckpoints
          /\ Checkpoints[Len(r.receipts) + 1] = "compensating"
          /\ ps[r.pending].for = Len(r.receipts) + 1
    /\ r.back # NoPlan => r.back <= Len(ps) /\ ps[r.back].for = Restore
    /\ \A k \in DOMAIN r.receipts :
          /\ r.status = "rolled_back" => r.receipts[k].result = "rolled_back"
          /\ r.status # "rolled_back" => r.receipts[k].result = "accepted"
          /\ r.receipts[k].result = "accepted" /\ Checkpoints[k] = "compensating" =>
                /\ r.receipts[k].plan \in DOMAIN ps
                /\ ps[r.receipts[k].plan].for = k
                /\ ps[r.receipts[k].plan].done

\* A command's copy, and the plan it works on.
Own(j, ps) ==
    /\ Consistent(j.rec, ps)
    /\ j.pc = "approve" => j.rec.status = "admitted"
    /\ j.pc = "lease" => j.op # "approve"
    /\ j.pc \in Midway => j.rec.status # "rolled_back"
    /\ j.pc \in Midway /\ ~Reverses(j) => j.rec.status = "running"
    /\ j.pc = "create" /\ ~Reverses(j) =>
          j.rec.pending = NoPlan /\ Checkpoints[Len(j.rec.receipts) + 1] = "compensating"
    /\ j.pc \in WithPlan => PlanIn(j) # NoPlan
    /\ j.pc \in WithPlan \cup {"create"} /\ Reverses(j) => ~Crossed(j.rec)
    /\ j.pc = "applying" => ps[PlanIn(j)].state = "running"
    /\ j.pc = "applied" => ps[PlanIn(j)].done

\* The part that holds whatever overlaps.
Shared ==
    /\ \A p \in DOMAIN plans :
          /\ plans[p].for # Restore => Checkpoints[plans[p].for] = "compensating"
          /\ plans[p].state = "succeeded" => plans[p].done
    /\ Consistent(record, plans)
    /\ \A c \in Callers : Own(job[c], plans)
    /\ \A c, d \in Callers : At(c, "applying") /\ At(d, "applying") => c = d
    /\ other # NoPlan =>
          other \in DOMAIN plans /\ plans[other].stray /\ \A c \in Callers : ~At(c, "applying")

\* The plans that the migration ran, and that nobody else did.
Ran(p) == Started(p) /\ ~plans[p].stray
NoStrays == \A p \in DOMAIN plans : ~plans[p].stray

\* A record speaks for the environment: until it is rolled back it names every
\* plan of a checkpoint that the migration ran, and shows that something was
\* attempted; once it is, the source was restored.  It keeps what cannot be
\* undone.
Speaks(r) ==
    /\ r.status # "rolled_back" =>
          \A p \in DOMAIN plans : Ran(p) /\ plans[p].for # Restore =>
             \/ p = r.pending
             \/ plans[p].for \in DOMAIN r.receipts /\ r.receipts[plans[p].for].plan = p
    /\ \A q \in DOMAIN plans : Ran(q) =>
          IF r.status # "rolled_back" THEN Attempted(r)
          ELSE /\ \E p \in PlansFor(Restore) : plans[p].done
               /\ locked /\ NoStrays => deployed = "source"
    /\ crossed => Crossed(r)

\* A command that is past its lease, against the stored record and the lock.
Follows(j) ==
    /\ j.pc \in Midway => record.receipts = j.rec.receipts /\ record.status # "rolled_back"
    /\ j.pc \in Midway /\ (j.pc # "pending" \/ Reverses(j)) => record.pending = j.rec.pending
    /\ j.pc \in WithPlan \cup {"create"} /\ Reverses(j) => Attempted(j.rec)
    /\ j.pc = "applied" /\ Reverses(j) /\ locked /\ NoStrays => deployed = "source"
    /\ j.pc \in Midway \ {"lock"} => locked
    /\ j.pc = "save" /\ j.rec.status = "running" => locked
    /\ j.pc = "unlock" => record.status # "running"

\* A checkpoint's target is applied by one plan.
Once ==
    \A p, q \in DOMAIN plans :
       Ran(p) /\ Ran(q) /\ plans[p].for = plans[q].for /\ plans[p].for # Restore => p = q

\* The lock is held for a migration that runs; and then for a command, or for a
\* migration that is not over.
LockHeld ==
    /\ record.status = "running" => locked
    /\ ~cut /\ locked =>
          \/ record.status \in {"running", "recovery_required"}
          \/ \E c \in Callers : job[c].pc \in Past

Sound ==
    /\ Speaks(record) /\ Once /\ LockHeld
    /\ \A c \in Callers : job[c].pc \in Working =>
          lease = c /\ Speaks(job[c].rec) /\ Follows(job[c])

Inv == Types /\ Shared /\ (overlapped \/ Sound)

-----------------------------------------------------------------------------
(* What the operators on a record do. *)

LEMMA Bounds == NumCheckpoints \in Nat /\ NumCheckpoints > 0 /\ DOMAIN Checkpoints = 1..NumCheckpoints
  BY MigrationAssumption DEF NumCheckpoints

LEMMA AcceptFields ==
    ASSUME NEW r \in Records, NEW plan \in 0..MaxPlans
    PROVE  /\ Accept(r, plan) \in Records
           /\ Accept(r, plan).receipts = Append(r.receipts, [result |-> "accepted", plan |-> plan])
           /\ Accept(r, plan).pending = NoPlan /\ Accept(r, plan).back = NoPlan
           /\ Accept(r, plan).status =
                 IF Len(r.receipts) + 1 = NumCheckpoints THEN "succeeded" ELSE "running"
<1>1. [result |-> "accepted", plan |-> plan] \in Receipts
  BY DEF Receipts
<1>2. Append(r.receipts, [result |-> "accepted", plan |-> plan]) \in Seq(Receipts)
  BY <1>1 DEF Records
<1>3. NoPlan \in 0..MaxPlans
  BY MigrationAssumption DEF NoPlan
<1>. HIDE DEF Receipts, NoPlan
<1>. QED BY <1>2, <1>3 DEF Accept, Records, Statuses

LEMMA RolledBackFields ==
    ASSUME NEW r \in Records
    PROVE  /\ RolledBack(r) \in Records
           /\ Len(RolledBack(r).receipts) = Len(r.receipts)
           /\ DOMAIN RolledBack(r).receipts = DOMAIN r.receipts
           /\ \A k \in DOMAIN r.receipts : RolledBack(r).receipts[k].result = "rolled_back"
           /\ RolledBack(r).pending = NoPlan /\ RolledBack(r).back = NoPlan
           /\ RolledBack(r).status = "rolled_back"
<1>. DEFINE back == [k \in DOMAIN r.receipts |-> [r.receipts[k] EXCEPT !.result = "rolled_back"]]
<1>1. r.receipts \in Seq(Receipts)
  BY DEF Records
<1>2. ASSUME NEW k \in DOMAIN r.receipts
      PROVE  back[k] \in Receipts /\ back[k].result = "rolled_back"
  <2>1. r.receipts[k] \in Receipts
    BY <1>1
  <2>2. back[k] = [r.receipts[k] EXCEPT !.result = "rolled_back"]
    OBVIOUS
  <2>. QED BY <2>1, <2>2 DEF Receipts
<1>3. back \in Seq(Receipts) /\ Len(back) = Len(r.receipts) /\ DOMAIN back = DOMAIN r.receipts
  <2>1. DOMAIN r.receipts = 1..Len(r.receipts) /\ Len(r.receipts) \in Nat
    BY <1>1
  <2>2. back \in [1..Len(r.receipts) -> Receipts]
    BY <1>2, <2>1
  <2>. QED BY <2>1, <2>2
<1>4. NoPlan \in 0..MaxPlans
  BY MigrationAssumption DEF NoPlan
<1>5. RolledBack(r) = [r EXCEPT !.status = "rolled_back", !.pending = NoPlan, !.back = NoPlan,
                                !.receipts = back]
  BY DEF RolledBack
<1>. HIDE DEF back, NoPlan
<1>6. RolledBack(r) \in Records /\ RolledBack(r).receipts = back
  BY <1>3, <1>4, <1>5 DEF Records, Statuses
<1>7. RolledBack(r).pending = NoPlan /\ RolledBack(r).back = NoPlan
      /\ RolledBack(r).status = "rolled_back"
  BY <1>5 DEF Records
<1>. QED BY <1>2, <1>3, <1>6, <1>7

LEMMA StatusFields ==
    ASSUME NEW r \in Records, NEW s \in Statuses
    PROVE  /\ WithStatus(r, s) \in Records
           /\ WithStatus(r, s).receipts = r.receipts
           /\ WithStatus(r, s).pending = r.pending /\ WithStatus(r, s).back = r.back
           /\ WithStatus(r, s).status = s
  BY DEF WithStatus, Records

\* The plans only grow: none changes what it is for or loses its success.
Grows(ps, qs) ==
    /\ Len(ps) <= Len(qs)
    /\ \A p \in DOMAIN ps :
          qs[p].for = ps[p].for /\ (ps[p].done => qs[p].done)

LEMMA GrowthIsConsistent ==
    ASSUME NEW ps \in Seq(PlanRecords), NEW qs \in Seq(PlanRecords), Grows(ps, qs),
           NEW r \in Records, Consistent(r, ps)
    PROVE  Consistent(r, qs)
<1>1. DOMAIN ps \subseteq DOMAIN qs /\ DOMAIN ps = 1..Len(ps)
  BY DEF Grows
<1>2. r.pending \in Nat /\ r.back \in Nat
  BY DEF Records
<1>3. \A p \in DOMAIN ps : qs[p].for = ps[p].for /\ (ps[p].done => qs[p].done)
  BY DEF Grows
<1>4. Len(ps) \in Nat /\ Len(qs) \in Nat /\ Len(ps) <= Len(qs)
  BY DEF Grows
<1>5. r.pending # NoPlan => r.pending \in DOMAIN ps /\ r.pending <= Len(qs)
  BY <1>1, <1>2, <1>4 DEF Consistent, NoPlan
<1>6. r.back # NoPlan => r.back \in DOMAIN ps /\ r.back <= Len(qs)
  BY <1>1, <1>2, <1>4 DEF Consistent, NoPlan
<1>7. ASSUME NEW k \in DOMAIN r.receipts, r.receipts[k].result = "accepted",
             Checkpoints[k] = "compensating"
      PROVE  /\ r.receipts[k].plan \in DOMAIN qs
             /\ qs[r.receipts[k].plan].for = k
             /\ qs[r.receipts[k].plan].done
  <2>1. /\ r.receipts[k].plan \in DOMAIN ps /\ ps[r.receipts[k].plan].for = k
        /\ ps[r.receipts[k].plan].done
    BY <1>7 DEF Consistent
  <2>. QED BY <1>1, <1>3, <2>1
<1>. QED BY <1>3, <1>5, <1>6, <1>7 DEF Consistent

LEMMA AcceptIsConsistent ==
    ASSUME NEW ps \in Seq(PlanRecords), NEW r \in Records, Consistent(r, ps),
           r.status = "running", NEW plan \in 0..MaxPlans,
           Checkpoints[Len(r.receipts) + 1] = "compensating" =>
              /\ plan \in DOMAIN ps /\ ps[plan].for = Len(r.receipts) + 1
              /\ ps[plan].done
    PROVE  Consistent(Accept(r, plan), ps)
<1>. DEFINE a == Accept(r, plan)
            n == Len(r.receipts)
<1>1. /\ a.receipts = Append(r.receipts, [result |-> "accepted", plan |-> plan])
      /\ a.pending = NoPlan /\ a.back = NoPlan
      /\ a.status = IF n + 1 = NumCheckpoints THEN "succeeded" ELSE "running"
  BY AcceptFields
<1>2. r.receipts \in Seq(Receipts) /\ n \in Nat /\ n < NumCheckpoints
  BY DEF Records, Consistent
<1>3. /\ Len(a.receipts) = n + 1 /\ DOMAIN a.receipts = 1..(n + 1)
      /\ a.receipts[n + 1] = [result |-> "accepted", plan |-> plan]
      /\ DOMAIN r.receipts = 1..n
      /\ \A k \in 1..n : a.receipts[k] = r.receipts[k]
  BY <1>1, <1>2
<1>. HIDE DEF a
<1>4. ASSUME NEW k \in DOMAIN a.receipts
      PROVE  /\ a.receipts[k].result = "accepted"
             /\ Checkpoints[k] = "compensating" =>
                   /\ a.receipts[k].plan \in DOMAIN ps
                   /\ ps[a.receipts[k].plan].for = k
                   /\ ps[a.receipts[k].plan].done
  <2>1. CASE k = n + 1
    BY <1>3, <2>1
  <2>2. CASE k \in 1..n
    BY <1>3, <2>2 DEF Consistent
  <2>. QED BY <1>2, <1>3, <2>1, <2>2
<1>5. Len(a.receipts) <= NumCheckpoints
      /\ (a.status = "running" => Len(a.receipts) < NumCheckpoints)
  BY <1>1, <1>2, <1>3, Bounds
<1>6. a.status \notin {"absent", "admitted", "rolled_back"}
  BY <1>1
<1>7. Consistent(a, ps)
  BY <1>1, <1>4, <1>5, <1>6 DEF Consistent
<1>. QED BY <1>7 DEF a

LEMMA RolledBackIsConsistent ==
    ASSUME NEW ps \in Seq(PlanRecords), NEW r \in Records, Consistent(r, ps)
    PROVE  Consistent(RolledBack(r), ps) /\ ~Crossed(RolledBack(r))
  BY RolledBackFields DEF Consistent, Crossed, Accepted

LEMMA StatusIsConsistent ==
    ASSUME NEW ps \in Seq(PlanRecords), NEW r \in Records, Consistent(r, ps), NEW t \in Records,
           t.receipts = r.receipts, t.pending = r.pending, t.back = r.back \/ t.back = NoPlan,
           t.status \notin {"absent", "admitted"},
           t.status = "running" => Len(r.receipts) < NumCheckpoints,
           t.status = "rolled_back" => r.status = "rolled_back" \/ r.receipts = <<>>,
           t.status # "rolled_back" => r.status # "rolled_back"
    PROVE  Consistent(t, ps)
  BY DEF Consistent

-----------------------------------------------------------------------------
(* Steps that only move a command on. *)

LEMMA MoveKeeps ==
    ASSUME Inv, NEW c \in Callers, NEW j \in Jobs, job' = [job EXCEPT ![c] = j],
           UNCHANGED <<record, plans, other, locked, deployed, crossed, cut>>,
           lease' \in Callers \cup {Nobody}, allowed' \in 0..MaxPlans, faults' \in 0..MaxFaults,
           overlapped' \in BOOLEAN, overlapped => overlapped',
           Own(j, plans), j.pc # "applying",
           ~overlapped' /\ j.pc \in Working => lease' = c /\ Speaks(j.rec) /\ Follows(j),
           ~overlapped' => \A d \in Callers \ {c} : lease = d => lease' = d,
           ~overlapped' /\ job[c].pc \in Past => j.pc \in Past
    PROVE  Inv'
<1>1. Types /\ Shared
  BY DEF Inv
<1>2. job'[c] = j /\ \A d \in Callers \ {c} : job'[d] = job[d]
  BY <1>1 DEF Types
<1>3. Types'
  BY <1>1 DEF Types
<1>4. Shared'
  <2>1. \A d \in Callers : Own(job'[d], plans')
    BY <1>1, <1>2 DEF Shared
  <2>2. \A d, e \in Callers : job'[d].pc = "applying" /\ job'[e].pc = "applying" => d = e
    BY <1>1, <1>2 DEF Shared, At
  <2>. QED BY <1>1, <2>1, <2>2 DEF Shared, At
<1>5. ASSUME ~overlapped' PROVE Sound'
  <2>1. Sound
    BY <1>5 DEF Inv
  <2>2. Speaks(record)'
    BY <2>1 DEF Sound, Speaks, Ran, NoStrays, Started, State, Attempted, Accepted, Crossed, PlansFor
  <2>3. Once'
    BY <2>1 DEF Sound, Once, Ran, Started, State
  <2>4. LockHeld'
    BY <1>2, <1>5, <2>1 DEF Sound, LockHeld
  <2>5. ASSUME NEW d \in Callers, job'[d].pc \in Working
        PROVE  lease' = d /\ Speaks(job[d].rec)' /\ Follows(job[d])'
    <3>1. CASE d = c
      <4>1. lease' = c /\ Speaks(j.rec) /\ Follows(j)
        BY <1>2, <1>5, <2>5, <3>1
      <4>2. Speaks(job[d].rec)'
        BY <1>2, <3>1, <4>1
         DEF Speaks, Ran, NoStrays, Started, State, Attempted, Accepted, Crossed, PlansFor
      <4>3. Follows(job[d])'
        BY <1>2, <3>1, <4>1 DEF Follows, NoStrays, State, Attempted, Accepted, PlanIn, Reverses
      <4>. QED BY <3>1, <4>1, <4>2, <4>3
    <3>2. CASE d # c
      <4>1. lease = d /\ Speaks(job[d].rec) /\ Follows(job[d]) /\ job'[d] = job[d]
        BY <1>2, <2>1, <2>5, <3>2 DEF Sound
      <4>2. Speaks(job[d].rec)'
        BY <4>1
         DEF Speaks, Ran, NoStrays, Started, State, Attempted, Accepted, Crossed, PlansFor
      <4>3. Follows(job[d])'
        BY <4>1 DEF Follows, NoStrays, State, Attempted, Accepted, PlanIn, Reverses
      <4>. QED BY <1>5, <3>2, <4>1, <4>2, <4>3
    <3>. QED BY <3>1, <3>2
  <2>. QED BY <2>2, <2>3, <2>4, <2>5 DEF Sound
<1>. QED BY <1>3, <1>4, <1>5 DEF Inv

\* How a command moves.
LEMMA GotoMoves ==
    ASSUME Types, NEW c \in Callers, NEW pc \in Pcs, Goto(c, pc)
    PROVE  \E j \in Jobs : /\ job' = [job EXCEPT ![c] = j]
                           /\ j.pc = pc /\ j.op = job[c].op /\ j.rec = job[c].rec
<1>. DEFINE j == [job[c] EXCEPT !.pc = pc]
<1>1. job[c] \in Jobs
  BY DEF Types
<1>2. j \in Jobs /\ j.pc = pc /\ j.op = job[c].op /\ j.rec = job[c].rec
  BY <1>1 DEF Jobs
<1>3. job' = [job EXCEPT ![c] = j]
  BY DEF Goto, Types
<1>. QED BY <1>2, <1>3

LEMMA UpdateMoves ==
    ASSUME Types, NEW c \in Callers, NEW pc \in Pcs, NEW r \in Records, Update(c, r, pc)
    PROVE  \E j \in Jobs : /\ job' = [job EXCEPT ![c] = j]
                           /\ j.pc = pc /\ j.op = job[c].op /\ j.rec = r
<1>. DEFINE j == [job[c] EXCEPT !.pc = pc, !.rec = r]
<1>1. job[c] \in Jobs
  BY DEF Types
<1>2. j \in Jobs /\ j.pc = pc /\ j.op = job[c].op /\ j.rec = r
  BY <1>1 DEF Jobs
<1>3. job' = [job EXCEPT ![c] = j]
  BY DEF Update, Types
<1>. QED BY <1>2, <1>3

LEMMA NoRecordIsConsistent ==
    NoRecord \in Records /\ \A ps : Consistent(NoRecord, ps)
<1>1. NoRecord.receipts = <<>> /\ NoRecord.pending = NoPlan /\ NoRecord.back = NoPlan
      /\ NoRecord.status = "absent"
  BY DEF NoRecord
<1>2. <<>> \in Seq(Receipts) /\ Len(<<>>) = 0 /\ DOMAIN <<>> = {}
  OBVIOUS
<1>3. NoRecord \in Records
  BY <1>2, MigrationAssumption DEF NoRecord, Records, Statuses, NoPlan
<1>4. \A ps : Consistent(NoRecord, ps)
  BY <1>1, <1>2, Bounds DEF Consistent
<1>. QED BY <1>3, <1>4

LEMMA NoJobIsIdle ==
    NoJob \in Jobs /\ NoJob.pc = "idle" /\ \A ps : Own(NoJob, ps)
<1>1. NoJob \in Jobs
  BY NoRecordIsConsistent DEF NoJob, Jobs, Pcs, Ops
<1>2. NoJob.pc = "idle" /\ NoJob.rec = NoRecord
  BY DEF NoJob
<1>. QED
  BY <1>1, <1>2, NoRecordIsConsistent DEF Own, Midway, Working, Past, WithPlan

LEMMA SaveOwns ==
    ASSUME NEW j, NEW ps, Consistent(j.rec, ps), j.pc \in {"save", "unlock"}
    PROVE  Own(j, ps)
  BY DEF Own, Midway, Working, Past, WithPlan

LEMMA SaveFollows ==
    ASSUME NEW j, j.pc = "save", locked \/ j.rec.status # "running"
    PROVE  Follows(j)
  BY DEF Follows, Midway, Working, Past, WithPlan

\* What a record still says after its command changed it.
LEMMA SpeaksOfStatus ==
    ASSUME NEW r, Speaks(r), NEW t, t.receipts = r.receipts, t.pending = r.pending,
           r.status # "rolled_back", t.status # "rolled_back"
    PROVE  Speaks(t)
  BY DEF Speaks, Attempted, Accepted, Crossed

LEMMA SpeaksOfAccept ==
    ASSUME Types, NEW r \in Records, Consistent(r, plans), Speaks(r),
           r.status = "running", NEW t,
           t.receipts = Append(r.receipts, [result |-> "accepted", plan |-> r.pending]),
           t.pending = NoPlan, t.status # "rolled_back"
    PROVE  Speaks(t)
<1>. DEFINE n == Len(r.receipts)
<1>1. r.receipts \in Seq(Receipts) /\ n \in Nat /\ r.pending \in Nat
  BY DEF Records
<1>2. /\ DOMAIN t.receipts = 1..(n + 1) /\ DOMAIN r.receipts = 1..n
      /\ t.receipts[n + 1] = [result |-> "accepted", plan |-> r.pending]
      /\ \A k \in 1..n : t.receipts[k] = r.receipts[k]
  BY <1>1
<1>. HIDE DEF n
<1>3. r.pending # NoPlan => plans[r.pending].for = n + 1 /\ Checkpoints[n + 1] = "compensating"
  BY DEF Consistent, n
<1>4. ASSUME NEW p \in DOMAIN plans, Ran(p), plans[p].for # Restore
      PROVE  plans[p].for \in DOMAIN t.receipts /\ t.receipts[plans[p].for].plan = p
  <2>1. p # NoPlan
    BY DEF Types, NoPlan
  <2>2. CASE p = r.pending
    BY <1>1, <1>2, <1>3, <2>1, <2>2
  <2>3. CASE plans[p].for \in DOMAIN r.receipts /\ r.receipts[plans[p].for].plan = p
    BY <1>1, <1>2, <2>3
  <2>. QED BY <1>4, <2>2, <2>3 DEF Speaks
<1>5. Accepted(r) \subseteq Accepted(t)
  BY <1>1, <1>2 DEF Accepted
<1>6. Attempted(r) => Attempted(t)
  <2>1. CASE r.pending # NoPlan
    <3>1. n + 1 \in Accepted(t) /\ Checkpoints[n + 1] = "compensating"
      BY <1>1, <1>2, <1>3, <2>1 DEF Accepted
    <3>. QED BY <3>1 DEF Attempted
  <2>2. CASE r.pending = NoPlan
    BY <1>5, <2>2 DEF Attempted
  <2>. QED BY <2>1, <2>2
<1>7. Crossed(r) => Crossed(t)
  BY <1>5 DEF Crossed
<1>. QED BY <1>4, <1>6, <1>7 DEF Speaks

\* A failed command has its record relabelled, or accepted all the same.
LEMMA OutcomeMoves ==
    ASSUME Inv, NEW c \in Callers, job[c].pc \in Midway \ {"lock"}, NEW t,
           t = Outcome(c) \/ (~Back(c) /\ t = WithStatus(Rec(c), "failed")), Update(c, t, "save")
    PROVE  \E j \in Jobs : /\ job' = [job EXCEPT ![c] = j]
                           /\ j.pc = "save" /\ Own(j, plans)
                           /\ ~overlapped => lease = c /\ Speaks(j.rec) /\ Follows(j)
<1>. DEFINE r == Rec(c)
<1>1. Types /\ r \in Records /\ Own(job[c], plans) /\ Consistent(r, plans) /\ plans \in Seq(PlanRecords)
  BY DEF Inv, Types, Shared, Own, Jobs, Rec
<1>2. /\ r.status # "rolled_back"
      /\ ~Back(c) => r.status = "running"
      /\ ~overlapped => lease = c /\ Speaks(r) /\ locked
  BY <1>1 DEF Inv, Own, Sound, Rec, Back, Reverses, Midway, Follows
<1>3. ASSUME NEW s \in {"failed", "recovery_required"}, t = WithStatus(r, s)
      PROVE  t \in Records /\ Consistent(t, plans) /\ (~overlapped => Speaks(t))
  <2>1. /\ t \in Records /\ t.receipts = r.receipts /\ t.pending = r.pending
        /\ t.back = r.back /\ t.status = s
    BY <1>1, <1>3, StatusFields DEF Statuses
  <2>. HIDE DEF r
  <2>2. Consistent(t, plans)
    BY <1>1, <1>2, <2>1, StatusIsConsistent
  <2>3. ~overlapped => Speaks(t)
    BY <1>2, <2>1, SpeaksOfStatus
  <2>. QED BY <2>1, <2>2, <2>3
<1>4. ASSUME ~Back(c), t = AfterError(r), PendingState(r) = "succeeded"
      PROVE  t \in Records /\ Consistent(t, plans) /\ (~overlapped => Speaks(t))
  <2>. DEFINE a == Accept(r, r.pending)
  <2>1. t = [a EXCEPT !.back = r.back]
    BY <1>4 DEF AfterError
  <2>2. r.pending # NoPlan /\ plans[r.pending].state = "succeeded"
    BY <1>4 DEF PendingState, State
  <2>3. r.pending \in 0..MaxPlans /\ r.back \in 0..MaxPlans /\ r.pending \in DOMAIN plans
        /\ plans[r.pending].for = Len(r.receipts) + 1
    BY <1>1, <2>2 DEF Records, Consistent, NoPlan
  <2>9. plans[r.pending].done
    BY <2>2, <2>3 DEF Inv, Shared
  <2>4. /\ a \in Records /\ a.pending = NoPlan
        /\ a.receipts = Append(r.receipts, [result |-> "accepted", plan |-> r.pending])
        /\ a.status \in {"succeeded", "running"}
    BY <1>1, <2>3, AcceptFields
  <2>5. Consistent(a, plans)
    BY <1>1, <1>2, <1>4, <2>3, <2>9, AcceptIsConsistent
  <2>. HIDE DEF a
  <2>6. /\ t \in Records /\ t.receipts = a.receipts /\ t.pending = a.pending
        /\ t.status = a.status /\ t.back = r.back
    BY <2>1, <2>3, <2>4 DEF Records
  <2>7. Consistent(t, plans)
    BY <1>1, <2>5, <2>6 DEF Consistent
  <2>8. ~overlapped => Speaks(t)
    BY <1>1, <1>2, <1>4, <2>4, <2>6, SpeaksOfAccept
  <2>. QED BY <2>6, <2>7, <2>8
<1>5. t \in Records /\ Consistent(t, plans) /\ (~overlapped => Speaks(t))
  <2>1. CASE t = WithStatus(r, "failed")
    BY <1>3, <2>1
  <2>2. CASE t = WithStatus(r, "recovery_required")
    BY <1>3, <2>2
  <2>3. CASE ~Back(c) /\ t = AfterError(r)
    BY <1>4, <2>1, <2>2, <2>3 DEF AfterError
  <2>. QED BY <2>1, <2>2, <2>3 DEF Outcome
<1>6. PICK j \in Jobs : job' = [job EXCEPT ![c] = j] /\ j.pc = "save" /\ j.rec = t
  BY <1>1, <1>5, UpdateMoves DEF Pcs
<1>7. Own(j, plans)
  BY <1>5, <1>6, SaveOwns
<1>8. ~overlapped => Follows(j)
  BY <1>2, <1>6, SaveFollows
<1>. QED BY <1>2, <1>5, <1>6, <1>7, <1>8

LEMMA FailedMoves ==
    ASSUME Inv, NEW c \in Callers, job[c].pc \in Midway \ {"lock"}, Failed(c)
    PROVE  /\ \E j \in Jobs : /\ job' = [job EXCEPT ![c] = j]
                              /\ j.pc = "save" /\ Own(j, plans)
                              /\ ~overlapped => lease = c /\ Speaks(j.rec) /\ Follows(j)
           /\ UNCHANGED <<lease, cut, overlapped>> /\ faults' \in 0..MaxFaults
<1>1. \/ Update(c, Outcome(c), "save")
      \/ ~Back(c) /\ Update(c, WithStatus(Rec(c), "failed"), "save")
  BY DEF Failed
<1>2. faults \in 0..MaxFaults /\ MaxFaults \in Nat
  BY MigrationAssumption DEF Inv, Types
<1>3. UNCHANGED <<lease, cut, overlapped>> /\ faults' \in 0..MaxFaults
  BY <1>2 DEF Failed, Update, Smooth, trouble, StoreFault, Fault
<1>. QED BY <1>1, <1>3, OutcomeMoves

LEMMA LoadKeeps ==
    ASSUME Inv, NEW c \in Callers, NEW op \in Ops, Load(c, op) PROVE Inv'
<1>. DEFINE j == [pc |-> IF op = "approve" THEN "approve" ELSE "lease", op |-> op, rec |-> record]
<1>1. Types /\ record \in Records /\ Consistent(record, plans)
  BY DEF Inv, Types, Shared
<1>2. j \in Jobs /\ j.pc = IF op = "approve" THEN "approve" ELSE "lease"
  BY <1>1 DEF Jobs, Pcs
<1>3. j.op = op /\ j.rec = record
  OBVIOUS
<1>4. /\ job' = [job EXCEPT ![c] = j]
      /\ op = "approve" => record.status = "admitted"
      /\ UNCHANGED <<record, plans, other, locked, deployed, crossed, cut, lease, allowed, faults,
                     overlapped>>
      /\ job[c].pc = "idle"
  BY DEF Load, Local, Still, Unsaved, Smooth, trouble, lock, At
<1>. HIDE DEF j
<1>5. Own(j, plans)
  BY <1>1, <1>2, <1>3, <1>4 DEF Own, Midway, Working, Past, WithPlan
<1>6. j.pc # "applying" /\ j.pc \notin Working /\ job[c].pc \notin Past
  BY <1>2, <1>4 DEF Working, Past
<1>. QED
  BY <1>1, <1>2, <1>4, <1>5, <1>6, MoveKeeps DEF Types

\* A command ends.
LEMMA EndMoves ==
    ASSUME Inv, NEW c \in Callers, End(c)
    PROVE  /\ job' = [job EXCEPT ![c] = NoJob]
           /\ lease' \in Callers \cup {Nobody}
           /\ \A d \in Callers \ {c} : lease = d => lease' = d
<1>1. Types
  BY DEF Inv
<1>. QED BY <1>1 DEF End, Types

LEMMA EndKeeps ==
    ASSUME Inv, NEW c \in Callers, End(c), job[c].pc \notin Past,
           UNCHANGED <<record, plans, other, locked, deployed, crossed, cut, allowed, faults,
                       overlapped>>
    PROVE  Inv'
<1>1. Types
  BY DEF Inv
<1>2. NoJob \in Jobs /\ NoJob.pc # "applying" /\ NoJob.pc \notin Working /\ Own(NoJob, plans)
  BY NoJobIsIdle DEF Working, Past
<1>. QED BY <1>1, <1>2, EndMoves, MoveKeeps DEF Types

\* The record that a command starts with.
LEMMA EnterMoves ==
    ASSUME Inv, NEW c \in Callers, At(c, "lease"), Startable(job[c].op, Rec(c)), Enter(c)
    PROVE  \E j \in Jobs :
              /\ job' = [job EXCEPT ![c] = j]
              /\ j.pc \in {"save", "lock"} /\ j.op = job[c].op
              /\ j.rec.receipts = Rec(c).receipts /\ j.rec.pending = Rec(c).pending
              /\ Own(j, plans)
              /\ j.rec.status = "rolled_back" => Rec(c).status \in {"admitted", "rolled_back"}
              /\ j.rec.status # "rolled_back" => Rec(c).status # "rolled_back"
              /\ j.pc = "lock" => j.rec.status # "rolled_back"
              /\ j.pc = "save" => j.rec.status = "rolled_back"
<1>. DEFINE r == Rec(c)
            jb == [job[c] EXCEPT !.pc = "save", !.rec.status = "rolled_back"]
            jx == [job[c] EXCEPT !.pc = "lock", !.rec.gen = @ + 1, !.rec.status = "running"]
            jl == [job[c] EXCEPT !.pc = "lock"]
            rb == [r EXCEPT !.status = "rolled_back"]
            rx == [r EXCEPT !.gen = @ + 1, !.status = "running"]
<1>1. Types /\ job[c] \in Jobs /\ r \in Records /\ Own(job[c], plans) /\ Consistent(r, plans)
      /\ plans \in Seq(PlanRecords)
  BY DEF Inv, Types, Shared, Own, Jobs, Rec
<1>2. job[c].op # "approve" /\ (~Back(c) => r.status \in {"admitted", "running"})
  BY <1>1 DEF At, Own, Startable, Rec, Back, Jobs, Ops
<1>3. CASE Back(c) /\ r.status \in {"admitted", "rolled_back"}
  <2>1. job' = [job EXCEPT ![c] = jb]
    BY <1>3 DEF Enter
  <2>2. rb \in Records /\ rb.receipts = r.receipts /\ rb.pending = r.pending /\ rb.back = r.back
        /\ rb.status = "rolled_back"
    BY <1>1 DEF Records, Statuses
  <2>3. jb \in Jobs /\ jb.pc = "save" /\ jb.op = job[c].op /\ jb.rec = rb
    BY <1>1, <2>2 DEF Jobs, Pcs, Rec
  <2>. HIDE DEF jb, rb, r
  <2>4. Consistent(rb, plans)
    BY <1>1, <1>3, <2>2, StatusIsConsistent DEF Consistent
  <2>5. Own(jb, plans)
    BY <2>3, <2>4, SaveOwns
  <2>. QED BY <1>3, <2>1, <2>2, <2>3, <2>5 DEF r
<1>4. CASE ~Back(c) /\ r.status = "admitted"
  <2>1. job' = [job EXCEPT ![c] = jx] /\ jx.rec.gen <= MaxGeneration
    BY <1>4 DEF Enter
  <2>2. jx.rec = rx /\ jx.rec.gen = r.gen + 1 /\ r.gen \in Nat /\ rx.gen = r.gen + 1
    <3>1. r.gen \in Nat /\ rx.gen = r.gen + 1
      BY <1>1 DEF Records
    <3>2. jx.rec = rx
      BY <1>1 DEF Jobs, Rec
    <3>. QED BY <3>1, <3>2
  <2>3. rx.gen \in 0..MaxGeneration
    BY <2>1, <2>2, MigrationAssumption
  <2>4. rx \in Records /\ rx.receipts = r.receipts /\ rx.pending = r.pending /\ rx.back = r.back
        /\ rx.status = "running"
    BY <1>1, <2>2, <2>3 DEF Records, Statuses
  <2>5. jx \in Jobs /\ jx.pc = "lock" /\ jx.op = job[c].op
    BY <1>1, <2>2, <2>4 DEF Jobs, Pcs, Rec
  <2>. HIDE DEF jx, rx, r
  <2>6. r.receipts = <<>> /\ Len(<<>>) < NumCheckpoints
    BY <1>1, <1>4, Bounds DEF Consistent
  <2>7. Consistent(rx, plans)
    BY <1>1, <1>4, <2>4, <2>6, StatusIsConsistent
  <2>8. Own(jx, plans)
    BY <1>4, <2>2, <2>4, <2>5, <2>7 DEF Own, Midway, Working, Past, WithPlan, Reverses, Back
  <2>. QED BY <1>4, <2>1, <2>2, <2>4, <2>5, <2>8 DEF r
<1>5. CASE /\ ~(Back(c) /\ r.status \in {"admitted", "rolled_back"})
           /\ ~(~Back(c) /\ r.status = "admitted")
  <2>1. job' = [job EXCEPT ![c] = jl]
    BY <1>5 DEF Enter
  <2>2. jl \in Jobs /\ jl.pc = "lock" /\ jl.op = job[c].op /\ jl.rec = r
    BY <1>1 DEF Jobs, Pcs, Rec
  <2>. HIDE DEF jl, r
  <2>3. r.status # "rolled_back" /\ (~Back(c) => r.status = "running")
    BY <1>2, <1>5
  <2>4. Own(jl, plans)
    BY <1>1, <2>2, <2>3 DEF Own, Midway, Working, Past, WithPlan, Reverses, Back
  <2>. QED BY <2>1, <2>2, <2>3, <2>4 DEF r
<1>. QED BY <1>3, <1>4, <1>5

LEMMA AcquireLeaseKeeps ==
    ASSUME Inv, NEW c \in Callers, AcquireLease(c) PROVE Inv'
<1>1. Types /\ job[c].pc = "lease" /\ Consistent(record, plans)
      /\ UNCHANGED <<record, plans, other, locked, deployed, crossed, allowed>>
  BY DEF Inv, Shared, AcquireLease, At, Unsaved, lock
<1>2. CASE lease = Nobody /\ Startable(job[c].op, Rec(c)) /\ lease' = c /\ Current(c) /\ Enter(c)
  <2>1. PICK j \in Jobs :
              /\ job' = [job EXCEPT ![c] = j]
              /\ j.pc \in {"save", "lock"} /\ j.op = job[c].op
              /\ j.rec.receipts = Rec(c).receipts /\ j.rec.pending = Rec(c).pending
              /\ Own(j, plans)
              /\ j.rec.status = "rolled_back" => Rec(c).status \in {"admitted", "rolled_back"}
              /\ j.rec.status # "rolled_back" => Rec(c).status # "rolled_back"
              /\ j.pc = "lock" => j.rec.status # "rolled_back"
              /\ j.pc = "save" => j.rec.status = "rolled_back"
    BY <1>1, <1>2, EnterMoves DEF At
  <2>2. /\ faults' \in 0..MaxFaults /\ UNCHANGED cut
        /\ overlapped' = overlapped \/ overlapped' = TRUE
        /\ record = Rec(c) \/ overlapped' = TRUE
    BY <1>1, <1>2, MigrationAssumption DEF Current, Smooth, trouble, Fault, Types
  <2>3. overlapped' \in BOOLEAN /\ (overlapped => overlapped')
    <3>1. overlapped \in BOOLEAN
      BY <1>1 DEF Types
    <3>2. CASE overlapped' = overlapped
      BY <3>1, <3>2
    <3>3. CASE overlapped' = TRUE
      <4>1. overlapped'
        BY <3>3
      <4>. QED BY <3>3, <4>1
    <3>. QED BY <2>2, <3>2, <3>3
  <2>4. ASSUME ~overlapped' PROVE Speaks(j.rec) /\ Follows(j)
    <3>1. record = Rec(c) /\ Speaks(record)
      BY <2>2, <2>3, <2>4 DEF Inv, Sound
    <3>2. Speaks(j.rec)
      <4>1. CASE j.rec.status # "rolled_back"
        BY <2>1, <3>1, <4>1, SpeaksOfStatus
      <4>2. CASE j.rec.status = "rolled_back" /\ record.status = "rolled_back"
        BY <2>1, <3>1, <4>2 DEF Speaks, Crossed, Accepted
      <4>3. CASE j.rec.status = "rolled_back" /\ record.status = "admitted"
        <5>1. record.receipts = <<>> /\ record.pending = NoPlan
          BY <1>1, <4>3 DEF Consistent
        <5>2. Accepted(record) = {} /\ Accepted(j.rec) = {}
          BY <2>1, <3>1, <5>1 DEF Accepted
        <5>3. ~Attempted(record) /\ ~Crossed(record)
          BY <5>1, <5>2 DEF Attempted, Crossed
        <5>. QED BY <3>1, <4>3, <5>3 DEF Speaks
      <4>. QED BY <2>1, <3>1, <4>1, <4>2, <4>3
    <3>4. Follows(j)
      BY <2>1, <3>1 DEF Follows, Midway, Working, Past, WithPlan
    <3>. QED BY <3>2, <3>4
  <2>5. j.pc # "applying" /\ lease' \in Callers \cup {Nobody} /\ allowed' \in 0..MaxPlans
        /\ job[c].pc \notin Past
    BY <1>1, <1>2, <2>1 DEF Types, Past
  <2>6. \A d \in Callers \ {c} : lease = d => lease' = d
    BY <1>2, MigrationAssumption
  <2>. QED
    BY <1>1, <1>2, <2>1, <2>2, <2>3, <2>4, <2>5, <2>6, MoveKeeps
<1>3. CASE End(c) /\ Smooth
  BY <1>1, <1>3, EndKeeps DEF Smooth, trouble, Past
<1>. QED BY <1>2, <1>3 DEF AcquireLease

\* What a command that is past its lease has.
LEMMA MidwayFacts ==
    ASSUME Inv, NEW c \in Callers, job[c].pc \in Midway
    PROVE  /\ Types /\ job[c] \in Jobs /\ Rec(c) \in Records /\ plans \in Seq(PlanRecords)
           /\ Own(job[c], plans) /\ Consistent(Rec(c), plans)
           /\ Rec(c).status # "rolled_back" /\ (~Back(c) => Rec(c).status = "running")
           /\ (job[c].pc \in WithPlan => Plan(c) # NoPlan /\ Plan(c) \in DOMAIN plans)
           /\ ~overlapped => lease = c /\ Speaks(record) /\ Speaks(Rec(c)) /\ Follows(job[c])
           /\ ~overlapped /\ job[c].pc # "lock" => locked
<1>1. Types /\ job[c] \in Jobs /\ Rec(c) \in Records /\ plans \in Seq(PlanRecords)
  BY DEF Inv, Types, Jobs, Rec
<1>2. Own(job[c], plans) /\ Consistent(Rec(c), plans)
  BY DEF Inv, Shared, Own, Rec
<1>3. Rec(c).status # "rolled_back" /\ (~Back(c) => Rec(c).status = "running")
  BY <1>2 DEF Own, Rec, Back, Reverses
<1>4. ASSUME job[c].pc \in WithPlan PROVE Plan(c) # NoPlan /\ Plan(c) \in DOMAIN plans
  <2>1. Plan(c) # NoPlan /\ Plan(c) \in Nat
    BY <1>1, <1>2, <1>4 DEF Own, PlanIn, Plan, Back, Reverses, Rec, Records
  <2>2. Plan(c) <= Len(plans)
    BY <1>2, <2>1 DEF Plan, Consistent
  <2>. QED BY <1>1, <2>1, <2>2 DEF NoPlan
<1>5. ~overlapped => lease = c /\ Speaks(record) /\ Speaks(Rec(c)) /\ Follows(job[c])
  BY DEF Inv, Sound, Midway, Rec
<1>6. ~overlapped /\ job[c].pc # "lock" => locked
  BY <1>5 DEF Follows
<1>. QED BY <1>1, <1>2, <1>3, <1>4, <1>5, <1>6

LEMMA ExecuteCheckpointKeeps ==
    ASSUME Inv, NEW c \in Callers, ExecuteCheckpoint(c) PROVE Inv'
<1>. DEFINE r == Rec(c)
            n == Len(r.receipts)
<1>1. /\ job[c].pc = "next" /\ ~Back(c) /\ job[c].pc \in Midway
      /\ UNCHANGED <<record, plans, other, locked, deployed, crossed, allowed>>
  BY DEF ExecuteCheckpoint, At, Still, Unsaved, lock, Midway, Working, Past
<1>2. /\ Types /\ r \in Records /\ plans \in Seq(PlanRecords) /\ Own(job[c], plans)
      /\ Consistent(r, plans) /\ r.status = "running"
      /\ ~overlapped => lease = c /\ Speaks(r) /\ Follows(job[c]) /\ locked
  BY <1>1, MidwayFacts
<1>3. /\ UNCHANGED <<lease, cut, overlapped>> /\ lease \in Callers \cup {Nobody}
      /\ faults' \in 0..MaxFaults
  <2>1. CASE Failed(c)
    BY <1>1, <1>2, <2>1, FailedMoves DEF Types
  <2>2. CASE ~Failed(c)
    BY <1>2, <2>2 DEF ExecuteCheckpoint, Update, Goto, Types, Smooth, trouble
  <2>. QED BY <2>1, <2>2
<1>4. \E j \in Jobs : /\ job' = [job EXCEPT ![c] = j]
                      /\ j.pc \in Past \ {"applying"} /\ Own(j, plans)
                      /\ ~overlapped => Speaks(j.rec) /\ Follows(j)
  <2>1. CASE Failed(c)
    BY <1>1, <2>1, FailedMoves DEF Past
  <2>2. CASE Checkpoints[n + 1] # "compensating" /\ Update(c, Accept(r, NoPlan), "save")
    <3>1. r.pending = NoPlan /\ r.pending \in 0..MaxPlans
      BY <1>2, <2>2 DEF Consistent, Records
    <3>2. /\ Accept(r, NoPlan) \in Records /\ Accept(r, NoPlan).pending = NoPlan
          /\ Accept(r, NoPlan).receipts
                = Append(r.receipts, [result |-> "accepted", plan |-> r.pending])
          /\ Accept(r, NoPlan).status # "rolled_back"
      BY <1>2, <3>1, AcceptFields
    <3>3. Consistent(Accept(r, NoPlan), plans)
      BY <1>2, <2>2, <3>1, AcceptIsConsistent
    <3>4. ~overlapped => Speaks(Accept(r, NoPlan))
      BY <1>2, <3>2, SpeaksOfAccept
    <3>5. PICK j \in Jobs : /\ job' = [job EXCEPT ![c] = j]
                            /\ j.pc = "save" /\ j.rec = Accept(r, NoPlan)
      BY <1>2, <2>2, <3>2, UpdateMoves DEF Pcs
    <3>6. Own(j, plans) /\ (~overlapped => Follows(j))
      BY <1>2, <3>3, <3>5, SaveOwns, SaveFollows
    <3>. QED BY <3>4, <3>5, <3>6 DEF Past
  <2>3. CASE /\ Checkpoints[n + 1] = "compensating"
             /\ Goto(c, IF r.pending # NoPlan THEN "authorize" ELSE "create")
    <3>1. PICK j \in Jobs :
             /\ job' = [job EXCEPT ![c] = j]
             /\ j.pc = (IF r.pending # NoPlan THEN "authorize" ELSE "create")
             /\ j.op = job[c].op /\ j.rec = job[c].rec
      BY <1>2, <2>3, GotoMoves DEF Pcs
    <3>2. j.rec = r /\ ~Reverses(j)
      BY <1>1, <3>1 DEF Rec, Reverses, Back
    <3>3. Own(j, plans)
      BY <1>2, <2>3, <3>1, <3>2 DEF Own, Midway, Working, Past, WithPlan, PlanIn
    <3>4. ~overlapped => Follows(j)
      BY <1>1, <1>2, <3>1, <3>2 DEF Follows, Midway, Working, Past, WithPlan, Rec
    <3>. QED BY <1>2, <3>1, <3>2, <3>3, <3>4 DEF Past
  <2>. QED BY <2>1, <2>2, <2>3 DEF ExecuteCheckpoint
<1>5. PICK j \in Jobs : /\ job' = [job EXCEPT ![c] = j]
                        /\ j.pc \in Past \ {"applying"} /\ Own(j, plans)
                        /\ ~overlapped => Speaks(j.rec) /\ Follows(j)
  BY <1>4
<1>. QED BY <1>1, <1>2, <1>3, <1>5, MoveKeeps DEF Types, Past

LEMMA AuthorizePlanKeeps ==
    ASSUME Inv, NEW c \in Callers, AuthorizePlan(c) PROVE Inv'
<1>1. /\ job[c].pc = "authorize" /\ job[c].pc \in Midway /\ job[c].pc \in WithPlan
      /\ UNCHANGED <<record, plans, other, locked, deployed, crossed>>
  BY DEF AuthorizePlan, At, Unsaved, Midway, Working, Past, WithPlan
<1>2. /\ Types /\ Own(job[c], plans) /\ Consistent(Rec(c), plans) /\ Plan(c) \in DOMAIN plans
      /\ plans \in Seq(PlanRecords)
      /\ ~overlapped => lease = c /\ Speaks(Rec(c)) /\ Follows(job[c]) /\ locked
  BY <1>1, MidwayFacts
<1>3. /\ UNCHANGED <<lease, cut, overlapped>> /\ lease \in Callers \cup {Nobody}
      /\ faults' \in 0..MaxFaults
      /\ allowed' = Plan(c) \/ allowed' = allowed
  <2>1. CASE Failed(c)
    BY <1>1, <1>2, <2>1, FailedMoves DEF AuthorizePlan, Types
  <2>2. CASE ~Failed(c)
    BY <1>2, <2>2 DEF AuthorizePlan, Goto, Types, Smooth, trouble
  <2>. QED BY <2>1, <2>2
<1>4. allowed' \in 0..MaxPlans
  BY <1>2, <1>3, MigrationAssumption DEF Types
<1>5. \E j \in Jobs : /\ job' = [job EXCEPT ![c] = j]
                      /\ j.pc \in Past \ {"applying"} /\ Own(j, plans)
                      /\ ~overlapped => Speaks(j.rec) /\ Follows(j)
  <2>1. CASE Failed(c)
    BY <1>1, <2>1, FailedMoves DEF Past
  <2>2. CASE Goto(c, "save")
    <3>1. PICK j \in Jobs : job' = [job EXCEPT ![c] = j] /\ j.pc = "save" /\ j.rec = Rec(c)
      BY <1>2, <2>2, GotoMoves DEF Pcs, Rec
    <3>2. Own(j, plans) /\ (~overlapped => Follows(j))
      BY <1>2, <3>1, SaveOwns, SaveFollows
    <3>. QED BY <1>2, <3>1, <3>2 DEF Past
  <2>3. CASE Goto(c, "apply")
    <3>1. PICK j \in Jobs : /\ job' = [job EXCEPT ![c] = j]
                            /\ j.pc = "apply" /\ j.op = job[c].op /\ j.rec = job[c].rec
      BY <1>2, <2>3, GotoMoves DEF Pcs
    <3>2. Own(j, plans)
      BY <1>1, <1>2, <3>1 DEF Own, Midway, Working, Past, WithPlan, PlanIn, Reverses
    <3>3. ~overlapped => Follows(j)
      BY <1>1, <1>2, <3>1 DEF Follows, Midway, Working, Past, WithPlan, Reverses
    <3>. QED BY <1>2, <3>1, <3>2, <3>3 DEF Past, Rec
  <2>. QED BY <2>1, <2>2, <2>3 DEF AuthorizePlan
<1>6. PICK j \in Jobs : /\ job' = [job EXCEPT ![c] = j]
                        /\ j.pc \in Past \ {"applying"} /\ Own(j, plans)
                        /\ ~overlapped => Speaks(j.rec) /\ Follows(j)
  BY <1>5
<1>. QED BY <1>1, <1>2, <1>3, <1>4, <1>6, MoveKeeps DEF Types, Past

LEMMA CheckPlanKeeps ==
    ASSUME Inv, NEW c \in Callers, CheckPlan(c) PROVE Inv'
<1>1. /\ job[c].pc = "apply" /\ job[c].pc \in Midway /\ job[c].pc \in WithPlan
      /\ UNCHANGED <<record, plans, other, locked, deployed, crossed, allowed>>
  BY DEF CheckPlan, At, Still, Unsaved, lock, Midway, Working, Past, WithPlan
<1>2. /\ Types /\ Own(job[c], plans) /\ Consistent(Rec(c), plans)
      /\ ~overlapped => lease = c /\ Speaks(Rec(c)) /\ Follows(job[c]) /\ locked
  BY <1>1, MidwayFacts
<1>3. /\ UNCHANGED <<lease, cut, overlapped>> /\ lease \in Callers \cup {Nobody}
      /\ faults' \in 0..MaxFaults
  <2>1. CASE Failed(c)
    BY <1>1, <1>2, <2>1, FailedMoves DEF Types
  <2>2. CASE ~Failed(c)
    BY <1>2, <2>2 DEF CheckPlan, Goto, Types, Smooth, trouble
  <2>. QED BY <2>1, <2>2
<1>4. \E j \in Jobs : /\ job' = [job EXCEPT ![c] = j]
                      /\ j.pc \in Past \ {"applying"} /\ Own(j, plans)
                      /\ ~overlapped => Speaks(j.rec) /\ Follows(j)
  <2>1. CASE Failed(c)
    BY <1>1, <2>1, FailedMoves DEF Past
  <2>2. ASSUME NEW pc \in {"claim", "erred"}, Goto(c, pc)
        PROVE  \E j \in Jobs : /\ job' = [job EXCEPT ![c] = j]
                               /\ j.pc \in Past \ {"applying"} /\ Own(j, plans)
                               /\ ~overlapped => Speaks(j.rec) /\ Follows(j)
    <3>1. PICK j \in Jobs : /\ job' = [job EXCEPT ![c] = j]
                            /\ j.pc = pc /\ j.op = job[c].op /\ j.rec = job[c].rec
      BY <1>2, <2>2, GotoMoves DEF Pcs
    <3>2. Own(j, plans)
      BY <1>1, <1>2, <2>2, <3>1 DEF Own, Midway, Working, Past, WithPlan, PlanIn, Reverses
    <3>3. ~overlapped => Follows(j)
      BY <1>1, <1>2, <2>2, <3>1 DEF Follows, Midway, Working, Past, WithPlan, Reverses
    <3>. QED BY <1>2, <2>2, <3>1, <3>2, <3>3 DEF Past, Rec
  <2>. QED BY <2>1, <2>2 DEF CheckPlan
<1>5. PICK j \in Jobs : /\ job' = [job EXCEPT ![c] = j]
                        /\ j.pc \in Past \ {"applying"} /\ Own(j, plans)
                        /\ ~overlapped => Speaks(j.rec) /\ Follows(j)
  BY <1>4
<1>. QED BY <1>1, <1>2, <1>3, <1>5, MoveKeeps DEF Types, Past

LEMMA AfterApplyKeeps ==
    ASSUME Inv, NEW c \in Callers, AfterApply(c) PROVE Inv'
<1>. DEFINE r == Rec(c)
<1>1. /\ job[c].pc \in {"applied", "erred"} /\ job[c].pc \in Midway /\ job[c].pc \in WithPlan
      /\ UNCHANGED <<record, plans, other, locked, deployed, crossed>>
      /\ allowed' = NoPlan \/ allowed' = allowed
  BY DEF AfterApply, At, Unsaved, Midway, Working, Past, WithPlan
<1>2. /\ Types /\ Own(job[c], plans) /\ r \in Records /\ Consistent(r, plans)
      /\ Plan(c) \in DOMAIN plans /\ Plan(c) # NoPlan
      /\ plans \in Seq(PlanRecords) /\ (~Back(c) => r.status = "running")
      /\ ~overlapped => lease = c /\ Speaks(r) /\ Follows(job[c]) /\ locked
  BY <1>1, MidwayFacts
<1>3. /\ UNCHANGED <<lease, cut, overlapped>> /\ lease \in Callers \cup {Nobody}
      /\ allowed' \in 0..MaxPlans /\ faults' \in 0..MaxFaults
  <2>1. allowed' \in 0..MaxPlans /\ faults \in 0..MaxFaults /\ MaxFaults \in Nat
    BY <1>1, <1>2, MigrationAssumption DEF Types, NoPlan
  <2>2. CASE Failed(c)
    BY <1>1, <1>2, <2>1, <2>2, FailedMoves DEF Types
  <2>3. CASE ~Failed(c)
    BY <1>2, <2>1, <2>3
       DEF AfterApply, Update, Types, Smooth, trouble, StoreFault, Fault
  <2>. QED BY <2>1, <2>2, <2>3
<1>4. \E j \in Jobs : /\ job' = [job EXCEPT ![c] = j]
                      /\ j.pc = "save" /\ Own(j, plans)
                      /\ ~overlapped => Speaks(j.rec) /\ Follows(j)
  <2>1. CASE Failed(c)
    BY <1>1, <2>1, FailedMoves
  <2>4. CASE Update(c, Outcome(c), "save")
    BY <1>1, <2>4, OutcomeMoves
  <2>2. CASE /\ At(c, "applied") /\ State(Plan(c)) = "succeeded" /\ ~Back(c)
             /\ Update(c, Accept(r, r.pending), "save")
    <3>1. Plan(c) = r.pending /\ plans[r.pending].done /\ r.pending \in 0..MaxPlans
      BY <1>2, <2>2 DEF Plan, State, Records, Inv, Shared
    <3>2. /\ Accept(r, r.pending) \in Records /\ Accept(r, r.pending).pending = NoPlan
          /\ Accept(r, r.pending).receipts
                = Append(r.receipts, [result |-> "accepted", plan |-> r.pending])
          /\ Accept(r, r.pending).status # "rolled_back"
      BY <1>2, <3>1, AcceptFields
    <3>3. plans[r.pending].for = Len(r.receipts) + 1 /\ r.pending \in DOMAIN plans
      BY <1>2, <3>1 DEF Consistent
    <3>4. Consistent(Accept(r, r.pending), plans)
      BY <1>2, <2>2, <3>1, <3>3, AcceptIsConsistent
    <3>5. ~overlapped => Speaks(Accept(r, r.pending))
      BY <1>2, <2>2, <3>2, SpeaksOfAccept
    <3>6. PICK j \in Jobs : /\ job' = [job EXCEPT ![c] = j]
                            /\ j.pc = "save" /\ j.rec = Accept(r, r.pending)
      BY <1>2, <2>2, <3>2, UpdateMoves DEF Pcs
    <3>7. Own(j, plans) /\ (~overlapped => Follows(j))
      BY <1>2, <3>4, <3>6, SaveOwns, SaveFollows
    <3>. QED BY <3>5, <3>6, <3>7
  <2>3. CASE /\ At(c, "applied") /\ State(Plan(c)) = "succeeded" /\ Back(c)
             /\ Update(c, RolledBack(r), "save")
    <3>1. /\ Plan(c) \in PlansFor(Restore) /\ plans[Plan(c)].done /\ Reverses(job[c])
          /\ ~Crossed(r) /\ (~overlapped /\ locked /\ NoStrays => deployed = "source")
      <4>1. Plan(c) = r.back /\ plans[r.back].for = Restore
        BY <1>2, <2>3 DEF Plan, Consistent
      <4>2. Reverses(job[c]) /\ job[c].pc = "applied"
        BY <2>3 DEF Back, Reverses, At
      <4>3. ~Crossed(r)
        BY <1>1, <1>2, <4>2 DEF Own, Rec
      <4>4. ~overlapped /\ locked /\ NoStrays => deployed = "source"
        BY <1>2, <4>2 DEF Follows
      <4>5. plans[Plan(c)].done
        BY <1>2, <2>3 DEF State, Inv, Shared
      <4>. QED BY <1>2, <4>1, <4>2, <4>3, <4>4, <4>5 DEF PlansFor
    <3>2. RolledBack(r) \in Records /\ RolledBack(r).status = "rolled_back"
      BY <1>2, RolledBackFields
    <3>3. Consistent(RolledBack(r), plans)
      BY <1>2, RolledBackIsConsistent
    <3>4. ASSUME ~overlapped PROVE Speaks(RolledBack(r))
      BY <1>2, <2>3, <3>1, <3>2, <3>4 DEF Speaks
    <3>5. PICK j \in Jobs : /\ job' = [job EXCEPT ![c] = j]
                            /\ j.pc = "save" /\ j.rec = RolledBack(r)
      BY <1>2, <2>3, <3>2, UpdateMoves DEF Pcs
    <3>6. Own(j, plans) /\ (~overlapped => Follows(j))
      BY <1>2, <3>3, <3>5, SaveOwns, SaveFollows
    <3>. QED BY <3>4, <3>5, <3>6
  <2>. QED BY <2>1, <2>2, <2>3, <2>4 DEF AfterApply
<1>5. PICK j \in Jobs : /\ job' = [job EXCEPT ![c] = j]
                        /\ j.pc = "save" /\ Own(j, plans)
                        /\ ~overlapped => Speaks(j.rec) /\ Follows(j)
  BY <1>4
<1>. QED BY <1>1, <1>2, <1>3, <1>5, MoveKeeps DEF Types, Past

LEMMA ReverseKeeps ==
    ASSUME Inv, NEW c \in Callers, Reverse(c) PROVE Inv'
<1>. DEFINE r == Rec(c)
            raised == [r EXCEPT !.gen = @ + 1]
<1>1. /\ job[c].pc = "next" /\ Back(c) /\ job[c].pc \in Midway
      /\ UNCHANGED <<record, plans, other, locked, deployed, crossed, cut, allowed, faults, overlapped>>
  BY DEF Reverse, At, Local, Still, Unsaved, Smooth, trouble, lock, Midway, Working, Past
<1>2. /\ Types /\ r \in Records /\ plans \in Seq(PlanRecords) /\ Own(job[c], plans)
      /\ Consistent(r, plans) /\ r.status # "rolled_back"
      /\ ~overlapped => lease = c /\ Speaks(r) /\ Follows(job[c]) /\ locked
  BY <1>1, MidwayFacts
<1>3. UNCHANGED lease /\ lease \in Callers \cup {Nobody}
  BY <1>2 DEF Reverse, Update, Types
<1>4. ASSUME r.gen < MaxGeneration
      PROVE  /\ raised \in Records /\ raised.receipts = r.receipts /\ raised.pending = r.pending
             /\ raised.back = r.back /\ raised.status = r.status
  <2>1. r.gen \in Nat /\ r.gen + 1 \in 0..MaxGeneration
    BY <1>2, <1>4, MigrationAssumption DEF Records
  <2>. QED BY <1>2, <2>1 DEF Records
<1>5. \E j \in Jobs : /\ job' = [job EXCEPT ![c] = j]
                      /\ j.pc \in Past \ {"applying"} /\ Own(j, plans)
                      /\ ~overlapped => Speaks(j.rec) /\ Follows(j)
  <2>1. ASSUME NEW t \in Records, t.receipts = r.receipts, t.pending = r.pending,
               t.back = r.back, t.status = "recovery_required", Update(c, t, "save")
        PROVE  \E j \in Jobs : /\ job' = [job EXCEPT ![c] = j]
                               /\ j.pc \in Past \ {"applying"} /\ Own(j, plans)
                               /\ ~overlapped => Speaks(j.rec) /\ Follows(j)
    <3>. HIDE DEF r
    <3>1. Consistent(t, plans)
      BY <1>2, <2>1, StatusIsConsistent
    <3>2. ~overlapped => Speaks(t)
      BY <1>2, <2>1, SpeaksOfStatus
    <3>3. PICK j \in Jobs : job' = [job EXCEPT ![c] = j] /\ j.pc = "save" /\ j.rec = t
      BY <1>2, <2>1, UpdateMoves DEF Pcs
    <3>4. Own(j, plans) /\ (~overlapped => Follows(j))
      BY <1>2, <3>1, <3>3, SaveOwns, SaveFollows
    <3>. QED BY <3>2, <3>3, <3>4 DEF Past
  <2>2. CASE Update(c, WithStatus(r, "recovery_required"), "save")
    <3>. DEFINE t == WithStatus(r, "recovery_required")
    <3>1. /\ t \in Records /\ t.receipts = r.receipts /\ t.pending = r.pending
          /\ t.back = r.back /\ t.status = "recovery_required"
      BY <1>2, StatusFields DEF Statuses
    <3>. QED BY <2>1, <2>2, <3>1
  <2>3. CASE r.gen < MaxGeneration /\ Update(c, WithStatus(raised, "recovery_required"), "save")
    <3>. DEFINE t == WithStatus(raised, "recovery_required")
    <3>1. /\ t \in Records /\ t.receipts = r.receipts /\ t.pending = r.pending
          /\ t.back = r.back /\ t.status = "recovery_required"
      <4>. HIDE DEF raised, r
      <4>. QED BY <1>4, <2>3, StatusFields DEF Statuses
    <3>. QED BY <2>1, <2>3, <3>1
  <2>4. CASE /\ r.gen < MaxGeneration /\ ~BeyondRollback(r) /\ Attempted(r)
             /\ Update(c, raised, IF r.back # NoPlan THEN "authorize" ELSE "create")
    <3>. DEFINE pc == IF r.back # NoPlan THEN "authorize" ELSE "create"
    <3>1. pc \in {"authorize", "create"} /\ pc \in Pcs /\ raised \in Records
      BY <1>4, <2>4 DEF Pcs
    <3>2. PICK j \in Jobs : /\ job' = [job EXCEPT ![c] = j]
                            /\ j.pc = pc /\ j.op = job[c].op /\ j.rec = raised
      BY <1>2, <2>4, <3>1, UpdateMoves
    <3>3. /\ j.rec.receipts = r.receipts /\ j.rec.pending = r.pending /\ j.rec.back = r.back
          /\ j.rec.status = r.status /\ Reverses(j)
      BY <1>1, <1>4, <2>4, <3>2 DEF Reverses, Back
    <3>4. r.back # NoPlan => pc = "authorize"
      OBVIOUS
    <3>5. r.back = NoPlan => pc = "create"
      OBVIOUS
    <3>. HIDE DEF raised, r, pc
    <3>6. Consistent(j.rec, plans)
      BY <1>2, <3>3 DEF Consistent
    <3>7. ~Crossed(j.rec) /\ Attempted(j.rec)
      BY <2>4, <3>3 DEF BeyondRollback, Crossed, Attempted, Accepted
    <3>8. Own(j, plans)
      BY <1>2, <3>1, <3>2, <3>3, <3>4, <3>5, <3>6, <3>7
         DEF Own, Midway, Working, Past, WithPlan, PlanIn
    <3>9. ASSUME ~overlapped PROVE Speaks(j.rec) /\ Follows(j)
      <4>1. Speaks(j.rec)
        BY <1>2, <3>3, <3>9, SpeaksOfStatus
      <4>2. record.receipts = r.receipts /\ record.pending = r.pending
            /\ record.status # "rolled_back"
        BY <1>1, <1>2, <3>9 DEF Follows, Midway, Working, Past, Rec, r
      <4>3. Follows(j)
        BY <1>2, <3>1, <3>2, <3>3, <3>7, <3>9, <4>2 DEF Follows, Midway, Working, Past, WithPlan
      <4>. QED BY <4>1, <4>3
    <3>. QED BY <3>1, <3>2, <3>8, <3>9 DEF Past
  <2>5. CASE /\ r.gen < MaxGeneration /\ ~BeyondRollback(r) /\ ~Attempted(r)
             /\ Update(c, RolledBack(raised), "save")
    <3>. DEFINE t == RolledBack(raised)
    <3>. HIDE DEF raised, r
    <3>1. raised \in Records /\ Consistent(raised, plans)
      BY <1>2, <1>4, <2>5 DEF Consistent
    <3>2. t \in Records /\ t.status = "rolled_back" /\ Consistent(t, plans)
      BY <1>2, <3>1, RolledBackFields, RolledBackIsConsistent
    <3>3. ASSUME ~overlapped PROVE Speaks(t)
      <4>1. ~crossed /\ \A q \in DOMAIN plans : ~Ran(q)
        BY <1>2, <2>5, <3>3 DEF Speaks, BeyondRollback
      <4>. QED BY <3>2, <4>1 DEF Speaks
    <3>4. PICK j \in Jobs : job' = [job EXCEPT ![c] = j] /\ j.pc = "save" /\ j.rec = t
      BY <1>2, <2>5, <3>2, UpdateMoves DEF Pcs
    <3>5. Own(j, plans) /\ (~overlapped => Follows(j))
      BY <1>2, <3>2, <3>4, SaveOwns, SaveFollows
    <3>. QED BY <3>3, <3>4, <3>5 DEF Past
  <2>. QED BY <2>2, <2>3, <2>4, <2>5 DEF Reverse
<1>6. PICK j \in Jobs : /\ job' = [job EXCEPT ![c] = j]
                        /\ j.pc \in Past \ {"applying"} /\ Own(j, plans)
                        /\ ~overlapped => Speaks(j.rec) /\ Follows(j)
  BY <1>5
<1>. QED BY <1>1, <1>2, <1>3, <1>6, MoveKeeps DEF Types, Past

-----------------------------------------------------------------------------
(* Steps beside the commands: commands only end, the record is only relabelled, *)
(* and the environment only changes while it is not locked. *)

Relabelled ==
    /\ record'.receipts = record.receipts /\ record'.pending = record.pending
    /\ record'.status = "rolled_back" <=> record.status = "rolled_back"
    /\ record.status \in {"running", "recovery_required"} =>
          record'.status \in {"running", "recovery_required"}
    /\ record'.status = "running" => record.status = "running"
    /\ crossed' => crossed

\* The lock stays and the environment with it, or the lock is released or taken
\* by the only command that works, which ends.
LockMoves ==
    \/ locked' = locked /\ (locked => deployed' = deployed)
    \/ ~locked' /\ record'.status # "running" /\ \A d \in Callers : job'[d].pc \notin Working
    \/ /\ locked' /\ cut' /\ record'.status # "rolled_back"
       /\ \A d \in Callers : job'[d].pc \notin Working

LEMMA BesideKeeps ==
    ASSUME Inv, Types', UNCHANGED <<plans, other>>, Consistent(record', plans),
           \A d \in Callers : job'[d] = job[d] \/ job'[d] = NoJob,
           overlapped => overlapped', cut => cut',
           ~overlapped' => Relabelled /\ LockMoves,
           ~overlapped' => \A d \in Callers : job'[d].pc \in Working /\ lease = d => lease' = d,
           ~overlapped' /\ ~cut' /\ locked' =>
              \A d \in Callers : job[d].pc \in Past => job'[d].pc \in Past
    PROVE  Inv'
<1>1. Types /\ Shared /\ NoJob.pc = "idle" /\ Own(NoJob, plans)
  BY NoJobIsIdle DEF Inv
<1>2. Shared'
  <2>1. \A d \in Callers : Own(job'[d], plans)
    BY <1>1 DEF Shared
  <2>2. \A d \in Callers : job'[d].pc = "applying" => job[d].pc = "applying"
    BY <1>1
  <2>. QED BY <1>1, <2>1, <2>2 DEF Shared, At
<1>3. ASSUME ~overlapped' PROVE Sound'
  <2>1. Sound /\ Relabelled /\ LockMoves
    BY <1>3 DEF Inv
  <2>2. Speaks(record)'
    BY <2>1 DEF Sound, Relabelled, LockMoves, Speaks, Ran, NoStrays, Started, State, Attempted,
       Accepted, Crossed, PlansFor
  <2>3. Once'
    BY <2>1 DEF Sound, Once, Ran, Started, State
  <2>4. LockHeld'
    <3>1. record'.status = "running" => locked'
      BY <2>1 DEF Sound, LockHeld, Relabelled, LockMoves
    <3>2. ASSUME ~cut', locked', record'.status \notin {"running", "recovery_required"}
          PROVE  \E c \in Callers : job'[c].pc \in Past
      <4>1. ~cut /\ record.status \notin {"running", "recovery_required"}
        BY <2>1, <3>2 DEF Relabelled
      <4>2. CASE locked
        <5>1. PICK c \in Callers : job[c].pc \in Past
          BY <2>1, <4>1, <4>2 DEF Sound, LockHeld
        <5>. QED BY <1>3, <3>2, <5>1
      <4>3. CASE ~locked
        BY <2>1, <3>2, <4>1, <4>3 DEF LockMoves
      <4>. QED BY <4>2, <4>3
    <3>. QED BY <3>1, <3>2 DEF LockHeld
  <2>5. ASSUME NEW d \in Callers, job'[d].pc \in Working
        PROVE  lease' = d /\ Speaks(job[d].rec)' /\ Follows(job[d])'
    <3>1. job'[d] = job[d]
      BY <1>1, <2>5 DEF Working, Past
    <3>2. lease = d /\ Speaks(job[d].rec) /\ Follows(job[d])
      BY <2>1, <2>5, <3>1 DEF Sound
    <3>5. locked' = locked /\ (locked => deployed' = deployed)
      BY <2>1, <2>5 DEF LockMoves
    <3>3. Speaks(job[d].rec)'
      BY <2>1, <3>1, <3>2, <3>5
         DEF Relabelled, Speaks, Ran, NoStrays, Started, State, Attempted, Accepted, Crossed, PlansFor
    <3>4. Follows(job[d])'
      BY <2>1, <3>1, <3>2, <3>5
         DEF Relabelled, Follows, NoStrays, State, Attempted, Accepted, PlanIn, Reverses
    <3>. QED BY <1>3, <2>5, <3>2, <3>3, <3>4
  <2>. QED BY <2>2, <2>3, <2>4, <2>5 DEF Sound
<1>. QED BY <1>2, <1>3 DEF Inv

LEMMA AdmitKeeps ==
    ASSUME Inv, Admit PROVE Inv'
<1>. DEFINE r == [NoRecord EXCEPT !.status = "admitted"]
<1>1. Types /\ record = NoRecord /\ record' = r
      /\ UNCHANGED <<plans, other, locked, deployed, crossed, cut, lease, allowed, faults,
                     overlapped, job>>
  BY DEF Inv, Admit, Smooth, trouble, lock
<1>2. r \in Records /\ r.receipts = <<>> /\ r.pending = NoPlan /\ r.back = NoPlan
      /\ r.status = "admitted"
  BY NoRecordIsConsistent DEF NoRecord, Records, Statuses
<1>3. NoRecord.receipts = <<>> /\ NoRecord.pending = NoPlan /\ NoRecord.status = "absent"
  BY DEF NoRecord
<1>. HIDE DEF r
<1>4. Consistent(r, plans)
  BY <1>2, Bounds DEF Consistent
<1>5. Types'
  BY <1>1, <1>2 DEF Types
<1>6. Relabelled /\ LockMoves
  BY <1>1, <1>2, <1>3 DEF Relabelled, LockMoves
<1>. QED BY <1>1, <1>4, <1>5, <1>6, BesideKeeps

LEMMA ApproveKeeps ==
    ASSUME Inv, NEW c \in Callers, Approve(c) PROVE Inv'
<1>. DEFINE r == [Rec(c) EXCEPT !.approved = TRUE]
<1>1. Types /\ job[c] \in Jobs /\ Rec(c) \in Records /\ Consistent(Rec(c), plans)
      /\ job[c].pc = "approve" /\ Rec(c).status = "admitted"
  BY DEF Inv, Types, Shared, Own, Jobs, Rec, Approve, At
<1>2. /\ record' = r /\ crossed' = (crossed \/ Crossed(r)) /\ Current(c) /\ End(c)
      /\ UNCHANGED <<plans, other, locked, deployed, allowed>>
  BY DEF Approve, Store, lock
<1>3. /\ r \in Records /\ r.receipts = Rec(c).receipts /\ r.pending = Rec(c).pending
      /\ r.back = Rec(c).back /\ r.status = "admitted"
  BY <1>1 DEF Records
<1>. HIDE DEF r
<1>4. Consistent(r, plans) /\ ~Crossed(r)
  BY <1>1, <1>3 DEF Consistent, Crossed, Accepted
<1>5. /\ faults' \in 0..MaxFaults /\ UNCHANGED cut
      /\ overlapped' = overlapped \/ overlapped' = TRUE
      /\ record = Rec(c) \/ overlapped' = TRUE
  BY <1>1, <1>2, MigrationAssumption DEF Current, Smooth, trouble, Fault, Types
<1>6. overlapped' \in BOOLEAN /\ (overlapped => overlapped')
  <2>1. overlapped \in BOOLEAN
    BY <1>1 DEF Types
  <2>2. CASE overlapped' = overlapped
    BY <2>1, <2>2
  <2>3. CASE overlapped' = TRUE
    <3>1. overlapped'
      BY <2>3
    <3>. QED BY <2>3, <3>1
  <2>. QED BY <1>5, <2>2, <2>3
<1>7. lease' = lease /\ job' = [job EXCEPT ![c] = NoJob]
  BY <1>1, <1>2 DEF End, At
<1>8. crossed' \in BOOLEAN /\ (crossed' => crossed)
  BY <1>1, <1>2, <1>4, Zenon DEF Types
<1>9. Types'
  BY <1>1, <1>2, <1>3, <1>5, <1>6, <1>7, <1>8, NoJobIsIdle DEF Types
<1>10. ~overlapped' => Relabelled /\ LockMoves
  BY <1>1, <1>2, <1>3, <1>5, <1>8 DEF Relabelled, LockMoves
<1>11. \A d \in Callers : job'[d] = job[d] \/ job'[d] = NoJob
  BY <1>1, <1>7 DEF Types
<1>12. \A d \in Callers : job[d].pc \in Past => job'[d].pc \in Past
  BY <1>1, <1>7 DEF Types, Past
<1>13. Consistent(record', plans)
  BY <1>2, <1>4
<1>. QED BY <1>2, <1>5, <1>6, <1>7, <1>9, <1>10, <1>11, <1>12, <1>13, BesideKeeps

\* No other command is past its lease.
LEMMA WorksAlone ==
    ASSUME Inv, ~overlapped, NEW c \in Callers, job[c].pc \in Working
    PROVE  \A d \in Callers \ {c} : job[d].pc \notin Working
  BY DEF Inv, Sound

LEMMA ReleaseLockKeeps ==
    ASSUME Inv, NEW c \in Callers, ReleaseLock(c) PROVE Inv'
<1>1. Types /\ job[c].pc = "unlock" /\ Consistent(record, plans) /\ End(c)
      /\ locked' = FALSE /\ allowed' = NoPlan
      /\ UNCHANGED <<record, plans, other, deployed, crossed, cut, faults, overlapped>>
  BY DEF Inv, Shared, ReleaseLock, At, Unsaved, Smooth, trouble
<1>2. /\ job' = [job EXCEPT ![c] = NoJob] /\ lease' \in Callers \cup {Nobody}
      /\ \A d \in Callers \ {c} : lease = d => lease' = d
  BY <1>1, EndMoves
<1>3. Types'
  <2>1. locked' \in BOOLEAN
    BY <1>1
  <2>2. allowed' \in 0..MaxPlans
    BY <1>1, MigrationAssumption DEF NoPlan
  <2>3. job' \in [Callers -> Jobs]
    BY <1>1, <1>2, NoJobIsIdle DEF Types
  <2>. QED BY <1>1, <1>2, <2>1, <2>2, <2>3 DEF Types
<1>4. \A d \in Callers : job'[d] = job[d] \/ job'[d] = NoJob
  BY <1>1, <1>2 DEF Types
<1>5. ASSUME ~overlapped PROVE Relabelled /\ LockMoves
  <2>1. record.status # "running"
    BY <1>1, <1>5 DEF Inv, Sound, Follows, Working, Past
  <2>2. \A d \in Callers : job'[d].pc \notin Working
    BY <1>1, <1>2, <1>5, NoJobIsIdle, WorksAlone DEF Types, Working, Past
  <2>3. ~locked'
    BY <1>1
  <2>. QED BY <1>1, <2>1, <2>2, <2>3 DEF Relabelled, LockMoves
<1>6. \A d \in Callers : job'[d].pc \in Working /\ lease = d => lease' = d
  BY <1>1, <1>2, NoJobIsIdle DEF Types, Working, Past
<1>. QED BY <1>1, <1>3, <1>4, <1>5, <1>6, BesideKeeps

LEMMA CrashKeeps ==
    ASSUME Inv, NEW c \in Callers, Crash(c) PROVE Inv'
<1>1. Types /\ Consistent(record, plans) /\ cut' = TRUE /\ faults' \in 0..MaxFaults
      /\ job' = [job EXCEPT ![c] = NoJob]
      /\ UNCHANGED <<record, plans, other, locked, deployed, crossed, allowed, overlapped, lease>>
  BY MigrationAssumption DEF Inv, Types, Shared, Crash, Fault, Unsaved, lock
<1>2. Types'
  BY <1>1, NoJobIsIdle DEF Types
<1>3. \A d \in Callers : job'[d] = job[d] \/ job'[d] = NoJob
  BY <1>1 DEF Types
<1>4. Relabelled /\ LockMoves
  BY <1>1 DEF Relabelled, LockMoves
<1>. QED BY <1>1, <1>2, <1>3, <1>4, BesideKeeps

LEMMA LapseKeeps ==
    ASSUME Inv, Lapse PROVE Inv'
<1>1. Types /\ Consistent(record, plans) /\ lease \in Callers /\ lease' = Nobody
      /\ UNCHANGED <<record, plans, other, locked, deployed, crossed, allowed, job, cut>>
      /\ faults' \in 0..MaxFaults
      /\ \/ overlapped' = overlapped /\ job[lease].pc \notin Working
         \/ overlapped' = TRUE
  BY MigrationAssumption DEF Inv, Types, Shared, Lapse, Fault, Smooth, trouble, Unsaved, lock,
     Working, Past
<1>2. overlapped' \in BOOLEAN /\ (overlapped => overlapped')
  <2>1. overlapped \in BOOLEAN
    BY <1>1 DEF Types
  <2>2. CASE overlapped' = overlapped
    BY <2>1, <2>2
  <2>3. CASE overlapped' = TRUE
    <3>1. overlapped'
      BY <2>3
    <3>. QED BY <2>3, <3>1
  <2>. QED BY <1>1, <2>2, <2>3
<1>3. Types'
  BY <1>1, <1>2 DEF Types
<1>4. Relabelled /\ LockMoves
  BY <1>1 DEF Relabelled, LockMoves
<1>5. ~overlapped' => \A d \in Callers : job'[d].pc \in Working /\ lease = d => lease' = d
  BY <1>1
<1>. QED BY <1>1, <1>2, <1>3, <1>4, <1>5, BesideKeeps

LEMMA OtherApplyKeeps ==
    ASSUME Inv, OtherApply PROVE Inv'
<1>1. Types /\ Consistent(record, plans) /\ locked' = locked /\ ~locked /\ deployed' \in Versions
      /\ UNCHANGED <<record, plans, other, crossed, allowed, job, cut, faults, overlapped, lease>>
  BY DEF Inv, Shared, OtherApply, Smooth, trouble, Unsaved, lock
<1>2. Types'
  BY <1>1 DEF Types
<1>3. Relabelled /\ LockMoves
  BY <1>1 DEF Relabelled, LockMoves
<1>. QED BY <1>1, <1>2, <1>3, BesideKeeps

-----------------------------------------------------------------------------
(* Steps of the one command that works. *)

LEMMA AcquireLockKeeps ==
    ASSUME Inv, NEW c \in Callers, AcquireLock(c) PROVE Inv'
<1>1. /\ job[c].pc = "lock" /\ job[c].pc \in Midway /\ job[c].pc \in Working /\ job[c].pc \notin Past
      /\ UNCHANGED <<record, plans, other, deployed, crossed, allowed, overlapped>>
  BY DEF AcquireLock, At, Unsaved, Smooth, trouble, Midway, Working, Past
<1>2. CASE UNCHANGED locked /\ End(c) /\ Smooth
  BY <1>1, <1>2, EndKeeps DEF Smooth, trouble
<1>4. CASE locked' = TRUE /\ End(c) /\ Fault /\ cut' = TRUE
  <2>1. Types /\ Consistent(record, plans) /\ faults' \in 0..MaxFaults
    BY <1>4, MigrationAssumption DEF Inv, Types, Shared, Fault
  <2>2. /\ job' = [job EXCEPT ![c] = NoJob] /\ lease' \in Callers \cup {Nobody}
        /\ \A d \in Callers \ {c} : lease = d => lease' = d
    BY <1>4, EndMoves
  <2>3. Types'
    <3>1. locked' \in BOOLEAN /\ cut' \in BOOLEAN
      BY <1>4
    <3>2. job' \in [Callers -> Jobs]
      BY <2>1, <2>2, NoJobIsIdle DEF Types
    <3>. QED BY <1>1, <2>1, <2>2, <3>1, <3>2 DEF Types
  <2>4. \A d \in Callers : job'[d] = job[d] \/ job'[d] = NoJob
    BY <2>1, <2>2 DEF Types
  <2>5. ASSUME ~overlapped PROVE Relabelled /\ LockMoves
    <3>1. record.status # "rolled_back"
      BY <1>1, <2>5 DEF Inv, Sound, Follows
    <3>2. \A d \in Callers : job'[d].pc \notin Working
      BY <1>1, <2>1, <2>2, <2>5, NoJobIsIdle, WorksAlone DEF Types, Working, Past
    <3>3. locked' /\ cut'
      BY <1>4
    <3>. QED BY <1>1, <3>1, <3>2, <3>3 DEF Relabelled, LockMoves
  <2>6. \A d \in Callers : job'[d].pc \in Working /\ lease = d => lease' = d
    BY <1>1, <2>1, <2>2, NoJobIsIdle DEF Types, Working, Past
  <2>7. cut' /\ (overlapped => overlapped')
    BY <1>1, <1>4
  <2>. QED BY <1>1, <2>1, <2>3, <2>4, <2>5, <2>6, <2>7, BesideKeeps
<1>3. CASE locked' = TRUE /\ Goto(c, "next") /\ Smooth
  <2>1. /\ Types /\ Own(job[c], plans) /\ Rec(c).status # "rolled_back"
        /\ ~overlapped => lease = c /\ Speaks(record) /\ Speaks(Rec(c)) /\ Follows(job[c])
    BY <1>1, MidwayFacts
  <2>2. PICK j \in Jobs : /\ job' = [job EXCEPT ![c] = j]
                          /\ j.pc = "next" /\ j.op = job[c].op /\ j.rec = job[c].rec
    BY <1>3, <2>1, GotoMoves DEF Pcs
  <2>3. UNCHANGED lease
    BY <1>3 DEF Goto
  <2>4. job'[c] = j /\ \A d \in Callers \ {c} : job'[d] = job[d]
    BY <2>1, <2>2 DEF Types
  <2>5. Types'
    BY <1>1, <1>3, <2>1, <2>2, <2>3 DEF Types, Smooth, trouble
  <2>6. Own(j, plans)
    BY <1>1, <2>1, <2>2 DEF Own, Midway, Working, Past, WithPlan, Reverses
  <2>7. Shared'
    BY <1>1, <2>2, <2>4, <2>6 DEF Inv, Shared, At
  <2>8. ASSUME ~overlapped PROVE Sound'
    <3>1. /\ Once /\ record.status # "rolled_back" /\ Speaks(record) /\ Speaks(j.rec)
          /\ j.rec.status # "rolled_back"
      BY <1>1, <2>1, <2>2, <2>8 DEF Inv, Sound, Follows, Rec
    <3>2. Speaks(record)'
      BY <1>1, <3>1 DEF Speaks, Ran, NoStrays, Started, State, Attempted, Accepted, Crossed
    <3>3. Speaks(job[c].rec)'
      BY <1>1, <2>4, <3>1 DEF Speaks, Ran, NoStrays, Started, State, Attempted, Accepted, Crossed
    <3>4. Follows(job[c])'
      BY <1>1, <1>3, <2>1, <2>2, <2>4, <2>8 DEF Follows, Midway, Working, Past, WithPlan, Reverses
    <3>5. Once'
      BY <1>1, <3>1 DEF Once, Ran, Started, State
    <3>6. LockHeld'
      BY <1>3, <2>2, <2>4 DEF LockHeld, Past
    <3>. QED
      BY <1>1, <2>1, <2>3, <2>4, <2>8, <3>2, <3>3, <3>4, <3>5, <3>6, WorksAlone DEF Sound
  <2>. QED BY <1>1, <2>5, <2>7, <2>8 DEF Inv
<1>. QED BY <1>2, <1>3, <1>4 DEF AcquireLock

\* The command puts its record.
LEMMA PutKeeps ==
    ASSUME Inv, NEW c \in Callers, job[c].pc \in {"pending", "save"}, Store(Rec(c)),
           UNCHANGED <<plans, other, deployed, locked, allowed, faults, cut, overlapped>>,
           NEW j \in Jobs, job' = [job EXCEPT ![c] = j], lease' \in Callers \cup {Nobody},
           Own(j, plans), j.pc # "applying",
           ~overlapped /\ j.pc \in Working => lease' = lease /\ j.rec = Rec(c) /\ Follows(j)',
           j.pc \in Past \/ Rec(c).status \in {"running", "recovery_required"}
    PROVE  Inv'
<1>1. Types /\ Shared /\ Rec(c) \in Records /\ Consistent(Rec(c), plans)
      /\ record' = Rec(c) /\ crossed' = (crossed \/ Crossed(Rec(c)))
  BY DEF Inv, Types, Shared, Own, Jobs, Rec, Store
<1>7. job[c].pc \in Working
  BY DEF Working, Past
<1>2. job'[c] = j /\ \A d \in Callers \ {c} : job'[d] = job[d]
  BY <1>1 DEF Types
<1>3. crossed' \in BOOLEAN
  BY <1>1, Zenon DEF Types
<1>4. Types'
  BY <1>1, <1>3 DEF Types
<1>5. Shared'
  BY <1>1, <1>2 DEF Shared, At
<1>6. ASSUME ~overlapped PROVE Sound'
  <2>1. /\ Sound /\ lease = c /\ Speaks(Rec(c)) /\ Once
        /\ Rec(c).status = "running" => locked
    BY <1>6, <1>7 DEF Inv, Sound, Rec, Follows, Midway, Working, Past
  <2>2. crossed' => Crossed(Rec(c))
    BY <1>1, <2>1, Zenon DEF Speaks
  <2>3. Speaks(record)'
    BY <1>1, <2>1, <2>2
         DEF Speaks, Ran, NoStrays, Started, State, Attempted, Accepted, Crossed, PlansFor
  <2>4. Once'
    BY <2>1 DEF Once, Ran, Started, State
  <2>5. LockHeld'
    BY <1>1, <1>2, <2>1 DEF LockHeld
  <2>6. ASSUME NEW d \in Callers, job'[d].pc \in Working
        PROVE  lease' = d /\ Speaks(job[d].rec)' /\ Follows(job[d])'
    <3>1. d = c
      BY <1>2, <1>6, <1>7, <2>6, WorksAlone
    <3>2. job'[d] = j /\ j.rec = record' /\ lease' = d /\ Follows(j)'
      BY <1>1, <1>2, <1>6, <2>1, <2>6, <3>1
    <3>3. Speaks(job[d].rec)'
      BY <2>3, <3>2 DEF Speaks, Attempted, Accepted, Crossed
    <3>4. Follows(job[d])'
      BY <3>2 DEF Follows, Attempted, Accepted, NoStrays, PlanIn, Reverses
    <3>. QED BY <3>2, <3>3, <3>4
  <2>. QED BY <2>3, <2>4, <2>5, <2>6 DEF Sound
<1>. QED BY <1>4, <1>5, <1>6 DEF Inv

LEMMA PersistPendingKeeps ==
    ASSUME Inv, NEW c \in Callers, PersistPending(c) PROVE Inv'
<1>1. /\ job[c].pc = "pending" /\ job[c].pc \in Midway /\ job[c].pc \in Working
      /\ Store(Rec(c)) /\ Goto(c, "authorize")
      /\ UNCHANGED <<plans, other, deployed, locked, allowed, faults, cut, overlapped, lease>>
  BY DEF PersistPending, At, Smooth, trouble, lock, Midway, Working, Past, Goto
<1>2. /\ Types /\ Own(job[c], plans) /\ Rec(c).status # "rolled_back"
      /\ ~overlapped => Follows(job[c]) /\ locked
  BY <1>1, MidwayFacts
<1>3. PICK j \in Jobs : /\ job' = [job EXCEPT ![c] = j]
                        /\ j.pc = "authorize" /\ j.op = job[c].op /\ j.rec = job[c].rec
  BY <1>1, <1>2, GotoMoves DEF Pcs
<1>4. Own(j, plans)
  BY <1>1, <1>2, <1>3 DEF Own, Midway, Working, Past, WithPlan, PlanIn, Reverses
<1>5. ASSUME ~overlapped PROVE Follows(j)'
  <2>1. record' = j.rec /\ j.rec.status # "rolled_back"
    BY <1>1, <1>2, <1>3 DEF Store, Rec
  <2>2. Reverses(j) => Attempted(j.rec)
    BY <1>1, <1>2, <1>3, <1>5 DEF Follows, Reverses, WithPlan
  <2>. QED
    BY <1>1, <1>2, <1>3, <1>5, <2>1, <2>2
       DEF Follows, Attempted, Accepted, State, Midway, Working, Past, WithPlan
<1>6. j.pc \in Past /\ j.pc # "applying" /\ j.rec = Rec(c) /\ lease' \in Callers \cup {Nobody}
  BY <1>1, <1>2, <1>3 DEF Past, Rec, Types
<1>. QED BY <1>1, <1>3, <1>4, <1>5, <1>6, PutKeeps

LEMMA SaveKeeps ==
    ASSUME Inv, NEW c \in Callers, Save(c) PROVE Inv'
<1>1. /\ job[c].pc = "save" /\ job[c].pc \in Working /\ Store(Rec(c))
      /\ UNCHANGED <<plans, other, deployed, locked, allowed, faults, cut, overlapped>>
  BY DEF Save, At, Smooth, trouble, lock, Working, Past
<1>2. Types /\ Consistent(Rec(c), plans)
  BY DEF Inv, Shared, Own, Rec
<1>3. CASE KeepsLock(c) /\ End(c)
  <2>1. job' = [job EXCEPT ![c] = NoJob] /\ lease' \in Callers \cup {Nobody}
    BY <1>3, EndMoves
  <2>2. Rec(c).status \in {"running", "recovery_required"}
    BY <1>3 DEF KeepsLock
  <2>3. NoJob \in Jobs /\ Own(NoJob, plans) /\ NoJob.pc # "applying" /\ NoJob.pc \notin Working
    BY NoJobIsIdle DEF Working, Past
  <2>. QED BY <1>1, <2>1, <2>2, <2>3, PutKeeps
<1>4. CASE ~KeepsLock(c) /\ Goto(c, "unlock")
  <2>1. PICK j \in Jobs : job' = [job EXCEPT ![c] = j] /\ j.pc = "unlock" /\ j.rec = Rec(c)
    BY <1>2, <1>4, GotoMoves DEF Pcs, Rec
  <2>2. Own(j, plans) /\ UNCHANGED lease
    BY <1>2, <1>4, <2>1, SaveOwns DEF Goto
  <2>3. Follows(j)'
    <3>1. record'.status # "running"
      BY <1>1, <1>4 DEF KeepsLock, Store
    <3>. QED BY <2>1, <3>1 DEF Follows, Midway, Working, Past, WithPlan
  <2>4. j.pc \in Past /\ j.pc # "applying" /\ lease' \in Callers \cup {Nobody}
    BY <1>2, <2>1, <2>2 DEF Past, Types
  <2>. QED BY <1>1, <2>1, <2>2, <2>3, <2>4, PutKeeps
<1>. QED BY <1>3, <1>4 DEF Save

-----------------------------------------------------------------------------
(* Steps that change the plans. *)

LEMMA OwnGrows ==
    ASSUME NEW ps \in Seq(PlanRecords), NEW qs \in Seq(PlanRecords), Grows(ps, qs),
           NEW j \in Jobs, Own(j, ps),
           j.pc = "applying" => qs[PlanIn(j)].state = "running"
    PROVE  Own(j, qs)
<1>1. j.rec \in Records /\ Consistent(j.rec, ps)
  BY DEF Jobs, Own
<1>2. Consistent(j.rec, qs)
  BY <1>1, GrowthIsConsistent
<1>3. j.pc = "applied" => qs[PlanIn(j)].done
  <2>. SUFFICES ASSUME j.pc = "applied" PROVE qs[PlanIn(j)].done
    OBVIOUS
  <2>1. PlanIn(j) # NoPlan /\ ps[PlanIn(j)].done
    BY DEF Own, WithPlan
  <2>2. PlanIn(j) \in Nat /\ PlanIn(j) <= Len(ps)
    BY <1>1, <2>1 DEF PlanIn, Records, Consistent
  <2>3. PlanIn(j) \in DOMAIN ps
    BY <2>1, <2>2 DEF NoPlan
  <2>. QED BY <2>1, <2>3 DEF Grows
<1>. QED BY <1>2, <1>3 DEF Own

\* One plan is rewritten; what it is for, its success and its stray runs stay.
Rewritten(p, x) ==
    /\ x \in PlanRecords /\ x.for = plans[p].for /\ x.state # "computed"
    /\ plans[p].done => x.done
    /\ x.state = "succeeded" => x.done
    /\ plans[p].stray => x.stray
    /\ plans' = [plans EXCEPT ![p] = x]

LEMMA RewritePlans ==
    ASSUME plans \in Seq(PlanRecords), NEW p \in DOMAIN plans, NEW x, Rewritten(p, x)
    PROVE  /\ plans' \in Seq(PlanRecords) /\ Len(plans') = Len(plans) /\ DOMAIN plans' = DOMAIN plans
           /\ \A q \in DOMAIN plans : plans'[q].for = plans[q].for
           /\ \A q \in DOMAIN plans : q # p => plans'[q] = plans[q]
           /\ plans'[p] = x
           /\ Grows(plans, plans')
<1>1. DOMAIN plans = 1..Len(plans) /\ Len(plans) \in Nat /\ plans \in [1..Len(plans) -> PlanRecords]
  OBVIOUS
<1>2. plans' = [plans EXCEPT ![p] = x] /\ x \in PlanRecords /\ x.for = plans[p].for
      /\ (plans[p].done => x.done)
  BY DEF Rewritten
<1>3. plans' \in [1..Len(plans) -> PlanRecords]
  BY <1>1, <1>2
<1>4. plans' \in Seq(PlanRecords) /\ Len(plans') = Len(plans) /\ DOMAIN plans' = DOMAIN plans
  BY <1>1, <1>3
<1>5. plans'[p] = x /\ \A q \in DOMAIN plans : q # p => plans'[q] = plans[q]
  BY <1>2
<1>6. \A q \in DOMAIN plans : plans'[q].for = plans[q].for
  BY <1>2, <1>5
<1>7. \A q \in DOMAIN plans : plans[q].done => plans'[q].done
  BY <1>2, <1>5
<1>8. Grows(plans, plans')
  BY <1>1, <1>4, <1>6, <1>7 DEF Grows
<1>. QED BY <1>4, <1>5, <1>6, <1>8

\* The record of a migration speaks for a plan of its own that is applied.
LEMMA SpeaksOfApply ==
    ASSUME NEW r, Speaks(r), r.status # "rolled_back", UNCHANGED crossed,
           NEW p \in DOMAIN plans, p # NoPlan, DOMAIN plans' = DOMAIN plans,
           plans'[p].state # "computed",
           \A q \in DOMAIN plans : plans'[q].for = plans[q].for,
           \A q \in DOMAIN plans : q # p => plans'[q] = plans[q],
           plans[p].for # Restore => r.pending = p,
           plans[p].for = Restore => Attempted(r),
           r.pending # NoPlan => r.pending \in DOMAIN plans
    PROVE  Speaks(r)'
<1>1. ASSUME Attempted(r) \/ r.pending = p PROVE Attempted(r)'
  BY <1>1 DEF Attempted, State, Accepted
<1>2. Attempted(r)'
  BY <1>1
<1>3. ASSUME NEW q \in DOMAIN plans, Ran(q)', plans[q].for # Restore
      PROVE  \/ q = r.pending
             \/ plans[q].for \in DOMAIN r.receipts /\ r.receipts[plans[q].for].plan = q
  <2>1. CASE q = p
    BY <1>3, <2>1
  <2>2. CASE q # p
    <3>1. Ran(q)
      BY <1>3, <2>2 DEF Ran, Started, State
    <3>. QED BY <1>3, <3>1 DEF Speaks
  <2>. QED BY <2>1, <2>2
<1>4. crossed' => Crossed(r)'
  BY DEF Speaks, Crossed, Accepted
<1>. QED BY <1>2, <1>3, <1>4 DEF Speaks

\* The command's plan is taken up, or ends.
LEMMA ApplyKeeps ==
    ASSUME Inv, NEW c \in Callers, job[c].pc \in {"claim", "applying"},
           NEW x, Rewritten(Plan(c), x), deployed' \in Versions, other = NoPlan,
           UNCHANGED <<record, crossed, other, locked, allowed, faults, cut, overlapped, lease>>,
           NEW j \in Jobs, job' = [job EXCEPT ![c] = j],
           j.op = job[c].op, j.rec = job[c].rec, j.pc \in {"applying", "applied", "erred"},
           j.pc = "applying" => x.state = "running",
           j.pc = "applied" => x.done /\ (Back(c) => deployed' = "source"),
           \A d \in Callers \ {c} : job[d].pc # "applying"
    PROVE  Inv'
<1>. DEFINE p == Plan(c)
<1>1. job[c].pc \in Midway /\ job[c].pc \in Working /\ job[c].pc \in WithPlan
      /\ j.pc \in Midway /\ j.pc \in Working /\ j.pc \in WithPlan /\ j.pc \in Past
  BY DEF Midway, Working, Past, WithPlan
<1>2. /\ Types /\ Rec(c) \in Records /\ plans \in Seq(PlanRecords)
      /\ Own(job[c], plans) /\ Consistent(Rec(c), plans)
      /\ Rec(c).status # "rolled_back"
      /\ p # NoPlan /\ p \in DOMAIN plans
      /\ ~overlapped => lease = c /\ Speaks(record) /\ Speaks(Rec(c)) /\ Follows(job[c])
  BY <1>1, MidwayFacts
<1>3. /\ plans' \in Seq(PlanRecords) /\ Len(plans') = Len(plans) /\ DOMAIN plans' = DOMAIN plans
      /\ \A q \in DOMAIN plans : plans'[q].for = plans[q].for
      /\ \A q \in DOMAIN plans : q # p => plans'[q] = plans[q]
      /\ plans'[p] = x
      /\ Grows(plans, plans')
  BY <1>2, RewritePlans
<1>4. x.state # "computed" /\ (x.state = "succeeded" => x.done)
  BY DEF Rewritten
<1>5. job'[c] = j /\ \A d \in Callers \ {c} : job'[d] = job[d]
  BY <1>2 DEF Types
<1>6. PlanIn(j) = p /\ PlanIn(job[c]) = p /\ (Reverses(j) <=> Back(c)) /\ (Reverses(job[c]) <=> Back(c))
  BY DEF PlanIn, Plan, Reverses, Back, Rec
<1>. HIDE DEF p
<1>8. Types'
  BY <1>2, <1>3 DEF Types
<1>9. Shared'
  <2>1. Consistent(record, plans')
    BY <1>2, <1>3, GrowthIsConsistent DEF Inv, Types, Shared
  <2>2. ASSUME NEW d \in Callers, d # c PROVE Own(job[d], plans')
    BY <1>2, <1>3, <2>2, OwnGrows DEF Inv, Types, Shared
  <2>3. Own(j, plans')
    <3>1. Consistent(j.rec, plans')
      BY <1>2, <1>3, GrowthIsConsistent DEF Rec
    <3>2. /\ j.rec.status # "rolled_back"
          /\ ~Reverses(j) => j.rec.status = "running"
          /\ Reverses(j) => ~Crossed(j.rec)
      BY <1>1, <1>2, <1>6 DEF Own, Rec
    <3>. QED BY <1>1, <1>2, <1>3, <1>6, <3>1, <3>2 DEF Own
  <2>4. \A q \in DOMAIN plans' :
           /\ plans'[q].for # Restore => Checkpoints[plans'[q].for] = "compensating"
           /\ plans'[q].state = "succeeded" => plans'[q].done
    BY <1>3, <1>4 DEF Inv, Shared
  <2>5. \A d, e \in Callers : job'[d].pc = "applying" /\ job'[e].pc = "applying" => d = e
    BY <1>5
  <2>. QED BY <1>5, <2>1, <2>2, <2>3, <2>4, <2>5 DEF Shared, At
<1>10. ASSUME ~overlapped PROVE Sound'
  <2>1. /\ record.receipts = Rec(c).receipts /\ record.pending = Rec(c).pending
        /\ record.status # "rolled_back" /\ (Back(c) => Attempted(Rec(c)))
    BY <1>1, <1>2, <1>6, <1>10 DEF Follows, Rec
  <2>9. locked /\ job[c].pc \notin {"save", "unlock"} /\ j.pc \notin {"save", "unlock"}
    BY <1>1, <1>10, MidwayFacts
  <2>2. /\ plans[p].for # Restore => ~Back(c) /\ Rec(c).pending = p
        /\ plans[p].for = Restore => Back(c)
        /\ Rec(c).pending # NoPlan => /\ plans[Rec(c).pending].for = Len(Rec(c).receipts) + 1
                                      /\ Rec(c).pending \in DOMAIN plans
    <3>1. Back(c) => plans[p].for = Restore
      BY <1>2 DEF Plan, Consistent, p
    <3>2. ~Back(c) => Rec(c).pending = p
      BY DEF Plan, p
    <3>3. Rec(c).pending \in Nat /\ Len(Rec(c).receipts) \in Nat
      BY <1>2 DEF Records
    <3>4. Rec(c).pending # NoPlan =>
             /\ plans[Rec(c).pending].for = Len(Rec(c).receipts) + 1
             /\ Rec(c).pending \in DOMAIN plans
      BY <1>2, <3>3 DEF Consistent, NoPlan
    <3>5. ~Back(c) => plans[p].for # Restore
      BY <1>2, <3>2, <3>3, <3>4 DEF Restore
    <3>. QED BY <3>1, <3>2, <3>4, <3>5
  <2>3. Attempted(record) <=> Attempted(Rec(c))
    BY <2>1 DEF Attempted, Accepted
  <2>4. \A r : Speaks(r) /\ r.status # "rolled_back" /\ r.pending = Rec(c).pending
               /\ (Back(c) => Attempted(r)) => Speaks(r)'
    BY <1>2, <1>3, <1>4, <2>2, SpeaksOfApply
  <2>5. Speaks(record)' /\ Speaks(job[c].rec)'
    <3>1. Speaks(j.rec)'
      BY <1>2, <1>10, <2>1, <2>4 DEF Rec
    <3>2. Speaks(job[c].rec)'
      BY <1>5, <3>1 DEF Speaks, Attempted, Accepted, Crossed
    <3>3. PICK r : r = record
      OBVIOUS
    <3>4. Speaks(r)'
      BY <1>2, <1>10, <2>1, <2>3, <2>4, <3>3
    <3>5. record' = r
      BY <3>3
    <3>6. Speaks(record)'
      BY <3>4, <3>5 DEF Speaks, Attempted, Accepted, Crossed
    <3>. QED BY <3>2, <3>6
  <2>6. Follows(job[c])'
    <3>1. Back(c) => Attempted(j.rec)'
      BY <1>2, <1>3, <1>4, <2>1, <2>2 DEF Attempted, State, Accepted, Rec
    <3>2. record' = record /\ j.rec = Rec(c)
      BY DEF Rec
    <3>3. Follows(j)'
      BY <1>1, <1>6, <2>1, <2>9, <3>1, <3>2 DEF Follows
    <3>. QED BY <1>5, <3>3 DEF Follows, NoStrays, Attempted, Accepted, PlanIn, Reverses
  <2>7. Once'
    <3>. SUFFICES ASSUME NEW q1 \in DOMAIN plans, NEW q2 \in DOMAIN plans,
                         Ran(q1)', Ran(q2)', plans[q1].for = plans[q2].for,
                         plans[q1].for # Restore
                  PROVE  q1 = q2
      BY <1>3 DEF Once
    <3>1. \A q \in DOMAIN plans : Ran(q)' /\ q # p => Ran(q)
      BY <1>3 DEF Ran, Started, State
    <3>2. ASSUME NEW q \in DOMAIN plans, q # p, Ran(q), plans[q].for = plans[p].for,
                 plans[p].for # Restore
          PROVE  FALSE
      <4>1. plans[q].for \in DOMAIN Rec(c).receipts
        BY <1>2, <1>10, <2>2, <3>2 DEF Speaks
      <4>2. plans[q].for = Len(Rec(c).receipts) + 1 /\ Rec(c).receipts \in Seq(Receipts)
        BY <1>2, <2>2, <3>2 DEF Records
      <4>. QED BY <4>1, <4>2
    <3>. QED BY <1>10, <3>1, <3>2 DEF Inv, Sound, Once
  <2>8. LockHeld'
    BY <1>1, <1>5, <2>9 DEF LockHeld
  <2>. QED
    BY <1>1, <1>2, <1>5, <1>10, <2>5, <2>6, <2>7, <2>8, WorksAlone DEF Sound
<1>. QED BY <1>8, <1>9, <1>10 DEF Inv

\* What TakeUp and Applied make of a plan.
LEMMA TakeUpRewrites ==
    ASSUME Inv, NEW p \in DOMAIN plans, NEW s \in {"running", "blocked"}, NEW b \in BOOLEAN,
           TakeUp(p, s, b)
    PROVE  \E x : Rewritten(p, x) /\ x.state = s /\ (b => x.stray)
<1>. DEFINE y == (plans[p].stray \/ b)
            x == [plans[p] EXCEPT !.state = s, !.stray = y]
<1>1. plans[p] \in PlanRecords
  BY DEF Inv, Types
<1>2. y \in BOOLEAN /\ (plans[p].stray => y) /\ (b => y)
  BY <1>1, Zenon DEF PlanRecords
<1>. HIDE DEF y
<1>3. x \in PlanRecords /\ x.for = plans[p].for /\ x.state = s /\ x.done = plans[p].done /\ x.stray = y
  BY <1>1, <1>2 DEF PlanRecords, PlanStates
<1>4. plans' = [plans EXCEPT ![p] = x]
  BY DEF TakeUp, y
<1>. HIDE DEF x
<1>5. Rewritten(p, x)
  BY <1>2, <1>3, <1>4 DEF Rewritten
<1>. QED BY <1>2, <1>3, <1>5

LEMMA AppliedRewrites ==
    ASSUME Inv, NEW p \in DOMAIN plans, NEW ok \in BOOLEAN, Applied(p, ok)
    PROVE  /\ \E x : /\ Rewritten(p, x) /\ x.state # "running" /\ (ok => x.done)
                     /\ x.stray = plans[p].stray
           /\ deployed' \in Versions
           /\ ok /\ plans[p].for = Restore => deployed' = "source"
<1>. DEFINE s == IF ok THEN "succeeded" ELSE "failed"
            y == (plans[p].done \/ ok)
            x == [plans[p] EXCEPT !.state = s, !.done = y]
<1>1. plans[p] \in PlanRecords /\ deployed \in Versions
  BY DEF Inv, Types
<1>2. y \in BOOLEAN /\ (plans[p].done => y) /\ (ok => y)
  BY <1>1, Zenon DEF PlanRecords
<1>3. s \in {"succeeded", "failed"} /\ (s = "succeeded" => ok)
  OBVIOUS
<1>4. deployed' \in Versions /\ (ok /\ plans[p].for = Restore => deployed' = "source")
  BY <1>1 DEF Applied, Versions
<1>5. plans' = [plans EXCEPT ![p] = x]
  BY DEF Applied
<1>. HIDE DEF y, s
<1>6. x \in PlanRecords /\ x.for = plans[p].for /\ x.state = s /\ x.done = y /\ x.stray = plans[p].stray
  BY <1>1, <1>2, <1>3 DEF PlanRecords, PlanStates
<1>. HIDE DEF x
<1>7. Rewritten(p, x)
  BY <1>2, <1>3, <1>5, <1>6 DEF Rewritten
<1>. QED BY <1>2, <1>3, <1>4, <1>6, <1>7

LEMMA BeginApplyKeeps ==
    ASSUME Inv, NEW c \in Callers, BeginApply(c) PROVE Inv'
<1>1. /\ job[c].pc = "claim" /\ job[c].pc \in Midway /\ job[c].pc \in WithPlan
      /\ UNCHANGED <<record, crossed, other, locked, allowed, faults, cut, overlapped, deployed>>
  BY DEF BeginApply, At, Unsaved, Smooth, trouble, lock, Midway, Working, Past, WithPlan
<1>2. /\ Types /\ Own(job[c], plans) /\ Plan(c) \in DOMAIN plans
      /\ ~overlapped => lease = c /\ Speaks(Rec(c)) /\ Follows(job[c])
  BY <1>1, MidwayFacts
<1>3. UNCHANGED lease /\ lease \in Callers \cup {Nobody}
  BY <1>2 DEF BeginApply, Goto, Types
<1>4. CASE UNCHANGED plans /\ Goto(c, "erred")
  <2>1. PICK j \in Jobs : /\ job' = [job EXCEPT ![c] = j]
                          /\ j.pc = "erred" /\ j.op = job[c].op /\ j.rec = job[c].rec
    BY <1>2, <1>4, GotoMoves DEF Pcs
  <2>2. Own(j, plans)
    BY <1>1, <1>2, <2>1 DEF Own, Midway, Working, Past, WithPlan, PlanIn, Reverses
  <2>3. ~overlapped => Speaks(j.rec) /\ Follows(j)
    BY <1>1, <1>2, <2>1 DEF Follows, Midway, Working, Past, WithPlan, Reverses, Rec
  <2>4. j.pc \in Past /\ j.pc # "applying"
    BY <2>1 DEF Past
  <2>. QED BY <1>1, <1>2, <1>3, <1>4, <2>1, <2>2, <2>3, <2>4, MoveKeeps DEF Types
<1>5. ASSUME Claimable(Plan(c)), NEW s \in {"running", "blocked"}, NEW pc \in Pcs,
             TakeUp(Plan(c), s, FALSE), Goto(c, pc),
             pc = (IF s = "running" THEN "applying" ELSE "erred")
      PROVE  Inv'
  <2>1. other = NoPlan /\ \A d \in Callers : job[d].pc # "applying"
    BY <1>5 DEF Claimable, Busy, At
  <2>2. PICK j \in Jobs : /\ job' = [job EXCEPT ![c] = j]
                          /\ j.pc = pc /\ j.op = job[c].op /\ j.rec = job[c].rec
    BY <1>2, <1>5, GotoMoves
  <2>3. j.pc \in {"applying", "erred"} /\ (j.pc = "applying" => s = "running")
    BY <1>5, <2>2
  <2>4. PICK x : Rewritten(Plan(c), x) /\ x.state = s
    BY <1>2, <1>5, TakeUpRewrites
  <2>5. deployed' \in Versions
    BY <1>1, <1>2 DEF Types
  <2>. QED BY <1>1, <1>3, <2>1, <2>2, <2>3, <2>4, <2>5, ApplyKeeps
<1>. QED BY <1>4, <1>5 DEF BeginApply, Pcs

LEMMA EndApplyKeeps ==
    ASSUME Inv, NEW c \in Callers, EndApply(c) PROVE Inv'
<1>1. /\ job[c].pc = "applying" /\ job[c].pc \in Midway /\ job[c].pc \in WithPlan
      /\ UNCHANGED <<record, crossed, other, locked, allowed, faults, cut, overlapped>>
  BY DEF EndApply, At, Unsaved, Smooth, trouble, lock, Midway, Working, Past, WithPlan
<1>2. Types /\ Consistent(Rec(c), plans) /\ Plan(c) \in DOMAIN plans /\ Plan(c) # NoPlan
  BY <1>1, MidwayFacts
<1>3. other = NoPlan /\ \A d \in Callers \ {c} : job[d].pc # "applying"
  BY <1>1 DEF Inv, Shared, At
<1>4. ASSUME NEW ok \in BOOLEAN, NEW pc \in Pcs, Applied(Plan(c), ok), Goto(c, pc),
             pc = (IF ok THEN "applied" ELSE "erred")
      PROVE  Inv'
  <2>1. PICK j \in Jobs : /\ job' = [job EXCEPT ![c] = j]
                          /\ j.pc = pc /\ j.op = job[c].op /\ j.rec = job[c].rec
    BY <1>2, <1>4, GotoMoves
  <2>2. j.pc \in {"applied", "erred"} /\ (j.pc = "applied" => ok)
    BY <1>4, <2>1
  <2>3. /\ deployed' \in Versions
        /\ ok /\ plans[Plan(c)].for = Restore => deployed' = "source"
    BY <1>2, <1>4, AppliedRewrites
  <2>4. PICK x : Rewritten(Plan(c), x) /\ (ok => x.done)
    BY <1>2, <1>4, AppliedRewrites
  <2>5. Back(c) => plans[Plan(c)].for = Restore
    BY <1>2 DEF Plan, Consistent
  <2>6. UNCHANGED lease
    BY <1>4 DEF Goto
  <2>. QED BY <1>1, <1>3, <2>1, <2>2, <2>3, <2>4, <2>5, <2>6, ApplyKeeps
<1>. QED BY <1>4 DEF EndApply, Pcs

-----------------------------------------------------------------------------
(* Another apply, of a plan of the migration. *)

LEMMA StrayKeeps ==
    ASSUME Inv, NEW p \in DOMAIN plans, NEW x, Rewritten(p, x),
           x.stray \/ (x.state = "blocked" /\ deployed' = deployed),
           deployed' \in Versions, other' = NoPlan \/ (other' = p /\ x.stray),
           \A c \in Callers : job[c].pc # "applying",
           UNCHANGED <<record, crossed, locked, allowed, cut, overlapped, lease, job>>,
           faults' \in 0..MaxFaults
    PROVE  Inv'
<1>1. Types /\ Shared /\ plans \in Seq(PlanRecords)
  BY DEF Inv, Types
<1>2. /\ plans' \in Seq(PlanRecords) /\ Len(plans') = Len(plans) /\ DOMAIN plans' = DOMAIN plans
      /\ \A q \in DOMAIN plans : plans'[q].for = plans[q].for
      /\ \A q \in DOMAIN plans : q # p => plans'[q] = plans[q]
      /\ plans'[p] = x
      /\ Grows(plans, plans')
  BY <1>1, RewritePlans
<1>3. x.state # "computed" /\ (x.state = "succeeded" => x.done) /\ (plans[p].stray => x.stray)
  BY DEF Rewritten
<1>4. other' \in 0..MaxPlans
  <2>1. p \in 0..MaxPlans
    <3>1. DOMAIN plans = 1..Len(plans) /\ Len(plans) \in Nat /\ Len(plans) <= MaxPlans
      BY <1>1 DEF Types
    <3>. QED BY <3>1, MigrationAssumption
  <2>. QED BY <2>1, MigrationAssumption DEF NoPlan
<1>5. Types'
  BY <1>1, <1>2, <1>4 DEF Types
<1>6. Shared'
  <2>1. Consistent(record, plans')
    BY <1>1, <1>2, GrowthIsConsistent DEF Types, Shared
  <2>2. \A c \in Callers : Own(job[c], plans')
    BY <1>1, <1>2, OwnGrows DEF Types, Shared
  <2>3. \A q \in DOMAIN plans' :
           /\ plans'[q].for # Restore => Checkpoints[plans'[q].for] = "compensating"
           /\ plans'[q].state = "succeeded" => plans'[q].done
    BY <1>1, <1>2, <1>3 DEF Shared
  <2>4. other' # NoPlan => other' \in DOMAIN plans' /\ plans'[other'].stray
    BY <1>2
  <2>. QED BY <2>1, <2>2, <2>3, <2>4 DEF Shared, At
<1>7. ASSUME ~overlapped PROVE Sound'
  <2>1. Sound
    BY <1>7 DEF Inv
  <2>2. ASSUME NEW q \in DOMAIN plans, Ran(q)' PROVE Ran(q)
    <3>1. CASE q = p
      BY <1>2, <2>2, <3>1 DEF Ran, Started, State
    <3>2. CASE q # p
      BY <1>2, <2>2, <3>2 DEF Ran, Started, State
    <3>. QED BY <3>1, <3>2
  <2>3. NoStrays' => NoStrays /\ deployed' = deployed
    BY <1>2, <1>3 DEF NoStrays
  <2>4. \A q \in DOMAIN plans : plans[q].done => plans'[q].done
    BY <1>2 DEF Grows
  <2>5. ASSUME NEW r \in Records, Consistent(r, plans)
        PROVE  (Attempted(r) => Attempted(r)') /\ (Speaks(r) => Speaks(r)')
    <3>1. r.pending # NoPlan => r.pending \in DOMAIN plans
      BY <1>1, <2>5 DEF Consistent, Records, NoPlan
    <3>2. Attempted(r) => Attempted(r)'
      BY <1>2, <1>3, <3>1 DEF Attempted, State, Accepted
    <3>3. ASSUME NEW q \in PlansFor(Restore), plans[q].done
          PROVE  q \in PlansFor(Restore)' /\ plans'[q].done
      BY <1>2, <2>4, <3>3 DEF PlansFor
    <3>4. ASSUME Speaks(r) PROVE Speaks(r)'
      <4>1. r.status # "rolled_back" =>
               \A q \in DOMAIN plans' : Ran(q)' /\ plans'[q].for # Restore =>
                  \/ q = r.pending
                  \/ plans'[q].for \in DOMAIN r.receipts /\ r.receipts[plans'[q].for].plan = q
        BY <1>2, <2>2, <3>4 DEF Speaks
      <4>2. ASSUME NEW q \in DOMAIN plans', Ran(q)'
            PROVE  IF r.status # "rolled_back" THEN Attempted(r)'
                   ELSE /\ \E o \in PlansFor(Restore)' : plans'[o].done
                        /\ locked' /\ NoStrays' => deployed' = "source"
        <5>1. q \in DOMAIN plans /\ Ran(q)
          BY <1>2, <2>2, <4>2
        <5>2. CASE r.status # "rolled_back"
          BY <3>2, <3>4, <5>1, <5>2 DEF Speaks
        <5>3. CASE r.status = "rolled_back"
          <6>1. PICK o \in PlansFor(Restore) : plans[o].done
            BY <3>4, <5>1, <5>3 DEF Speaks
          <6>2. locked /\ NoStrays => deployed = "source"
            BY <3>4, <5>1, <5>3 DEF Speaks
          <6>. QED BY <2>3, <3>3, <5>3, <6>1, <6>2
        <5>. QED BY <5>2, <5>3
      <4>3. crossed' => Crossed(r)'
        BY <3>4 DEF Speaks, Crossed, Accepted
      <4>. QED BY <4>1, <4>2, <4>3 DEF Speaks
    <3>. QED BY <3>2, <3>4
  <2>6. Speaks(record)'
    <3>1. PICK r : r = record
      OBVIOUS
    <3>2. r \in Records /\ Consistent(r, plans) /\ Speaks(r)
      BY <1>1, <2>1, <3>1 DEF Types, Shared, Sound
    <3>3. Speaks(r)' /\ record' = r
      BY <2>5, <3>1, <3>2
    <3>. QED BY <3>3 DEF Speaks, Attempted, Accepted, Crossed
  <2>7. Once'
    BY <1>2, <2>1, <2>2 DEF Sound, Once
  <2>8. LockHeld'
    BY <2>1 DEF Sound, LockHeld
  <2>9. ASSUME NEW d \in Callers, job[d].pc \in Working
        PROVE  lease' = d /\ Speaks(job[d].rec)' /\ Follows(job[d])'
    <3>1. PICK j : j = job[d]
      OBVIOUS
    <3>2. j.rec \in Records /\ Consistent(j.rec, plans) /\ lease = d /\ Speaks(j.rec) /\ Follows(j)
      BY <1>1, <2>1, <2>9, <3>1 DEF Types, Jobs, Shared, Own, Sound
    <3>3. Speaks(j.rec)' /\ job'[d] = j
      BY <2>5, <3>1, <3>2
    <3>4. Speaks(job[d].rec)'
      BY <3>3 DEF Speaks, Attempted, Accepted, Crossed
    <3>5. Attempted(j.rec) => Attempted(j.rec)'
      BY <2>5, <3>2
    <3>6. Follows(j)'
      BY <2>3, <3>2, <3>5 DEF Follows
    <3>7. Follows(job[d])'
      BY <3>3, <3>6 DEF Follows, NoStrays, Attempted, Accepted, PlanIn, Reverses
    <3>. QED BY <3>2, <3>4, <3>7
  <2>. QED BY <2>6, <2>7, <2>8, <2>9 DEF Sound
<1>. QED BY <1>5, <1>6, <1>7 DEF Inv

LEMMA OtherBeginsKeeps ==
    ASSUME Inv, NEW p \in DOMAIN plans, OtherBegins(p) PROVE Inv'
<1>1. /\ other = NoPlan /\ \A c \in Callers : job[c].pc # "applying"
      /\ UNCHANGED <<record, crossed, locked, allowed, lease, job, deployed>>
  BY DEF OtherBegins, Claimable, Busy, At, Unsaved, lock
<1>2. faults \in 0..MaxFaults /\ MaxFaults \in Nat /\ deployed \in Versions
  BY MigrationAssumption DEF Inv, Types
<1>3. UNCHANGED <<cut, overlapped>> /\ faults' \in 0..MaxFaults
  BY <1>2 DEF OtherBegins, Smooth, trouble, StoreFault, Fault
<1>4. CASE TakeUp(p, "running", TRUE) /\ other' = p
  <2>1. PICK x : Rewritten(p, x) /\ x.stray
    BY <1>4, TakeUpRewrites
  <2>. QED BY <1>1, <1>2, <1>3, <1>4, <2>1, StrayKeeps
<1>5. CASE TakeUp(p, "blocked", FALSE) /\ UNCHANGED other
  <2>1. PICK x : Rewritten(p, x) /\ x.state = "blocked"
    BY <1>5, TakeUpRewrites
  <2>. QED BY <1>1, <1>2, <1>3, <1>5, <2>1, StrayKeeps
<1>. QED BY <1>4, <1>5 DEF OtherBegins

LEMMA OtherEndsKeeps ==
    ASSUME Inv, OtherEnds PROVE Inv'
<1>1. /\ other \in DOMAIN plans /\ plans[other].stray /\ \A c \in Callers : job[c].pc # "applying"
      /\ other' = NoPlan
      /\ UNCHANGED <<record, crossed, locked, allowed, lease, job, cut, overlapped, faults>>
      /\ faults \in 0..MaxFaults
  BY DEF Inv, Types, Shared, OtherEnds, At, Unsaved, lock, Smooth, trouble
<1>2. ASSUME NEW ok \in BOOLEAN, Applied(other, ok) PROVE Inv'
  <2>1. PICK x : Rewritten(other, x) /\ x.stray = plans[other].stray
    BY <1>1, <1>2, AppliedRewrites
  <2>2. deployed' \in Versions /\ x.stray
    BY <1>1, <1>2, <2>1, AppliedRewrites
  <2>. QED BY <1>1, <2>1, <2>2, StrayKeeps
<1>3. CASE UNCHANGED plans /\ deployed' \in Versions
  <2>. DEFINE o == other
  <2>1. Types /\ Shared /\ Types'
    BY <1>1, <1>3, MigrationAssumption DEF Inv, Types, NoPlan
  <2>2. Shared'
    BY <1>1, <1>3, <2>1 DEF Shared, At
  <2>3. ASSUME ~overlapped PROVE Sound'
    <3>1. Sound /\ ~NoStrays
      BY <1>1, <2>3 DEF Inv, NoStrays
    <3>2. ~NoStrays'
      BY <1>3, <3>1 DEF NoStrays
    <3>3. Speaks(record)'
      BY <1>1, <1>3, <3>1, <3>2
         DEF Sound, Speaks, Ran, Started, State, Attempted, Accepted, Crossed, PlansFor
    <3>4. Once' /\ LockHeld'
      BY <1>1, <1>3, <3>1 DEF Sound, Once, LockHeld, Ran, Started, State
    <3>5. ASSUME NEW d \in Callers, job[d].pc \in Working
          PROVE  lease' = d /\ Speaks(job[d].rec)' /\ Follows(job[d])'
      <4>1. lease = d /\ Speaks(job[d].rec) /\ Follows(job[d])
        BY <3>1, <3>5 DEF Sound
      <4>2. Speaks(job[d].rec)'
        BY <1>1, <1>3, <3>2, <4>1
           DEF Speaks, Ran, Started, State, Attempted, Accepted, Crossed, PlansFor
      <4>3. Follows(job[d])'
        BY <1>1, <1>3, <3>2, <4>1 DEF Follows, State, Attempted, Accepted, PlanIn, Reverses
      <4>. QED BY <1>1, <4>1, <4>2, <4>3
    <3>. QED BY <1>1, <3>3, <3>4, <3>5 DEF Sound
  <2>. QED BY <1>1, <2>1, <2>2, <2>3 DEF Inv
<1>. QED BY <1>2, <1>3 DEF OtherEnds

LEMMA CreatePlanKeeps ==
    ASSUME Inv, NEW c \in Callers, CreatePlan(c) PROVE Inv'
<1>. DEFINE r == Rec(c)
            p == Len(plans) + 1
            k == IF Back(c) THEN Restore ELSE Len(r.receipts) + 1
            new == NewPlan(k)
            t == IF Back(c) THEN [r EXCEPT !.back = p] ELSE [r EXCEPT !.pending = p]
<1>1. /\ job[c].pc = "create" /\ job[c].pc \in Midway /\ job[c].pc \in Working
      /\ UNCHANGED <<record, crossed, other, locked, allowed, deployed>>
  BY DEF CreatePlan, At, Unsaved, lock, Midway, Working, Past
<1>2. /\ Types /\ r \in Records /\ plans \in Seq(PlanRecords)
      /\ Own(job[c], plans) /\ Consistent(r, plans) /\ r.status # "rolled_back"
      /\ ~Back(c) => r.status = "running"
      /\ ~overlapped => lease = c /\ Speaks(record) /\ Speaks(r) /\ Follows(job[c]) /\ locked
  BY <1>1, MidwayFacts
<1>3. /\ UNCHANGED <<lease, cut, overlapped>> /\ lease \in Callers \cup {Nobody}
      /\ faults' \in 0..MaxFaults
  <2>1. CASE Failed(c)
    BY <1>1, <1>2, <2>1, FailedMoves DEF Types
  <2>2. CASE ~Failed(c)
    BY <1>2, <2>2 DEF CreatePlan, Update, Types, Smooth, trouble
  <2>. QED BY <2>1, <2>2
<1>4. CASE UNCHANGED plans /\ Failed(c)
  <2>1. PICK j \in Jobs : /\ job' = [job EXCEPT ![c] = j]
                          /\ j.pc = "save" /\ Own(j, plans)
                          /\ ~overlapped => lease = c /\ Speaks(j.rec) /\ Follows(j)
    BY <1>1, <1>4, FailedMoves
  <2>. QED BY <1>1, <1>2, <1>3, <1>4, <2>1, MoveKeeps DEF Types, Past
<1>5. CASE p <= MaxPlans /\ plans' = Append(plans, new) /\ Update(c, t, "pending")
  <2>1. /\ Len(r.receipts) \in Nat
        /\ ~Back(c) => /\ r.pending = NoPlan /\ Len(r.receipts) < NumCheckpoints
                       /\ Checkpoints[Len(r.receipts) + 1] = "compensating"
    BY <1>1, <1>2 DEF Own, Reverses, Back, Rec, Consistent, Records
  <2>2. k \in 0..NumCheckpoints /\ (k # Restore => ~Back(c) /\ Checkpoints[k] = "compensating")
    BY <2>1, Bounds DEF Restore
  <2>3. new \in PlanRecords /\ new.for = k /\ new.state = "computed"
    BY <2>2 DEF NewPlan, PlanRecords, PlanStates
  <2>4. p \in Nat /\ p # NoPlan /\ p \in 0..MaxPlans /\ p \notin DOMAIN plans
    BY <1>2, <1>5, MigrationAssumption DEF NoPlan
  <2>. HIDE DEF new, k
  <2>5. /\ plans' \in Seq(PlanRecords) /\ Len(plans') = p /\ DOMAIN plans' = DOMAIN plans \cup {p}
        /\ plans'[p] = new /\ \A q \in DOMAIN plans : plans'[q] = plans[q]
    BY <1>2, <1>5, <2>3
  <2>6. Grows(plans, plans')
    BY <1>2, <2>5 DEF Grows
  <2>7. /\ t \in Records /\ t.receipts = r.receipts /\ t.status = r.status
        /\ Back(c) => t.pending = r.pending /\ t.back = p
        /\ ~Back(c) => t.pending = p /\ t.back = r.back
    BY <1>2, <2>4 DEF Records
  <2>8. PICK j \in Jobs : /\ job' = [job EXCEPT ![c] = j]
                          /\ j.pc = "pending" /\ j.op = job[c].op /\ j.rec = t
    BY <1>2, <1>5, <2>7, UpdateMoves DEF Pcs
  <2>9. job'[c] = j /\ \A d \in Callers \ {c} : job'[d] = job[d]
    BY <1>2, <2>8 DEF Types
  <2>10. PlanIn(j) = p /\ (Reverses(j) <=> Back(c)) /\ (Reverses(job[c]) <=> Back(c))
    BY <2>7, <2>8 DEF PlanIn, Reverses, Back
  <2>11. r.pending # NoPlan => r.pending \in DOMAIN plans
    BY <1>2 DEF Consistent, Records, NoPlan
  <2>. HIDE DEF t, r, p
  <2>12. Types'
    BY <1>1, <1>2, <1>3, <1>5, <2>5, <2>8 DEF Types
  <2>13. Consistent(t, plans')
    <3>1. Consistent(r, plans')
      BY <1>2, <2>5, <2>6, GrowthIsConsistent
    <3>2. plans'[p].for = k /\ p <= Len(plans')
      BY <2>3, <2>4, <2>5
    <3>3. ~Back(c) => k = Len(r.receipts) + 1
      BY DEF k, r
    <3>4. Back(c) => k = Restore
      BY DEF k
    <3>. QED BY <1>2, <2>1, <2>7, <3>1, <3>2, <3>3, <3>4 DEF Consistent
  <2>14. Own(j, plans')
    <3>1. Reverses(j) => ~Crossed(j.rec)
      BY <1>1, <1>2, <2>7, <2>8, <2>10 DEF Own, Crossed, Accepted, Rec, r
    <3>. QED
      BY <1>2, <2>4, <2>7, <2>8, <2>10, <2>13, <3>1 DEF Own, Midway, Working, Past, WithPlan
  <2>15. Shared'
    <3>1. Consistent(record, plans')
      BY <2>5, <2>6, <1>2, GrowthIsConsistent DEF Inv, Types, Shared
    <3>2. ASSUME NEW d \in Callers, d # c PROVE Own(job[d], plans')
      <4>1. job[d] \in Jobs /\ Own(job[d], plans)
        BY <1>2 DEF Inv, Types, Shared
      <4>2. ASSUME job[d].pc = "applying" PROVE plans'[PlanIn(job[d])].state = "running"
        <5>1. PlanIn(job[d]) \in DOMAIN plans /\ plans[PlanIn(job[d])].state = "running"
          <6>1. job[d].pc \in Midway /\ job[d].pc \in WithPlan
            BY <4>2 DEF Midway, Working, Past, WithPlan
          <6>2. Plan(d) \in DOMAIN plans
            BY <6>1, MidwayFacts
          <6>. QED BY <4>1, <4>2, <6>2 DEF Own, PlanIn, Plan, Back, Reverses, Rec
        <5>. QED BY <2>5, <5>1
      <4>. QED BY <1>2, <2>5, <2>6, <4>1, <4>2, OwnGrows
    <3>3. \A q \in DOMAIN plans' :
             /\ plans'[q].for # Restore => Checkpoints[plans'[q].for] = "compensating"
             /\ plans'[q].state = "succeeded" => plans'[q].done
      BY <2>2, <2>3, <2>5 DEF Inv, Shared
    <3>4. \A d, e \in Callers : job'[d].pc = "applying" /\ job'[e].pc = "applying" => d = e
      BY <2>8, <2>9 DEF Inv, Shared, At
    <3>5. other # NoPlan => /\ other \in DOMAIN plans' /\ plans'[other].stray
                            /\ \A d \in Callers : job'[d].pc # "applying"
      BY <2>5, <2>8, <2>9 DEF Inv, Shared, At
    <3>. QED BY <1>1, <2>9, <2>14, <3>1, <3>2, <3>3, <3>4, <3>5 DEF Shared, At
  <2>16. ASSUME ~overlapped PROVE Sound'
    <3>1. /\ record.receipts = r.receipts /\ record.pending = r.pending
          /\ record.status # "rolled_back" /\ (Back(c) => Attempted(r)) /\ Once
      BY <1>1, <1>2, <2>10, <2>16 DEF Follows, Midway, WithPlan, Rec, r, Inv, Sound
    <3>2. \A q \in DOMAIN plans' : Ran(q)' => q \in DOMAIN plans /\ Ran(q)
      BY <2>3, <2>5 DEF Ran, Started, State
    <3>3. ASSUME NEW x, Speaks(x), x.status # "rolled_back", x.receipts = r.receipts,
                 x.pending = r.pending
          PROVE  /\ \A q \in DOMAIN plans' : Ran(q)' /\ plans'[q].for # Restore =>
                       \/ q = x.pending
                       \/ /\ plans'[q].for \in DOMAIN x.receipts
                          /\ x.receipts[plans'[q].for].plan = q
                 /\ \A q \in DOMAIN plans' : Ran(q)' => Attempted(x)'
                 /\ Attempted(x) => Attempted(x)'
      <4>1. Attempted(x) => Attempted(x)'
        BY <2>5, <2>11, <3>3 DEF Attempted, State, Accepted
      <4>. QED BY <2>5, <3>2, <3>3, <4>1 DEF Speaks
    <3>4. Speaks(record)'
      <4>1. PICK x : x = record
        OBVIOUS
      <4>2. Speaks(x)'
        BY <1>1, <1>2, <2>16, <3>1, <3>3, <4>1 DEF Speaks, Crossed, Accepted
      <4>. QED BY <1>1, <4>1, <4>2 DEF Speaks, Attempted, Accepted, Crossed
    <3>5. /\ Attempted(r) => Attempted(j.rec)'
          /\ Speaks(j.rec)'
      <4>1. Attempted(r) => Attempted(j.rec)'
        BY <2>1, <2>5, <2>7, <2>8, <2>11 DEF Attempted, State, Accepted
      <4>2. crossed' => Crossed(j.rec)'
        BY <1>1, <1>2, <2>7, <2>8, <2>16 DEF Speaks, Crossed, Accepted
      <4>3. j.rec.status # "rolled_back" /\ j.rec.receipts = r.receipts
        BY <1>2, <2>7, <2>8
      <4>4. ASSUME NEW q \in DOMAIN plans', Ran(q)', plans'[q].for # Restore
            PROVE  \/ q = j.rec.pending
                   \/ /\ plans'[q].for \in DOMAIN j.rec.receipts
                      /\ j.rec.receipts[plans'[q].for].plan = q
        <5>1. q \in DOMAIN plans /\ Ran(q) /\ q # NoPlan /\ plans[q].for # Restore
          BY <1>2, <2>5, <3>2, <4>4 DEF NoPlan
        <5>2. q = r.pending \/ (plans[q].for \in DOMAIN r.receipts /\ r.receipts[plans[q].for].plan = q)
          BY <1>2, <2>16, <5>1 DEF Speaks
        <5>. QED BY <2>1, <2>5, <2>7, <2>8, <4>3, <5>1, <5>2
      <4>5. \A q \in DOMAIN plans' : Ran(q)' => Attempted(j.rec)'
        BY <1>2, <2>16, <3>2, <4>1 DEF Speaks
      <4>. QED BY <4>1, <4>2, <4>3, <4>4, <4>5 DEF Speaks
    <3>6. Speaks(job[c].rec)'
      BY <2>9, <3>5 DEF Speaks, Attempted, Accepted, Crossed
    <3>7. Follows(job[c])'
      <4>2. Follows(j)'
        BY <1>1, <1>2, <2>1, <2>7, <2>8, <2>10, <2>16, <3>1, <3>5
           DEF Follows, Midway, Working, Past, WithPlan
      <4>. QED BY <2>9, <4>2 DEF Follows, NoStrays, Attempted, Accepted, PlanIn, Reverses
    <3>8. Once'
      BY <2>5, <3>1, <3>2 DEF Once
    <3>9. LockHeld'
      BY <1>1, <1>2, <2>8, <2>9, <2>16 DEF LockHeld, Past
    <3>. QED
      BY <1>1, <1>2, <1>3, <2>9, <2>16, <3>4, <3>6, <3>7, <3>8, <3>9, WorksAlone DEF Sound
  <2>. QED BY <1>3, <2>12, <2>15, <2>16 DEF Inv
<1>. QED BY <1>4, <1>5 DEF CreatePlan

-----------------------------------------------------------------------------
(* The invariant, and what follows from it. *)

LEMMA InitHolds == ASSUME Init PROVE Inv
<1>1. Types
  <2>1. record \in Records /\ job \in [Callers -> Jobs] /\ plans \in Seq(PlanRecords)
        /\ Len(plans) = 0
    BY NoRecordIsConsistent, NoJobIsIdle DEF Init
  <2>2. allowed \in 0..MaxPlans /\ other \in 0..MaxPlans /\ faults \in 0..MaxFaults /\ 0 <= MaxPlans
    BY MigrationAssumption DEF Init, NoPlan
  <2>. QED BY <2>1, <2>2 DEF Init, Types
<1>2. \A c \in Callers : job[c] = NoJob
  BY DEF Init
<1>3. Shared
  BY <1>2, NoRecordIsConsistent, NoJobIsIdle DEF Init, Shared, At
<1>4. Sound
  BY <1>2, NoJobIsIdle DEF Init, Sound, Speaks, Once, LockHeld, NoRecord, Working, Past
<1>. QED BY <1>1, <1>3, <1>4 DEF Inv

LEMMA NextKeeps == ASSUME Inv, [Next]_vars PROVE Inv'
<1>1. CASE UNCHANGED vars
  <2>1. UNCHANGED <<record, lease, locked, allowed, plans, other, deployed, job, faults, cut,
                    overlapped, crossed>>
    BY <1>1 DEF vars
  <2>2. Types' /\ Relabelled /\ LockMoves /\ Consistent(record', plans)
    BY <2>1 DEF Inv, Types, Shared, Relabelled, LockMoves
  <2>. QED BY <2>1, <2>2, BesideKeeps
<1>2. CASE Admit \/ Lapse \/ OtherApply \/ OtherEnds \/ \E p \in DOMAIN plans : OtherBegins(p)
  BY <1>2, AdmitKeeps, LapseKeeps, OtherApplyKeeps, OtherEndsKeeps, OtherBeginsKeeps
<1>3. ASSUME NEW c \in Callers,
             \/ \E op \in Ops : Load(c, op)
             \/ Approve(c) \/ AcquireLease(c) \/ AcquireLock(c)
             \/ ExecuteCheckpoint(c)
             \/ CreatePlan(c) \/ PersistPending(c) \/ AuthorizePlan(c)
             \/ CheckPlan(c) \/ BeginApply(c) \/ EndApply(c) \/ AfterApply(c)
             \/ Reverse(c) \/ Save(c) \/ ReleaseLock(c) \/ Crash(c)
      PROVE  Inv'
  BY <1>3, LoadKeeps, ApproveKeeps, AcquireLeaseKeeps, AcquireLockKeeps, ExecuteCheckpointKeeps,
     CreatePlanKeeps, PersistPendingKeeps, AuthorizePlanKeeps, CheckPlanKeeps, BeginApplyKeeps,
     EndApplyKeeps, AfterApplyKeeps, ReverseKeeps, SaveKeeps, ReleaseLockKeeps, CrashKeeps
<1>. QED BY <1>1, <1>2, <1>3 DEF Next

LEMMA InvHolds == Spec => []Inv
  BY InitHolds, NextKeeps, PTL DEF Spec

\* The record and every copy of it keep their types, whatever is retried: there
\* is never a receipt beyond the declared checkpoints.
THEOREM TypeCorrect == Spec => []TypeOK
<1>1. Inv => TypeOK
  <2>. SUFFICES ASSUME Inv PROVE TypeOK
    OBVIOUS
  <2>1. \A r \in Records : Consistent(r, plans) => IsRecord(r)
    BY DEF Records, Consistent, IsRecord
  <2>2. \A c \in Callers : job[c].pc \in Pcs /\ job[c].op \in Ops /\ IsRecord(job[c].rec)
    <3>. SUFFICES ASSUME NEW c \in Callers
                  PROVE  job[c].pc \in Pcs /\ job[c].op \in Ops /\ IsRecord(job[c].rec)
      OBVIOUS
    <3>1. job[c] \in Jobs /\ Consistent(job[c].rec, plans)
      BY DEF Inv, Types, Shared, Own
    <3>. QED BY <2>1, <3>1 DEF Jobs
  <2>3. IsRecord(record)
    BY <2>1 DEF Inv, Types, Shared
  <2>. QED BY <2>2, <2>3 DEF Inv, Types, TypeOK, PlanRecords
<1>. QED BY <1>1, InvHolds, PTL

\* An accepted checkpoint that applies the target names a plan of its own that
\* succeeded, whatever crashes or overlaps, and whatever others do to the plan; and
\* a migration that says it was rolled back crossed nothing irreversible and
\* restored the source over every plan that it ran.
THEOREM RecordsAreHonest == Spec => []RecordIsHonest
<1>1. Inv => RecordIsHonest
  <2>. SUFFICES ASSUME Inv PROVE RecordIsHonest
    OBVIOUS
  <2>1. Types /\ Consistent(record, plans)
    BY DEF Inv, Shared
  <2>2. ASSUME NEW k \in Accepted(record), Checkpoints[k] = "compensating"
        PROVE  record.receipts[k].plan \in {p \in PlansFor(k) : plans[p].done}
    BY <2>1, <2>2 DEF Accepted, Consistent, PlansFor
  <2>3. ASSUME record.status = "rolled_back", ~overlapped
        PROVE  /\ ~crossed
               /\ (\E p \in DOMAIN plans \ Strays : Started(p)) =>
                     /\ \E p \in PlansFor(Restore) : plans[p].done
                     /\ locked /\ Strays = {} => deployed = "source"
    <3>1. Speaks(record) /\ ~Crossed(record)
      BY <2>1, <2>3 DEF Inv, Sound, Consistent, Crossed, Accepted
    <3>2. (\E p \in DOMAIN plans \ Strays : Started(p)) => \E p \in DOMAIN plans : Ran(p)
      BY DEF Strays, Ran
    <3>3. Strays = {} => NoStrays
      BY DEF Strays, NoStrays
    <3>. QED BY <2>3, <3>1, <3>2, <3>3 DEF Speaks
  <2>. QED BY <2>2, <2>3 DEF RecordIsHonest
<1>. QED BY <1>1, InvHolds, PTL

\* However often callers crash, resume and retry, one plan at most applies the
\* target of a checkpoint, but for the plans that another apply ran.
THEOREM NothingIsReplayed == Spec => []NoReplay
<1>1. Inv => NoReplay
  <2>. SUFFICES ASSUME Inv, ~overlapped, NEW k \in 1..NumCheckpoints
                PROVE  Cardinality({p \in PlansFor(k) \ Strays : Started(p)}) <= 1
    BY DEF NoReplay
  <2>. DEFINE S == {p \in PlansFor(k) \ Strays : Started(p)}
  <2>1. k # Restore
    BY DEF Restore
  <2>2. \A p, q \in S : p = q
    BY <2>1 DEF Inv, Sound, Once, PlansFor, Strays, Ran
  <2>3. CASE S = {}
    BY <2>3, FS_EmptySet
  <2>4. CASE S # {}
    <3>1. PICK p \in S : TRUE
      BY <2>4
    <3>2. S = {p}
      BY <2>2, <3>1
    <3>3. Cardinality({p}) = 1
      BY FS_Singleton
    <3>. QED BY <3>2, <3>3
  <2>. QED BY <2>3, <2>4
<1>. QED BY <1>1, InvHolds, PTL

\* A record that says running has its environment locked, whatever crashes; and a
\* lock that no command holds and none left behind is for a migration that has
\* more to do or needs a recovery.
THEOREM LocksFollowRecords == Spec => []LockFollowsRecord
<1>1. Inv => LockFollowsRecord
  <2>. SUFFICES ASSUME Inv, ~overlapped
                PROVE  /\ record.status = "running" => locked
                       /\ ~cut /\ locked /\ (\A c \in Callers : At(c, "idle")) =>
                             record.status \in {"running", "recovery_required"}
    BY DEF LockFollowsRecord
  <2>. QED BY DEF Inv, Sound, LockHeld, At, Past
<1>. QED BY <1>1, InvHolds, PTL
=============================================================================
