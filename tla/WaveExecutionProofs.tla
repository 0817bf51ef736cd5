------------------------- MODULE WaveExecutionProofs -------------------------
(***************************************************************************)
(* Proofs about WaveExecution, for any waves, environments, controllers    *)
(* and faults.  Three invariants build on each other: Inv, that records,   *)
(* plans and controllers agree; Claims, that topologies are held in order; *)
(* and Replicated, that enough replicas serve.                             *)
(***************************************************************************)
EXTENDS WaveExecution, FiniteSetTheorems, WellFoundedInduction, TLAPS

-----------------------------------------------------------------------------
(* Positions. *)

\* A non-empty set of numbers has a least element.
LEMMA LeastExists ==
    ASSUME NEW s, s \subseteq Nat, s # {} PROVE \E p \in s : \A q \in s : p <= q
<1>1. PICK p \in s : \A q \in s : ~(<<q, p>> \in OpToRel(<, Nat))
  BY NatLessThanWellFounded, WFMin, Zenon
<1>2. \A q \in s : ~(q < p)
  BY <1>1, Zenon DEF OpToRel
<1> QED
  BY <1>2

\* First takes it.
LEMMA FirstIsLeast ==
    ASSUME NEW s, s \subseteq Nat, s # {}
    PROVE  First(s) \in s /\ \A q \in s : First(s) <= q
  BY LeastExists DEF First

\* The positions of a wave are numbers.
LEMMA OrderIsNat ==
    ASSUME NEW w \in Waves
    PROVE  Len(Cohort[w]) \in Nat /\ Order(w) = 1..Len(Cohort[w]) /\ Order(w) \subseteq Nat
  BY WaveAssumption DEF Order

\* Last takes the greatest of them.
LEMMA LastIsGreatest ==
    ASSUME NEW w \in Waves, NEW s, s \subseteq Order(w), s # {}
    PROVE  Last(s) \in s /\ \A q \in s : Last(s) >= q
<1> DEFINE n == Len(Cohort[w])
           t == {m \in Nat : \E q \in s : m = n - q}
<1>1. n \in Nat /\ s \subseteq 1..n
  BY OrderIsNat
<1> HIDE DEF n
<1>2. t \subseteq Nat /\ t # {}
  <2>1. PICK q \in s : TRUE
    OBVIOUS
  <2>2. n - q \in t
    BY <1>1, <2>1
  <2> QED
    BY <2>2
<1>3. PICK m \in t : \A x \in t : m <= x
  BY <1>2, LeastExists
<1>4. PICK p \in s : m = n - p
  OBVIOUS
<1>5. \A q \in s : n - q \in t
  BY <1>1
<1>6. \A q \in s : p >= q
  BY <1>1, <1>3, <1>4, <1>5
<1> QED
  BY <1>6 DEF Last

-----------------------------------------------------------------------------
(* Records. *)

Plans(w) == [Order(w) -> PlansOfOne]
Open == WaveStatus \ (WaveTerminal \cup {"Absent", "Stopped"})

\* What a record with a new status of one entry says.
LEMMA WithFields ==
    ASSUME NEW w \in Waves, NEW r \in Records(w), NEW p \in Order(w),
           NEW st \in WaveStatus, NEW e \in Entries
    PROVE  /\ With(r, st, p, e) \in Records(w)
           /\ With(r, st, p, e).status = st
           /\ \A q \in Order(w) : With(r, st, p, e).envs[q] = IF q = p THEN e ELSE r.envs[q]
  BY DEF With, Records

\* What an entry with a new status says.
LEMMA EntryStatusFields ==
    ASSUME NEW w \in Waves, NEW r \in Records(w), NEW p \in Order(w), NEW x \in Complete \cup Pending
    PROVE  /\ EntryStatus(r, p, x) \in Entries
           /\ EntryStatus(r, p, x).status = x
           /\ EntryStatus(r, p, x).plan = r.envs[p].plan
  BY DEF EntryStatus, Records, Entries

\* A record with a new status only.
LEMMA StatusFields ==
    ASSUME NEW w \in Waves, NEW r \in Records(w), NEW st \in WaveStatus
    PROVE  LET n == [r EXCEPT !.status = st]
           IN  n \in Records(w) /\ n.status = st /\ n.envs = r.envs
  BY DEF Records

\* The pending positions of a record.
LEMMA PendingFields ==
    ASSUME NEW w \in Waves, NEW r \in Records(w)
    PROVE  /\ PendingAt(r) = {q \in Order(w) : r.envs[q].status \in Pending}
           /\ PendingAt(r) # {} =>
                First(PendingAt(r)) \in Order(w) /\ r.envs[First(PendingAt(r))].status \in Pending
                /\ \A q \in Order(w) : q < First(PendingAt(r)) => r.envs[q].status \in Complete
<1>1. PendingAt(r) = {q \in Order(w) : r.envs[q].status \in Pending}
  BY DEF Records, PendingAt
<1> DEFINE s == PendingAt(r)
<1>2. \A q \in Order(w) : q \in Nat /\ r.envs[q].status \in Complete \cup Pending
  BY OrderIsNat DEF Records, Entries
<1> SUFFICES ASSUME s # {}
             PROVE  /\ First(s) \in Order(w) /\ r.envs[First(s)].status \in Pending
                    /\ \A q \in Order(w) : q < First(s) => r.envs[q].status \in Complete
  BY <1>1
<1>3. s \subseteq Nat
  BY <1>1, <1>2
<1> HIDE DEF s
<1>4. First(s) \in s /\ \A q \in s : First(s) <= q
  BY <1>3, FirstIsLeast
<1>5. First(s) \in Order(w) /\ r.envs[First(s)].status \in Pending
  BY <1>1, <1>4 DEF s
<1>6. ASSUME NEW q \in Order(w), q < First(s) PROVE r.envs[q].status \in Complete
  <2>1. q \notin s
    BY <1>2, <1>4, <1>5, <1>6
  <2> QED
    BY <1>1, <1>2, <2>1 DEF s
<1> QED
  BY <1>5, <1>6

-----------------------------------------------------------------------------
(* What a record says of the plans. *)

\* An entry and the plans of its environment: it names the plan that exists;
\* one that says it succeeded, was rolled back or is being rolled back has the
\* plans that ended so; an upgrade that succeeded is on record, or is running,
\* unless it could not be loaded.
Matches(e, s) ==
    /\ e.plan = "none" <=> s.upgrade = "none"
    /\ e.plan = "none" => e.status \in {"Unstarted", "Skipped"}
    /\ e.status = "Unstarted" => e.plan = "none"
    /\ e.plan \in Rollbacks <=> s.rollback # "none"
    /\ e.plan = "again" <=> s.again # "none"
    /\ e.plan \in Rollbacks => s.upgrade = "succeeded"
    /\ e.status = "Succeeded" => s.upgrade = "succeeded"
    /\ s.upgrade = "succeeded" /\ e.plan = "upgrade" =>
          e.status \in {"Running", "Succeeded"} \/ s.outcome = "unread"
    /\ e.status = "Skipped" => s.upgrade # "succeeded" \/ s.outcome = "unread"
    /\ e.status = "RolledBack" => "succeeded" \in {s.rollback, s.again}

\* A wave nobody asked to roll back: what was tried before a started position.
Tried(w) == IF w \in StopOnFailure THEN {"Succeeded"} ELSE {"Succeeded", "Failed", "Blocked"}
Forward(w, r, s) ==
    /\ \A p \in Order(w) :
         /\ r.envs[p].plan \notin Rollbacks
         /\ r.envs[p].status = "Failed" => s[p].upgrade = "failed"
         /\ r.envs[p].status = "Skipped" => r.status = "Failed"
         /\ r.status = "Succeeded" => r.envs[p].status = "Succeeded"
         /\ r.status # "Failed" /\ r.envs[p].status \in Complete => r.envs[p].status \in Tried(w)
    /\ \A p, q \in Order(w) :
         p < q /\ r.envs[q].plan # "none" => r.envs[p].status \in Tried(w)

\* A wave that rolled back.
Undone(w, r, s) ==
    r.status = "RolledBack" =>
       \A p \in Order(w) : s[p].upgrade = "succeeded" =>
          \/ "succeeded" \in {s[p].rollback, s[p].again}
          \/ r.envs[p].status \in {"Running", "Failed", "Blocked"}
          \/ r.envs[p].status = "Skipped" /\ s[p].outcome = "unread"

\* The record r of wave w agrees with the plans s; reversed when w was asked to
\* roll back.
Agrees(w, r, s, reversed) ==
    /\ \A p \in Order(w) : Matches(r.envs[p], s[p])
    /\ reversed \/ Forward(w, r, s)
    /\ Undone(w, r, s)

\* From s to t the plan of one kind changes at position p, if any.
Moved(w, p, kind, s, t) ==
    /\ \A q \in Order(w) : q # p => t[q] = s[q]
    /\ \A k \in Kinds : k # kind => t[p][k] = s[p][k]
    /\ s[p].outcome = "unread" => t[p].outcome = "unread"

\* The kinds are three.
LEMMA KindsAre ==
    /\ Kinds = {"upgrade", "rollback", "again"} /\ Rollbacks = {"rollback", "again"}
    /\ "upgrade" \in Kinds /\ "rollback" \in Kinds /\ "again" \in Kinds
  BY DEF Kinds, Rollbacks

\* A plan moves on, the record stays.
LEMMA PlanKeepsAgrees ==
    ASSUME NEW w \in Waves, NEW r \in Records(w), NEW s \in Plans(w), NEW t \in Plans(w),
           NEW p \in Order(w), NEW b, Agrees(w, r, s, b), NEW kind \in Kinds,
           Moved(w, p, kind, s, t),
           \/ t[p][kind] = s[p][kind]
           \/ /\ s[p][kind] \in {"computed", "blocked", "running"}
              /\ t[p][kind] \in {"blocked", "running", "failed", "succeeded"}
              /\ kind = "upgrade" /\ t[p][kind] = "succeeded" =>
                   /\ r.envs[p].status = "Running" /\ r.envs[p].plan = "upgrade"
                   /\ r.status # "RolledBack"
    PROVE  Agrees(w, r, t, b)
<1>1. /\ \A q \in Order(w) : q # p => t[q] = s[q]
      /\ s[p].outcome = "unread" => t[p].outcome = "unread"
      /\ kind # "upgrade" => t[p].upgrade = s[p].upgrade
      /\ kind # "rollback" => t[p].rollback = s[p].rollback
      /\ kind # "again" => t[p].again = s[p].again
      /\ kind \in {"upgrade", "rollback", "again"}
  BY KindsAre DEF Moved
<1>2. \/ t[p].upgrade = s[p].upgrade
      \/ /\ s[p].upgrade \in {"computed", "blocked", "running"}
         /\ t[p].upgrade \in {"blocked", "running", "failed", "succeeded"}
         /\ t[p].upgrade = "succeeded" =>
              /\ r.envs[p].status = "Running" /\ r.envs[p].plan = "upgrade"
              /\ r.status # "RolledBack"
  BY <1>1
<1>3. \/ t[p].rollback = s[p].rollback
      \/ /\ s[p].rollback \in {"computed", "blocked", "running"}
         /\ t[p].rollback \in {"blocked", "running", "failed", "succeeded"}
  BY <1>1
<1>4. \/ t[p].again = s[p].again
      \/ /\ s[p].again \in {"computed", "blocked", "running"}
         /\ t[p].again \in {"blocked", "running", "failed", "succeeded"}
  BY <1>1
<1>5. \A q \in Order(w) : Matches(r.envs[q], t[q])
  BY <1>1, <1>2, <1>3, <1>4 DEF Agrees, Matches
<1>6. ASSUME Forward(w, r, s) PROVE Forward(w, r, t)
  BY <1>1, <1>2, <1>6 DEF Forward, Agrees, Matches
<1>7. Undone(w, r, t)
  BY <1>1, <1>2, <1>3, <1>4 DEF Undone, Agrees, Matches
<1> QED
  BY <1>5, <1>6, <1>7 DEF Agrees

\* The wave's status changes, the entries stay.
LEMMA StatusKeepsAgrees ==
    ASSUME NEW w \in Waves, NEW r \in Records(w), NEW n \in Records(w), NEW s \in Plans(w),
           NEW b, NEW b1, Agrees(w, r, s, b), n.envs = r.envs, b => b1,
           \/ r.status \notin WaveTerminal /\ n.status \notin WaveTerminal
           \/ b1 /\ n.status # "RolledBack"
           \/ /\ b1
              /\ \A p \in Order(w) : r.envs[p].status \notin {"Succeeded", "AwaitingApproval"}
    PROVE  Agrees(w, n, s, b1)
<1>1. \A q \in Order(w) : Matches(n.envs[q], s[q])
  BY DEF Agrees
<1>2. ASSUME Forward(w, r, s), ~b1 PROVE Forward(w, n, s)
  BY <1>2 DEF Forward, WaveTerminal
<1>3. Undone(w, n, s)
  <2>1. CASE n.status # "RolledBack"
    BY <2>1 DEF Undone
  <2>2. CASE \A p \in Order(w) : r.envs[p].status \notin {"Succeeded", "AwaitingApproval"}
    <3> SUFFICES ASSUME NEW p \in Order(w), s[p].upgrade = "succeeded"
                 PROVE  \/ "succeeded" \in {s[p].rollback, s[p].again}
                        \/ n.envs[p].status \in {"Running", "Failed", "Blocked"}
                        \/ n.envs[p].status = "Skipped" /\ s[p].outcome = "unread"
      BY DEF Undone
    <3>1. Matches(r.envs[p], s[p]) /\ r.envs[p].status \in Complete \cup Pending
          /\ r.envs[p].plan \in {"none", "upgrade"} \cup Rollbacks
      BY DEF Agrees, Records, Entries, Kinds
    <3> QED
      BY <2>2, <3>1 DEF Matches, Complete, Pending
  <2> QED
    BY <2>1, <2>2 DEF WaveTerminal
<1> QED
  BY <1>1, <1>2, <1>3 DEF Agrees

\* refresh_wave_status of a wave that goes on.
LEMMA RefreshKeepsAgrees ==
    ASSUME NEW w \in Waves, NEW r \in Records(w), NEW s \in Plans(w), NEW b,
           Agrees(w, r, s, b), r.status \in Open
    PROVE  /\ Refreshed(r) \in Records(w) /\ Agrees(w, Refreshed(r), s, b)
           /\ Refreshed(r).envs = r.envs
<1> DEFINE st == Refreshed(r).status
<1>1. st \in {"AwaitingApproval", "Running", "Failed", "Succeeded"}
      /\ Refreshed(r) = [r EXCEPT !.status = st]
      /\ (st = "Succeeded" => AllComplete(r) /\ ~Has(r, {"Failed", "Blocked"}))
  BY DEF Refreshed, Records, Open, WaveTerminal
<1> HIDE DEF st
<1>2. Refreshed(r) \in Records(w) /\ Refreshed(r).envs = r.envs /\ Refreshed(r).status = st
  <2>1. st \in WaveStatus
    BY <1>1 DEF WaveStatus, WaveTerminal
  <2> QED
    BY <1>1, <2>1, StatusFields
<1>3. ASSUME Forward(w, r, s) PROVE Forward(w, Refreshed(r), s)
  <2>1. \A p \in Order(w) : r.envs[p].status # "Skipped" /\ r.envs[p].status # "RolledBack"
    BY <1>3 DEF Forward, Agrees, Matches, Open, WaveTerminal, Complete, Tried
  <2>2. st = "Succeeded" => \A p \in Order(w) : r.envs[p].status = "Succeeded"
    BY <1>1, <2>1 DEF AllComplete, Has, Records, Complete
  <2>3. r.status # "Failed"
    BY DEF Open, WaveTerminal
  <2> QED
    BY <1>2, <1>3, <2>1, <2>2, <2>3 DEF Forward
<1> QED
  BY <1>1, <1>2, <1>3 DEF Agrees, Undone

\* The position at hand is marked as running or awaiting its approval.
LEMMA PendKeepsAgrees ==
    ASSUME NEW w \in Waves, NEW r \in Records(w), NEW n \in Records(w), NEW s \in Plans(w), NEW b,
           NEW p \in Order(w), Agrees(w, r, s, b), r.status \in Open,
           r.envs[p].status \in Pending, r.envs[p].plan # "none",
           \A q \in Order(w) : q # p => n.envs[q] = r.envs[q],
           n.envs[p].plan = r.envs[p].plan,
           \/ n.envs[p].status = "Running"
           \/ n.envs[p].status = "AwaitingApproval"
              /\ (r.envs[p].plan = "upgrade" =>
                    s[p].upgrade # "succeeded" \/ s[p].outcome = "unread"),
           n.status \in {"Running", "AwaitingApproval", "RecoveryRequired"}
    PROVE  Agrees(w, n, s, b)
<1>1. \A q \in Order(w) : Matches(n.envs[q], s[q])
  BY DEF Agrees, Matches
<1>2. ASSUME Forward(w, r, s) PROVE Forward(w, n, s)
  BY <1>2 DEF Forward, Open, WaveTerminal, Complete, Pending, Tried
<1>3. Undone(w, n, s)
  BY DEF Undone
<1> QED
  BY <1>1, <1>2, <1>3 DEF Agrees

\* The plan at hand ended: its verdict is recorded and the fail policy applied.
LEMMA SettleKeepsAgrees ==
    ASSUME NEW w \in Waves, NEW r \in Records(w), NEW s \in Plans(w), NEW b,
           NEW p \in Order(w), NEW x \in Ended, Agrees(w, r, s, b), r.status \in Open,
           r.envs[p].status \in Pending,
           \/ r.envs[p].plan = "upgrade" /\ s[p].upgrade = x
           \/ r.envs[p].plan \in Rollbacks
    PROVE  Settled(w, r, p, x) \in Records(w) /\ Agrees(w, Settled(w, r, p, x), s, b)
<1> DEFINE e == EntryStatus(r, p, Verdict(x))
           m == With(r, r.status, p, e)
<1>1. /\ x = "succeeded" => Verdict(x) = "Succeeded"
      /\ x = "failed" => Verdict(x) = "Failed"
      /\ x = "blocked" => Verdict(x) = "Blocked"
      /\ x \in {"succeeded", "failed", "blocked"}
  BY DEF Verdict, Ended
<1>2. Verdict(x) \in {"Succeeded", "Failed", "Blocked"} /\ Verdict(x) \in Complete
  BY <1>1 DEF Complete
<1>3. e \in Entries /\ e.status = Verdict(x) /\ e.plan = r.envs[p].plan
  BY <1>2, EntryStatusFields
<1> HIDE DEF e
<1>4. /\ m \in Records(w) /\ m.status = r.status
      /\ \A q \in Order(w) : m.envs[q] = IF q = p THEN e ELSE r.envs[q]
  <2>1. r.status \in WaveStatus
    BY DEF Records
  <2> QED
    BY <1>3, <2>1, WithFields
<1> HIDE DEF m
<1>5. \A q \in Order(w) : Matches(m.envs[q], s[q])
  <2>1. Matches(r.envs[p], s[p])
    BY DEF Agrees
  <2>2. Matches(m.envs[p], s[p])
    BY <1>1, <1>3, <1>4, <2>1 DEF Matches, Rollbacks
  <2>3. \A q \in Order(w) : q # p => Matches(m.envs[q], s[q])
    BY <1>4 DEF Agrees
  <2> QED
    BY <2>2, <2>3
<1>6. r.status \notin {"RolledBack", "Failed", "Succeeded"}
  BY DEF Open, WaveTerminal
<1>7. CASE x = "succeeded"
  <2>1. ASSUME Forward(w, r, s) PROVE Forward(w, m, s)
    BY <1>1, <1>3, <1>4, <1>6, <1>7, <2>1 DEF Forward, Complete, Pending, Tried
  <2>2. Agrees(w, m, s, b)
    BY <1>4, <1>5, <1>6, <2>1 DEF Agrees, Undone
  <2> QED
    BY <1>4, <1>7, <2>2, RefreshKeepsAgrees DEF Settled, m, e
<1>8. CASE x # "succeeded"
  <2> DEFINE n == FailPolicy(w, m, p)
  <2>1. Settled(w, r, p, x) = n
    BY <1>8 DEF Settled, m, e
  <2>2. n.status \in {"Failed", "Running"} /\ (w \in StopOnFailure => n.status = "Failed")
        /\ n \in Records(w)
        /\ \A q \in Order(w) :
             \/ n.envs[q] = m.envs[q]
             \/ /\ w \in StopOnFailure /\ q > p /\ m.envs[q].status = "Unstarted"
                /\ n.envs[q].status = "Skipped" /\ n.envs[q].plan = m.envs[q].plan
    <3>1. CASE w \in StopOnFailure
      <4>1. \A q \in Order(w) : EntryStatus(m, q, "Skipped") \in Entries
              /\ EntryStatus(m, q, "Skipped").status = "Skipped"
              /\ EntryStatus(m, q, "Skipped").plan = m.envs[q].plan
        BY <1>4, EntryStatusFields DEF Complete
      <4> DEFINE f == [q \in DOMAIN m.envs |-> IF q > p /\ m.envs[q].status = "Unstarted"
                                               THEN EntryStatus(m, q, "Skipped") ELSE m.envs[q]]
      <4>2. n = [status |-> "Failed", envs |-> f]
        BY <3>1 DEF FailPolicy
      <4>3. DOMAIN m.envs = Order(w) /\ \A q \in Order(w) : m.envs[q] \in Entries
        BY <1>4 DEF Records
      <4>4. f \in [Order(w) -> Entries]
        BY <4>1, <4>3
      <4>5. n \in Records(w) /\ n.status = "Failed" /\ n.envs = f
        BY <4>2, <4>4 DEF Records, WaveStatus, WaveTerminal
      <4> QED
        BY <3>1, <4>1, <4>3, <4>5
    <3>2. CASE w \notin StopOnFailure
      <4>1. \E st \in {"Failed", "Running"} : n = [m EXCEPT !.status = st]
        BY <3>2 DEF FailPolicy
      <4>2. "Failed" \in WaveStatus /\ "Running" \in WaveStatus
        BY DEF WaveStatus, WaveTerminal
      <4> QED
        BY <1>4, <3>2, <4>1, <4>2, StatusFields
    <3> QED
      BY <3>1, <3>2
  <2> HIDE DEF n
  <2>3. \A q \in Order(w) : Matches(n.envs[q], s[q])
    BY <1>5, <2>2 DEF Matches
  <2>4. ASSUME Forward(w, r, s) PROVE Forward(w, n, s)
    <3>1. ASSUME NEW q \in Order(w)
          PROVE  /\ n.envs[q].plan \notin Rollbacks
                 /\ n.envs[q].status = "Failed" => s[q].upgrade = "failed"
                 /\ n.envs[q].status = "Skipped" => n.status = "Failed"
                 /\ n.status # "Succeeded"
                 /\ n.status # "Failed" /\ n.envs[q].status \in Complete => n.envs[q].status \in Tried(w)
      BY <1>1, <1>2, <1>3, <1>4, <1>6, <1>8, <2>2, <2>4 DEF Forward, Tried
    <3>2. ASSUME NEW o \in Order(w), NEW q \in Order(w), o < q, n.envs[q].plan # "none"
          PROVE  n.envs[o].status \in Tried(w)
      <4>1. r.envs[q].plan # "none"
        BY <1>3, <1>4, <2>2, <3>2
      <4>2. r.envs[o].status \in Tried(w)
        BY <2>4, <3>2, <4>1 DEF Forward
      <4>3. o # p /\ r.envs[o].status # "Unstarted"
        BY <4>2 DEF Tried, Pending
      <4> QED
        BY <1>4, <2>2, <4>2, <4>3
    <3> QED
      BY <3>1, <3>2 DEF Forward
  <2> QED
    BY <2>1, <2>2, <2>3, <2>4 DEF Agrees, Undone
<1> QED
  BY <1>7, <1>8

\* A rollback changes the entry at hand.
LEMMA UndoKeepsAgrees ==
    ASSUME NEW w \in Waves, NEW r \in Records(w), NEW n \in Records(w), NEW s \in Plans(w), NEW b,
           NEW p \in Order(w), Agrees(w, r, s, b), b, n.status # "RolledBack",
           \A q \in Order(w) : q # p => n.envs[q] = r.envs[q],
           n.envs[p].plan = r.envs[p].plan, r.envs[p].plan # "none",
           \/ n.envs[p].status = "Skipped" /\ r.envs[p].plan = "upgrade"
              /\ r.envs[p].status = "AwaitingApproval"
           \/ n.envs[p].status = "RolledBack" /\ "succeeded" \in {s[p].rollback, s[p].again}
           \/ n.envs[p].status \in {"Failed", "Blocked", "AwaitingApproval"} /\ r.envs[p].plan \in Rollbacks
    PROVE  Agrees(w, n, s, b)
<1>1. Matches(r.envs[p], s[p])
  BY DEF Agrees
<1>2. Matches(n.envs[p], s[p])
  BY <1>1 DEF Matches, Rollbacks
<1>3. \A q \in Order(w) : q # p => Matches(n.envs[q], s[q])
  BY DEF Agrees
<1> QED
  BY <1>2, <1>3 DEF Agrees, Undone

\* The upgrade plan of the first pending position is made.
LEMMA UpgradeKeepsAgrees ==
    ASSUME NEW w \in Waves, NEW r \in Records(w), NEW n \in Records(w), NEW s \in Plans(w),
           NEW t \in Plans(w), NEW b, Agrees(w, r, s, b), r.status \in Open, n.status = r.status,
           PendingAt(r) # {}, NEW p \in Order(w), p = First(PendingAt(r)), r.envs[p].plan = "none",
           \A q \in Order(w) : q # p => n.envs[q] = r.envs[q] /\ t[q] = s[q],
           n.envs[p] = [status |-> "AwaitingApproval", plan |-> "upgrade"],
           t[p].upgrade = "computed", t[p].rollback = s[p].rollback, t[p].again = s[p].again
    PROVE  Agrees(w, n, t, b)
<1>1. \A q \in Order(w) : Matches(n.envs[q], t[q])
  <2>1. Matches(r.envs[p], s[p])
    BY DEF Agrees
  <2>2. n.envs[p].status = "AwaitingApproval" /\ n.envs[p].plan = "upgrade"
    OBVIOUS
  <2>3. Matches(n.envs[p], t[p])
    BY <2>1, <2>2 DEF Matches, Rollbacks
  <2>4. \A q \in Order(w) : q # p => Matches(n.envs[q], t[q])
    BY DEF Agrees
  <2> QED
    BY <2>3, <2>4
<1>2. ASSUME Forward(w, r, s) PROVE Forward(w, n, t)
  <2>1. \A q \in Order(w) : q < p => r.envs[q].status \in Complete
    BY PendingFields
  <2>2. r.status \notin {"Failed", "Succeeded"} /\ r.envs[p].status \in Pending
    BY PendingFields DEF Open, WaveTerminal
  <2>3. ASSUME NEW q \in Order(w)
        PROVE  /\ n.envs[q].plan \notin Rollbacks
               /\ n.envs[q].status = "Failed" => t[q].upgrade = "failed"
               /\ n.envs[q].status # "Skipped"
               /\ n.status # "Succeeded"
               /\ n.envs[q].status \in Complete => n.envs[q].status \in Tried(w)
    <3>1. CASE q = p
      <4>1. n.envs[p].status = "AwaitingApproval" /\ n.envs[p].plan = "upgrade"
        OBVIOUS
      <4> QED
        BY <2>2, <3>1, <4>1 DEF Complete, Rollbacks
    <3>2. CASE q # p
      <4>1. n.envs[q] = r.envs[q] /\ t[q] = s[q]
        BY <3>2
      <4> QED
        BY <1>2, <2>2, <4>1 DEF Forward, Complete
    <3> QED
      BY <3>1, <3>2
  <2>4. ASSUME NEW o \in Order(w), NEW q \in Order(w), o < q, n.envs[q].plan # "none"
        PROVE  n.envs[o].status \in Tried(w)
    <3>1. CASE q = p
      BY <1>2, <2>1, <2>2, <2>4, <3>1, OrderIsNat DEF Forward
    <3>2. CASE q # p
      <4>1. r.envs[o].status \in Tried(w)
        BY <1>2, <2>4, <3>2 DEF Forward
      <4> QED
        BY <2>2, <4>1 DEF Tried, Pending
    <3> QED
      BY <3>1, <3>2
  <2> QED
    BY <2>3, <2>4 DEF Forward
<1>3. Undone(w, n, t)
  BY DEF Undone, Open, WaveTerminal
<1> QED
  BY <1>1, <1>2, <1>3 DEF Agrees

\* A rollback plan of the position at hand is made.
LEMMA RollbackKeepsAgrees ==
    ASSUME NEW w \in Waves, NEW r \in Records(w), NEW n \in Records(w), NEW s \in Plans(w),
           NEW t \in Plans(w), NEW b, Agrees(w, r, s, b), b, n.status # "RolledBack",
           NEW p \in Order(w), r.envs[p].status = "Succeeded", NEW kind \in Rollbacks,
           kind = IF r.envs[p].plan = "upgrade" THEN "rollback" ELSE "again",
           r.envs[p].plan \in {"upgrade", "rollback"},
           \A q \in Order(w) : q # p => n.envs[q] = r.envs[q],
           n.envs[p].status = "Succeeded", n.envs[p].plan = kind,
           Moved(w, p, kind, s, t), t[p][kind] = "computed"
    PROVE  Agrees(w, n, t, b)
<1>1. /\ \A q \in Order(w) : q # p => t[q] = s[q]
      /\ t[p].upgrade = s[p].upgrade
      /\ kind = "rollback" => t[p].rollback = "computed" /\ t[p].again = s[p].again
      /\ kind = "again" => t[p].again = "computed" /\ t[p].rollback = s[p].rollback
      /\ kind \in {"rollback", "again"}
  BY KindsAre DEF Moved
<1>2. \A q \in Order(w) : Matches(n.envs[q], t[q])
  BY <1>1 DEF Agrees, Matches, Rollbacks
<1> QED
  BY <1>2 DEF Agrees, Undone

-----------------------------------------------------------------------------
(* The invariant of records, plans and controllers. *)

JobOf(w) == [wave : {w}, rec : Records(w), todo : SUBSET Order(w), held : SUBSET Touched[w]]

\* The types of what the records are kept in.
Typed ==
    /\ head \in 0..NumWaves /\ asked \in SUBSET Waves
    /\ DOMAIN wave = Waves /\ \A w \in Waves : wave[w] \in Records(w)
    /\ DOMAIN plan = Waves /\ \A w \in Waves : plan[w] \in Plans(w)
    /\ lease \in [Waves -> Controllers \cup {Nobody}]
    /\ pc \in [Controllers -> Pcs]
    /\ DOMAIN job = Controllers
    /\ \A c \in Controllers : job[c].wave \in Waves /\ job[c] \in JobOf(job[c].wave)
    /\ executor \in [Envs -> Controllers \cup {Nobody}]

\* A controller's position, by its step and its job.
Pos(x, j) == IF x \in Reversing THEN Last(j.todo) ELSE First(PendingAt(j.rec))

\* What a controller at step x remembers, with the plans s of its wave: an
\* advance works on an upgrade that exists, marked as running once it may
\* begin; a rollback has every entry that succeeded or waits before it, and
\* names a rollback plan when it claims or executes.
JobFits(x, j, s, reversed) ==
    /\ x \in Advancing =>
         /\ PendingAt(j.rec) # {} /\ j.rec.status \in Open
         /\ j.rec.envs[Pos(x, j)].plan = "upgrade" /\ s[Pos(x, j)].upgrade # "none"
         /\ x # "topology" => j.rec.envs[Pos(x, j)].status = "Running"
    /\ x \in Reversing =>
         /\ reversed /\ j.rec.status = "RollingBack"
         /\ j.todo = {p \in Order(j.wave) : j.rec.envs[p].status \in {"Succeeded", "AwaitingApproval"}}
         /\ x # "next" => j.todo # {} /\ j.rec.envs[Pos(x, j)].plan \in Rollbacks

\* A controller's job fits; its copy of the record is the stored one while it
\* holds the wave; an upgrade it is about to run has not succeeded; and one
\* that executes does so alone in its environment, a plan that is running.
Own(c) ==
    /\ JobFits(pc[c], job[c], plan[Wave(c)], Wave(c) \in asked)
    /\ pc[c] \in Advancing \cup Reversing /\ HoldsWave(c) => Rec(c) = wave[Wave(c)]
    /\ pc[c] = "topology" /\ HoldsWave(c) => plan[Wave(c)][At(c)].upgrade # "succeeded"
    /\ pc[c] \in Executing => executor[Env(c)] = c /\ PlanOf(c) = "running"

Unborn == \A w \in Waves : w > head => wave[w] = NoRecord(w)
RecordsAgree == \A w \in Waves : Agrees(w, wave[w], plan[w], w \in asked)

Inv == Typed /\ Unborn /\ RecordsAgree /\ \A c \in Controllers : Own(c)

\* A plan that exists goes on existing.
Later(w, s, t) ==
    \A p \in Order(w) : s[p].upgrade # "none" => t[p].upgrade # "none"

\* What a step of controller c on wave w leaves alone.
Frame(c, w) ==
    /\ DOMAIN wave' = Waves /\ \A v \in Waves : v # w => wave'[v] = wave[v]
    /\ DOMAIN plan' = Waves /\ \A v \in Waves : v # w => plan'[v] = plan[v]
    /\ asked \subseteq asked' /\ asked' \subseteq asked \cup {w}
    /\ head' \in 0..NumWaves /\ head <= head'
    /\ pc' \in [Controllers -> Pcs] /\ DOMAIN job' = Controllers
    /\ \A d \in Controllers : d # c => pc'[d] = pc[d] /\ job'[d] = job[d]
    /\ lease' \in [Waves -> Controllers \cup {Nobody}]
    /\ \A v \in Waves, d \in Controllers : d # c /\ lease'[v] = d => lease[v] = d
    /\ executor' \in [Envs -> Controllers \cup {Nobody}]
    /\ \A e \in Envs, d \in Controllers : d # c /\ executor[e] = d => executor'[e] = d

\* What it does to the wave: nobody else holds it when its record changes or
\* an upgrade of it succeeds, and a running plan ends only where no other
\* controller executes.
Change(c, w) ==
    /\ wave'[w] \in Records(w) /\ plan'[w] \in Plans(w)
    /\ Later(w, plan[w], plan'[w])
    /\ w > head' => wave'[w] = NoRecord(w)
    /\ wave'[w] # wave[w] => \A d \in Controllers : d # c => lease'[w] # d
    /\ \A p \in Order(w) :
         /\ plan[w][p].upgrade # "succeeded" /\ plan'[w][p].upgrade = "succeeded" =>
              \A d \in Controllers : d # c => lease'[w] # d
         /\ \A k \in Kinds : plan[w][p][k] = "running" /\ plan'[w][p][k] # "running" =>
              executor[Cohort[w][p]] \in {c, Nobody}

\* A position is one of the wave's.
LEMMA PosInOrder ==
    ASSUME Typed, NEW c \in Controllers, JobFits(pc[c], job[c], plan[Wave(c)], Wave(c) \in asked),
           pc[c] \in (Advancing \cup Reversing) \ {"next"}
    PROVE  /\ At(c) = Pos(pc[c], job[c]) /\ At(c) \in Order(Wave(c))
           /\ pc[c] \in Advancing => Rec(c).envs[At(c)].status \in Pending
           /\ pc[c] \in Reversing => At(c) \in job[c].todo
           /\ Env(c) \in Envs
<1>1. At(c) = Pos(pc[c], job[c])
  BY DEF At, Pos, Back, Rec
<1>2. Wave(c) \in Waves /\ Rec(c) \in Records(Wave(c)) /\ job[c].todo \subseteq Order(Wave(c))
  BY DEF Typed, JobOf, Wave, Rec
<1>3. At(c) \in Order(Wave(c)) /\ (pc[c] \in Advancing => Rec(c).envs[At(c)].status \in Pending)
      /\ (pc[c] \in Reversing => At(c) \in job[c].todo)
  <2>1. CASE pc[c] \in Reversing
    <3>1. job[c].todo # {}
      BY <2>1 DEF JobFits
    <3>2. At(c) = Last(job[c].todo) /\ pc[c] \notin Advancing
      BY <1>1, <2>1 DEF Pos, Reversing, Advancing
    <3> QED
      BY <1>2, <3>1, <3>2, LastIsGreatest
  <2>2. CASE pc[c] \in Advancing
    <3>1. PendingAt(Rec(c)) # {} /\ pc[c] \notin Reversing
      BY <2>2 DEF JobFits, Rec, Reversing, Advancing
    <3>2. At(c) = First(PendingAt(Rec(c)))
      BY <1>1, <3>1 DEF Pos, Rec
    <3> QED
      BY <1>2, <3>1, <3>2, PendingFields
  <2> QED
    BY <2>1, <2>2
<1>4. Env(c) \in Envs
  BY <1>2, <1>3, WaveAssumption DEF Env, Order
<1> QED
  BY <1>1, <1>3, <1>4

\* What a plan of the position at hand is, by the way the controller goes.
LEMMA PlanOfIs ==
    ASSUME NEW c \in Controllers
    PROVE  /\ pc[c] \in Reversing => Kind(c) = Rec(c).envs[At(c)].plan
           /\ pc[c] \notin Reversing =>
                Kind(c) = "upgrade" /\ PlanOf(c) = plan[Wave(c)][At(c)].upgrade
  BY DEF PlanOf, Kind, Back, Entry

\* A step of one controller on one wave keeps every other controller's part.
LEMMA OthersKeepOwn ==
    ASSUME Inv, NEW c, NEW w \in Waves, Frame(c, w), Change(c, w),
           NEW d \in Controllers, d # c
    PROVE  Own(d)'
<1>1. pc'[d] = pc[d] /\ job'[d] = job[d] /\ Own(d) /\ Wave(d) \in Waves
  BY DEF Inv, Frame, Typed, Wave
<1>2. /\ Wave(d)' = Wave(d) /\ Rec(d)' = Rec(d) /\ At(d)' = At(d) /\ Env(d)' = Env(d)
      /\ Kind(d)' = Kind(d)
  BY <1>1 DEF Wave, Rec, At, Back, Env, Kind, Entry
<1>3. HoldsWave(d)' => HoldsWave(d)
  BY <1>1, <1>2 DEF HoldsWave, Frame
<1>4. /\ wave'[Wave(d)] # wave[Wave(d)] => ~HoldsWave(d)'
      /\ Later(Wave(d), plan[Wave(d)], plan'[Wave(d)])
      /\ Wave(d) \in asked => Wave(d) \in asked'
  BY <1>1, <1>2 DEF HoldsWave, Frame, Change, Later
<1>5. JobFits(pc[d], job[d], plan'[Wave(d)], Wave(d) \in asked')
  <2>1. CASE pc[d] \in {"next", "idle", "dead"}
    BY <1>1, <1>4, <2>1 DEF JobFits, Own, Advancing, Reversing
  <2>2. CASE pc[d] \notin {"next", "idle", "dead"}
    <3>1. pc[d] \in (Advancing \cup Reversing) \ {"next"}
      BY <2>2, <1>1 DEF Inv, Typed, Pcs
    <3>2. Pos(pc[d], job[d]) \in Order(Wave(d))
      BY <1>1, <3>1, PosInOrder DEF Inv, Own
    <3> QED
      BY <1>1, <1>4, <3>2 DEF JobFits, Own, Later
  <2> QED
    BY <2>1, <2>2
<1>6. pc[d] \in Advancing \cup Reversing /\ HoldsWave(d)' => Rec(d) = wave'[Wave(d)]
  BY <1>1, <1>3, <1>4 DEF Own
<1>7. ASSUME pc[d] \in (Advancing \cup Reversing) \ {"next"}
      PROVE  At(d) \in Order(Wave(d)) /\ Env(d) \in Envs /\ Env(d) = Cohort[Wave(d)][At(d)]
  BY <1>1, <1>7, PosInOrder DEF Inv, Own, Env
<1>8. ASSUME pc[d] = "topology", HoldsWave(d)' PROVE plan'[Wave(d)][At(d)].upgrade # "succeeded"
  <2>1. At(d) \in Order(Wave(d)) /\ plan[Wave(d)][At(d)].upgrade # "succeeded"
    BY <1>1, <1>3, <1>7, <1>8 DEF Own, Advancing
  <2> QED
    BY <1>1, <1>2, <1>8, <2>1 DEF Frame, Change, HoldsWave
<1>9. ASSUME pc[d] \in Executing
      PROVE  executor'[Env(d)] = d /\ plan'[Wave(d)][At(d)][Kind(d)] = "running"
  <2>1. At(d) \in Order(Wave(d)) /\ Env(d) \in Envs /\ Env(d) = Cohort[Wave(d)][At(d)]
    BY <1>7, <1>9 DEF Executing, Advancing, Reversing
  <2>2. executor[Env(d)] = d /\ PlanOf(d) = "running"
    BY <1>1, <1>9 DEF Own
  <2>3. executor'[Env(d)] = d
    BY <2>1, <2>2 DEF Frame
  <2>4. d \notin {c, Nobody}
    BY WaveAssumption
  <2>5. Kind(d) \in Kinds
    <3>1. CASE pc[d] \in Reversing
      <4>1. Kind(d) = Rec(d).envs[At(d)].plan /\ At(d) = Pos(pc[d], job[d]) /\ Rec(d) = job[d].rec
        BY <3>1, PlanOfIs DEF At, Pos, Back, Rec
      <4>2. pc[d] # "next"
        BY <1>9 DEF Executing
      <4> QED
        BY <1>1, <3>1, <4>1, <4>2 DEF Own, JobFits, Kinds
    <3>2. CASE pc[d] \notin Reversing
      BY <3>2, PlanOfIs, KindsAre
    <3> QED
      BY <3>1, <3>2
  <2>6. plan[Wave(d)][At(d)][Kind(d)] = "running"
    BY <2>2 DEF PlanOf
  <2>7. plan'[Wave(d)][At(d)][Kind(d)] = "running"
    <3>1. CASE Wave(d) # w
      BY <1>1, <2>6, <3>1 DEF Frame
    <3>2. CASE Wave(d) = w
      BY <2>1, <2>2, <2>4, <2>5, <2>6, <3>2 DEF Change
    <3> QED
      BY <3>1, <3>2
  <2> QED
    BY <2>3, <2>7
<1> QED
  BY <1>1, <1>2, <1>5, <1>6, <1>8, <1>9 DEF Own, PlanOf

\* A step keeps the invariant if it keeps its own part.
LEMMA StepKeepsInv ==
    ASSUME Inv, NEW c, NEW w \in Waves, Frame(c, w), Change(c, w),
           Agrees(w, wave'[w], plan'[w], w \in asked'),
           c \in Controllers => /\ job'[c].wave \in Waves /\ job'[c] \in JobOf(job'[c].wave)
                                /\ Own(c)'
    PROVE  Inv'
<1>1. Typed'
  BY DEF Inv, Typed, Frame, Change
<1>2. Unborn'
  <2> SUFFICES ASSUME NEW v \in Waves, v > head' PROVE wave'[v] = NoRecord(v)
    BY DEF Unborn
  <2>1. v > head
    BY WaveAssumption DEF Inv, Typed, Frame, Waves
  <2> QED
    BY <2>1 DEF Inv, Unborn, Frame, Change
<1>3. RecordsAgree'
  BY DEF Inv, RecordsAgree, Frame
<1>4. \A d \in Controllers : Own(d)'
  BY OthersKeepOwn
<1> QED
  BY <1>1, <1>2, <1>3, <1>4 DEF Inv

-----------------------------------------------------------------------------
(* The steps, by what they change. *)

\* What a step of c does to the plans of wave w.
PlanFrame(c, w) ==
    /\ DOMAIN plan' = Waves /\ \A v \in Waves : v # w => plan'[v] = plan[v]
    /\ plan'[w] \in Plans(w) /\ Later(w, plan[w], plan'[w])
    /\ \A p \in Order(w) :
         /\ plan[w][p].upgrade # "succeeded" /\ plan'[w][p].upgrade = "succeeded" => lease[w] = c
         /\ \A k \in Kinds : plan[w][p][k] = "running" /\ plan'[w][p][k] # "running" =>
              executor[Cohort[w][p]] \in {c, Nobody}

\* A controller leaves the executor of every environment it does not use.
ExecutorFrame(c) ==
    /\ executor' \in [Envs -> Controllers \cup {Nobody}]
    /\ \A e \in Envs, d \in Controllers : d # c /\ executor[e] = d => executor'[e] = d

\* A step makes x of one plan.
PlanSet(w, p, kind, x) ==
    /\ DOMAIN plan' = Waves /\ \A v \in Waves : v # w => plan'[v] = plan[v]
    /\ plan'[w] \in Plans(w)
    /\ Moved(w, p, kind, plan[w], plan'[w])
    /\ plan'[w][p][kind] = x

\* An assignment does.
LEMMA AssignedPlan ==
    ASSUME Inv, NEW w \in Waves, NEW p \in Order(w), NEW kind \in Kinds, NEW x \in PlanStates,
           plan' = [plan EXCEPT ![w][p][kind] = x]
    PROVE  PlanSet(w, p, kind, x)
<1> DEFINE s == plan[w]
           n == [s[p] EXCEPT ![kind] = x]
           t == [s EXCEPT ![p] = n]
<1>1. DOMAIN plan = Waves /\ s \in [Order(w) -> PlansOfOne]
  BY DEF Inv, Typed, Plans
<1>2. s[p] \in PlansOfOne /\ kind \in {"upgrade", "rollback", "again"}
  BY <1>1, KindsAre
<1>3. n \in PlansOfOne /\ n[kind] = x /\ n.outcome = s[p].outcome
      /\ \A k \in Kinds : k # kind => n[k] = s[p][k]
  <2> HIDE DEF s
  <2>1. CASE kind = "upgrade"
    BY <1>2, <2>1, KindsAre DEF PlansOfOne
  <2>2. CASE kind = "rollback"
    BY <1>2, <2>2, KindsAre DEF PlansOfOne
  <2>3. CASE kind = "again"
    BY <1>2, <2>3, KindsAre DEF PlansOfOne
  <2> QED
    BY <1>2, <2>1, <2>2, <2>3
<1> HIDE DEF n
<1>4. t \in [Order(w) -> PlansOfOne] /\ t[p] = n /\ \A q \in Order(w) : q # p => t[q] = s[q]
  <2> HIDE DEF s
  <2> QED
    BY <1>1, <1>3
<1>5. plan' = [plan EXCEPT ![w] = t]
  BY DEF n
<1> HIDE DEF t
<1>6. DOMAIN plan' = Waves /\ plan'[w] = t /\ \A v \in Waves : v # w => plan'[v] = plan[v]
  BY <1>1, <1>5
<1> QED
  BY <1>3, <1>4, <1>6 DEF PlanSet, Moved, Plans

\* Such a step keeps the frame if no other controller executes the plan.
LEMMA PlanSetFrame ==
    ASSUME NEW c, NEW w \in Waves, NEW p \in Order(w), NEW kind \in Kinds, NEW x,
           PlanSet(w, p, kind, x),
           kind = "upgrade" /\ plan[w][p][kind] # "none" => x # "none",
           kind = "upgrade" /\ plan[w][p][kind] # "succeeded" /\ x = "succeeded" => lease[w] = c,
           plan[w][p][kind] = "running" /\ x # "running" => executor[Cohort[w][p]] \in {c, Nobody}
    PROVE  PlanFrame(c, w)
<1>1. \A q \in Order(w), k \in Kinds : q # p \/ k # kind => plan'[w][q][k] = plan[w][q][k]
  BY DEF PlanSet, Moved
<1>2. Later(w, plan[w], plan'[w])
  BY <1>1, KindsAre DEF Later, PlanSet
<1>3. \A q \in Order(w) : plan[w][q].upgrade # "succeeded" /\ plan'[w][q].upgrade = "succeeded" =>
                             lease[w] = c
  BY <1>1, KindsAre DEF PlanSet
<1>4. \A q \in Order(w), k \in Kinds : plan[w][q][k] = "running" /\ plan'[w][q][k] # "running" =>
                                          executor[Cohort[w][q]] \in {c, Nobody}
  BY <1>1 DEF PlanSet
<1> QED
  BY <1>2, <1>3, <1>4 DEF PlanFrame, PlanSet

\* The plans stay.
LEMMA PlansStay ==
    ASSUME Inv, NEW c, NEW w \in Waves, UNCHANGED plan PROVE PlanFrame(c, w)
  BY DEF Inv, Typed, PlanFrame, Later

\* The executors stay.
LEMMA ExecutorsStay ==
    ASSUME Inv, NEW c, UNCHANGED executor PROVE ExecutorFrame(c)
  BY DEF Inv, Typed, ExecutorFrame

\* No job is a job of the first wave.
LEMMA NoJobTyped == NoJob.wave \in Waves /\ NoJob \in JobOf(NoJob.wave) /\ 1 \in Waves
<1>1. 1 \in Waves
  BY WaveAssumption DEF Waves
<1>2. NoRecord(1) \in Records(1)
  BY DEF NoRecord, Records, Entries, WaveStatus, Pending
<1> QED
  BY <1>1, <1>2 DEF NoJob, JobOf

\* A controller without a job has nothing to keep.
LEMMA QuietOwn == ASSUME NEW c \in Controllers, pc'[c] \in {"idle", "dead"} PROVE Own(c)'
  BY DEF Own, JobFits, Advancing, Reversing, Executing

\* A step that changes neither records nor plans.
LEMMA LocalStep ==
    ASSUME Inv, NEW c \in Controllers, UNCHANGED <<stored, asked>>, ExecutorFrame(c),
           pc' \in [Controllers -> Pcs], DOMAIN job' = Controllers,
           \A d \in Controllers : d # c => pc'[d] = pc[d] /\ job'[d] = job[d],
           lease' \in [Waves -> Controllers \cup {Nobody}],
           \A v \in Waves, d \in Controllers : d # c /\ lease'[v] = d => lease[v] = d,
           job'[c].wave \in Waves, job'[c] \in JobOf(job'[c].wave), Own(c)'
    PROVE  Inv'
<1>1. 1 \in Waves
  BY NoJobTyped
<1>2. Frame(c, 1)
  BY WaveAssumption DEF Inv, Typed, Frame, stored, ExecutorFrame
<1>3. Change(c, 1)
  BY <1>1 DEF Inv, Typed, Unborn, Change, Later, stored
<1>4. Agrees(1, wave'[1], plan'[1], 1 \in asked')
  BY <1>1 DEF Inv, RecordsAgree, stored
<1> QED
  BY <1>1, <1>2, <1>3, <1>4, StepKeepsInv

\* A command that only changes the record of a wave that nobody holds.
LEMMA EditKeepsInv ==
    ASSUME Inv, NEW w \in Waves, NEW r \in Records(w), Edit(w, r), wave[w].status # "Absent",
           Agrees(w, r, plan[w], w \in asked)
    PROVE  Inv'
<1>1. w <= head
  BY WaveAssumption DEF Inv, Typed, Unborn, NoRecord, Waves
<1>2. Frame(Nobody, w) /\ wave'[w] = r
  BY WaveAssumption DEF Edit, Inv, Typed, Frame, replicas, history
<1>3. Change(Nobody, w)
  BY <1>1, <1>2, WaveAssumption DEF Edit, Free, Inv, Typed, Change, Later, Waves
<1>4. Agrees(w, wave'[w], plan'[w], w \in asked')
  BY <1>2 DEF Edit, history
<1> QED
  BY <1>2, <1>3, <1>4, WaveAssumption, StepKeepsInv

\* claim_wave_lease and what the command does before its next step.
LEMMA ClaimKeepsInv ==
    ASSUME Inv, NEW c \in Controllers, NEW w \in Waves, NEW r \in Records(w), NEW x \in Pcs,
           NEW todo \in SUBSET Order(w), Free(w), Claim(c, w, r, x, todo),
           wave[w].status # "Absent", PlanFrame(c, w), UNCHANGED <<head, executor>>,
           asked \subseteq asked', asked' \subseteq asked \cup {w},
           Agrees(w, r, plan'[w], w \in asked'),
           JobFits(x, [wave |-> w, rec |-> r, todo |-> todo, held |-> {}], plan'[w], w \in asked'),
           x \in {"topology", "next"}, x = "topology" => plan'[w][First(PendingAt(r))].upgrade # "succeeded"
    PROVE  Inv'
<1> DEFINE j == [NoJob EXCEPT !.wave = w, !.rec = r, !.todo = todo]
           i == [wave |-> w, rec |-> r, todo |-> todo, held |-> {}]
<1>1. w <= head
  BY WaveAssumption DEF Inv, Typed, Unborn, NoRecord, Waves
<1>2. job' = [job EXCEPT ![c] = j]
  BY DEF Claim
<1>3. j \in JobOf(w) /\ j.wave = w /\ j.rec = r /\ j.todo = todo
  BY WaveAssumption DEF NoJob, JobOf
<1>5. JobFits(x, j, plan'[w], w \in asked')
  <2>1. i.wave = w /\ i.rec = r /\ i.todo = todo /\ JobFits(x, i, plan'[w], w \in asked')
    OBVIOUS
  <2> HIDE DEF i, j
  <2>2. Pos(x, j) = Pos(x, i)
    BY <1>3, <2>1 DEF Pos
  <2> QED
    BY <1>3, <2>1, <2>2 DEF JobFits
<1> HIDE DEF i, j
<1>4. job'[c] = j /\ pc'[c] = x /\ wave'[w] = r /\ lease'[w] = c
  BY <1>2 DEF Claim, Goto, Inv, Typed
<1>6. Frame(c, w)
  <2>1. /\ DOMAIN wave' = Waves /\ \A v \in Waves : v # w => wave'[v] = wave[v]
        /\ pc' \in [Controllers -> Pcs] /\ \A d \in Controllers : d # c => pc'[d] = pc[d]
    BY DEF Claim, Goto, Inv, Typed
  <2>2. DOMAIN job' = Controllers /\ \A d \in Controllers : d # c => job'[d] = job[d]
    BY <1>2 DEF Inv, Typed
  <2>3. /\ lease' \in [Waves -> Controllers \cup {Nobody}]
        /\ \A v \in Waves, d \in Controllers : d # c /\ lease'[v] = d => lease[v] = d
    BY DEF Claim, Inv, Typed
  <2> QED
    BY <2>1, <2>2, <2>3, WaveAssumption DEF Frame, PlanFrame, Inv, Typed
<1>7. Change(c, w)
  BY <1>1, <1>4, WaveAssumption DEF Change, PlanFrame, Free, Inv, Typed, Waves
<1>8. Own(c)'
  BY <1>3, <1>4, <1>5 DEF Own, Wave, Rec, HoldsWave, At, Back, Reversing, Executing
<1> QED
  BY <1>3, <1>4, <1>5, <1>6, <1>7, <1>8, StepKeepsInv

-----------------------------------------------------------------------------
(* Commands on a wave that nobody holds. *)

\* An active wave is open.
LEMMA ActiveIsOpen == ASSUME Typed, NEW w \in Waves, Active(w) PROVE wave[w].status \in Open
  BY DEF Typed, Active, Open, Records

\* The channel moves on and the wave is admitted.
LEMMA AdmitKeepsInv == ASSUME Inv, NEW w \in Waves, Admit(w) PROVE Inv'
<1> DEFINE r == [wave[w] EXCEPT !.status = "Admitted"]
<1>1. wave[w] \in Records(w) /\ plan[w] \in Plans(w) /\ wave[w].status = "Absent" /\ head' = w
  BY WaveAssumption DEF Admit, Inv, Typed, Unborn, Waves, NoRecord
<1>2. wave' = [wave EXCEPT ![w] = r]
  BY DEF Admit
<1>3. r \in Records(w) /\ r.status = "Admitted" /\ r.envs = wave[w].envs
  BY <1>1, StatusFields DEF WaveStatus
<1> HIDE DEF r
<1>4. Agrees(w, r, plan[w], w \in asked)
  BY <1>1, <1>3, StatusKeepsAgrees DEF Inv, RecordsAgree, WaveTerminal
<1>5. Frame(Nobody, w) /\ wave'[w] = r
  BY <1>1, <1>2, WaveAssumption DEF Admit, Inv, Typed, Frame, replicas, history, Waves
<1>6. Change(Nobody, w)
  <2>1. plan' = plan /\ lease' = lease /\ lease[w] = Nobody /\ ~(w > head')
    BY <1>1, WaveAssumption DEF Admit, Free, Waves
  <2> QED
    BY <1>1, <1>3, <1>5, <2>1, WaveAssumption DEF Change, Later
<1> QED
  BY <1>4, <1>5, <1>6, WaveAssumption, StepKeepsInv DEF Admit, history

\* stop_wave and the resumption of a stopped wave.
LEMMA StopKeepsInv == ASSUME Inv, NEW w \in Waves, Stop(w) \/ Resume(w) PROVE Inv'
<1>1. PICK st \in {"Stopped", "Running"} : Edit(w, [wave[w] EXCEPT !.status = st])
      /\ wave[w].status \notin WaveTerminal \cup {"Absent"}
  BY DEF Stop, Resume, WaveTerminal
<1> DEFINE r == [wave[w] EXCEPT !.status = st]
<1>2. wave[w] \in Records(w) /\ plan[w] \in Plans(w)
  BY DEF Inv, Typed
<1>3. r \in Records(w) /\ r.status = st /\ r.envs = wave[w].envs
  BY <1>2, StatusFields DEF WaveStatus
<1> HIDE DEF r
<1>4. Agrees(w, r, plan[w], w \in asked)
  BY <1>1, <1>2, <1>3, StatusKeepsAgrees DEF Inv, RecordsAgree, WaveTerminal
<1> QED
  BY <1>1, <1>3, <1>4, EditKeepsInv DEF r

\* A wave with nothing pending gets its verdict.
LEMMA ConcludeKeepsInv == ASSUME Inv, NEW w \in Waves, Conclude(w) PROVE Inv'
<1>1. wave[w] \in Records(w) /\ plan[w] \in Plans(w) /\ Agrees(w, wave[w], plan[w], w \in asked)
  BY DEF Inv, Typed, RecordsAgree
<1>2. wave[w].status \in Open /\ wave[w].status # "Absent"
  BY ActiveIsOpen DEF Inv, Conclude, Open
<1> QED
  BY <1>1, <1>2, RefreshKeepsAgrees, EditKeepsInv DEF Conclude

\* The entry at hand is changed in its status only.
LEMMA MarkedFields ==
    ASSUME NEW w \in Waves, NEW r \in Records(w), NEW p \in Order(w), NEW st \in WaveStatus,
           NEW x \in Complete \cup Pending
    PROVE  LET n == With(r, st, p, EntryStatus(r, p, x))
           IN  /\ n \in Records(w) /\ n.status = st
               /\ n.envs[p].status = x /\ n.envs[p].plan = r.envs[p].plan
               /\ \A q \in Order(w) : q # p => n.envs[q] = r.envs[q]
<1> DEFINE e == EntryStatus(r, p, x)
<1>1. e \in Entries /\ e.status = x /\ e.plan = r.envs[p].plan
  BY EntryStatusFields
<1> HIDE DEF e
<1>2. /\ With(r, st, p, e) \in Records(w) /\ With(r, st, p, e).status = st
      /\ \A q \in Order(w) : With(r, st, p, e).envs[q] = IF q = p THEN e ELSE r.envs[q]
  BY <1>1, WithFields
<1> QED
  BY <1>1, <1>2 DEF e

\* resume_existing_plan
LEMMA ResumePlanKeepsInv == ASSUME Inv, NEW w \in Waves, ResumePlan(w) PROVE Inv'
<1> DEFINE r == wave[w]
           p == First(PendingAt(r))
<1>1. r \in Records(w) /\ plan[w] \in Plans(w) /\ Agrees(w, r, plan[w], w \in asked)
  BY DEF Inv, Typed, RecordsAgree
<1>2. r.status \in Open /\ r.status # "Absent" /\ PendingAt(r) # {}
  BY ActiveIsOpen DEF Inv, ResumePlan, Open
<1>3. p \in Order(w) /\ r.envs[p].status \in Pending
  BY <1>1, <1>2, PendingFields
<1>4. r.envs[p].plan \in {"none", "upgrade"} \cup Rollbacks
  BY <1>1, <1>3 DEF Records, Entries, Kinds
<1>5. r.envs[p].plan # "none"
  BY DEF ResumePlan
<1>6. CASE plan[w][p][r.envs[p].plan] \in Ended /\ Edit(w, Settled(w, r, p, plan[w][p][r.envs[p].plan]))
  <2> DEFINE x == plan[w][p][r.envs[p].plan]
  <2>1. /\ x \in Ended
        /\ \/ r.envs[p].plan = "upgrade" /\ plan[w][p].upgrade = x
           \/ r.envs[p].plan \in Rollbacks
    <3>1. r.envs[p].plan = "upgrade" => x = plan[w][p].upgrade
      OBVIOUS
    <3>2. x \in Ended
      BY <1>6
    <3>3. r.envs[p].plan = "upgrade" \/ r.envs[p].plan \in Rollbacks
      BY <1>4, <1>5
    <3> HIDE DEF x, r, p
    <3> QED
      BY <3>1, <3>2, <3>3
  <2> HIDE DEF x, p, r
  <2>2. Settled(w, r, p, x) \in Records(w) /\ Agrees(w, Settled(w, r, p, x), plan[w], w \in asked)
    BY <1>1, <1>2, <1>3, <2>1, SettleKeepsAgrees
  <2> QED
    BY <1>2, <1>6, <2>2, EditKeepsInv DEF x, r
<1>7. CASE Edit(w, Unclear(w, r, p))
  <2> DEFINE n == Unclear(w, r, p)
  <2>1. /\ n \in Records(w) /\ n.status = "RecoveryRequired"
        /\ n.envs[p].status = "Running" /\ n.envs[p].plan = r.envs[p].plan
        /\ \A q \in Order(w) : q # p => n.envs[q] = r.envs[q]
    BY <1>1, <1>3, MarkedFields DEF Unclear, WaveStatus, WaveTerminal, Pending
  <2> HIDE DEF n, p
  <2>2. Agrees(w, n, plan[w], w \in asked)
    BY <1>1, <1>2, <1>3, <1>5, <2>1, PendKeepsAgrees
  <2> QED
    BY <1>2, <1>7, <2>1, <2>2, EditKeepsInv DEF n
<1> QED
  BY <1>6, <1>7 DEF ResumePlan

\* A position stays pending with the others.
LEMMA PendingStays ==
    ASSUME NEW w \in Waves, NEW r \in Records(w), NEW n \in Records(w), NEW p \in Order(w),
           r.envs[p].status \in Pending, n.envs[p].status \in Pending,
           \A q \in Order(w) : q # p => n.envs[q] = r.envs[q]
    PROVE  PendingAt(n) = PendingAt(r)
<1>1. \A q \in Order(w) : n.envs[q].status \in Pending <=> r.envs[q].status \in Pending
  OBVIOUS
<1> QED
  BY <1>1, PendingFields

\* The first pending environment is taken up.
LEMMA AdvanceKeepsInv ==
    ASSUME Inv, NEW c \in Controllers, NEW w \in Waves, Advance(c, w) PROVE Inv'
<1> DEFINE r == wave[w]
           p == First(PendingAt(r))
<1>1. r \in Records(w) /\ plan[w] \in Plans(w) /\ Agrees(w, r, plan[w], w \in asked)
  BY DEF Inv, Typed, RecordsAgree
<1>2. r.status \in Open /\ r.status # "Absent" /\ PendingAt(r) # {} /\ Free(w)
  BY ActiveIsOpen DEF Inv, Advance, Open
<1>3. p \in Order(w) /\ r.envs[p].status \in Pending
  BY <1>1, <1>2, PendingFields
<1>4. UNCHANGED <<head, executor, asked>>
  BY DEF Advance, replicas, history
<1>5. CASE /\ r.envs[p].plan = "none"
           /\ plan' = [plan EXCEPT ![w][p].upgrade = "computed"]
           /\ Claim(c, w, With(r, r.status, p, [status |-> "AwaitingApproval", plan |-> "upgrade"]),
                    "topology", {})
  <2> DEFINE e == [status |-> "AwaitingApproval", plan |-> "upgrade"]
             n == With(r, r.status, p, e)
  <2>1. e \in Entries /\ e.status \in Pending /\ e.plan = "upgrade" /\ r.status \in WaveStatus
    BY <1>1 DEF Entries, Pending, Records, Kinds
  <2>2. /\ n \in Records(w) /\ n.status = r.status
        /\ \A q \in Order(w) : n.envs[q] = IF q = p THEN e ELSE r.envs[q]
    BY <1>1, <1>3, <2>1, WithFields
  <2>3. /\ DOMAIN plan' = Waves /\ \A v \in Waves : v # w => plan'[v] = plan[v]
        /\ plan'[w] \in Plans(w)
        /\ \A q \in Order(w) : q # p => plan'[w][q] = plan[w][q]
        /\ plan'[w][p].upgrade = "computed" /\ plan'[w][p].rollback = plan[w][p].rollback
        /\ plan'[w][p].again = plan[w][p].again /\ PlanSet(w, p, "upgrade", "computed")
    <3>1. "computed" \in PlanStates /\ plan' = [plan EXCEPT ![w][p]["upgrade"] = "computed"]
      BY <1>5 DEF PlanStates
    <3> HIDE DEF p
    <3>2. PlanSet(w, p, "upgrade", "computed")
      BY <1>3, <3>1, KindsAre, AssignedPlan
    <3> QED
      BY <3>2, KindsAre DEF PlanSet, Moved
  <2>4. plan[w][p].upgrade = "none"
    BY <1>1, <1>3, <1>5 DEF Agrees, Matches
  <2> HIDE DEF n, e
  <2>5. PlanFrame(c, w)
    <3> HIDE DEF p
    <3> QED
      BY <1>3, <2>3, <2>4, KindsAre, PlanSetFrame
  <2>6. PendingAt(n) = PendingAt(r)
    <3>1. n.envs[p] = e /\ \A q \in Order(w) : q # p => n.envs[q] = r.envs[q]
      BY <1>3, <2>2
    <3> QED
      BY <1>1, <1>3, <2>1, <2>2, <3>1, PendingStays
  <2> HIDE DEF p
  <2>7. Agrees(w, n, plan'[w], w \in asked)
    <3>1. n.envs[p] = [status |-> "AwaitingApproval", plan |-> "upgrade"]
          /\ \A q \in Order(w) : q # p => n.envs[q] = r.envs[q] /\ plan'[w][q] = plan[w][q]
      BY <1>3, <2>2, <2>3 DEF e
    <3>2. p = First(PendingAt(r)) /\ r.envs[p].plan = "none"
      BY <1>5 DEF p
    <3> HIDE DEF r
    <3> QED
      BY <1>1, <1>2, <1>3, <2>2, <2>3, <3>1, <3>2, UpgradeKeepsAgrees
  <2> DEFINE j == [wave |-> w, rec |-> n, todo |-> {}, held |-> {}]
  <2>8. JobFits("topology", j, plan'[w], w \in asked)
    <3>1. Pos("topology", j) = p
      BY <2>6 DEF Pos, Reversing, p
    <3> QED
      BY <1>2, <1>3, <2>1, <2>2, <2>3, <2>6, <3>1 DEF JobFits, Reversing
  <2>9. Claim(c, w, n, "topology", {}) /\ "topology" \in Pcs /\ First(PendingAt(n)) = p
    BY <1>5, <2>6 DEF n, e, p, Pcs, Advancing
  <2>10. /\ UNCHANGED <<head, executor>> /\ asked \subseteq asked' /\ asked' \subseteq asked \cup {w}
         /\ Agrees(w, n, plan'[w], w \in asked')
         /\ JobFits("topology", [wave |-> w, rec |-> n, todo |-> {}, held |-> {}], plan'[w], w \in asked')
         /\ plan'[w][First(PendingAt(n))].upgrade # "succeeded" /\ wave[w].status # "Absent"
    BY <1>2, <1>4, <2>3, <2>7, <2>8, <2>9
  <2> HIDE DEF j, r
  <2>11. {} \in SUBSET Order(w)
    OBVIOUS
  <2> QED
    BY <1>2, <2>2, <2>5, <2>9, <2>10, <2>11, ClaimKeepsInv
<1>6. CASE /\ r.envs[p].plan = "upgrade" /\ plan[w][p].upgrade = "computed"
           /\ Claim(c, w, r, "topology", {}) /\ UNCHANGED plan
  <2> DEFINE j == [wave |-> w, rec |-> r, todo |-> {}, held |-> {}]
  <2>1. PlanFrame(c, w)
    BY <1>6, PlansStay
  <2>2. JobFits("topology", j, plan'[w], w \in asked)
    <3>1. Pos("topology", j) = p
      BY DEF Pos, Reversing
    <3> QED
      BY <1>2, <1>6, <3>1 DEF JobFits, Reversing
  <2>3. "topology" \in Pcs
    BY DEF Pcs, Advancing
  <2>4. /\ UNCHANGED <<head, executor>> /\ asked \subseteq asked' /\ asked' \subseteq asked \cup {w}
        /\ Agrees(w, r, plan'[w], w \in asked')
        /\ JobFits("topology", [wave |-> w, rec |-> r, todo |-> {}, held |-> {}], plan'[w], w \in asked')
        /\ plan'[w][First(PendingAt(r))].upgrade # "succeeded" /\ wave[w].status # "Absent"
        /\ Claim(c, w, r, "topology", {}) /\ {} \in SUBSET Order(w)
    BY <1>1, <1>2, <1>4, <1>6, <2>2
  <2> HIDE DEF j, p, r
  <2> QED
    BY <1>1, <1>2, <2>1, <2>3, <2>4, ClaimKeepsInv
<1> QED
  BY <1>5, <1>6 DEF Advance

\* A rollback begins.
LEMMA RollBackKeepsInv ==
    ASSUME Inv, NEW c \in Controllers, NEW w \in Waves, RollBack(c, w) PROVE Inv'
<1> DEFINE n == [wave[w] EXCEPT !.status = "RollingBack"]
           todo == {p \in Order(w) : wave[w].envs[p].status \in {"Succeeded", "AwaitingApproval"}}
           j == [wave |-> w, rec |-> n, todo |-> todo, held |-> {}]
<1>1. /\ wave[w] \in Records(w) /\ plan[w] \in Plans(w) /\ Agrees(w, wave[w], plan[w], w \in asked)
      /\ wave[w].status # "Absent" /\ Free(w)
  BY DEF Inv, Typed, RecordsAgree, RollBack
<1>2. n \in Records(w) /\ n.status = "RollingBack" /\ n.envs = wave[w].envs
  BY <1>1, StatusFields DEF WaveStatus
<1>3. /\ UNCHANGED <<head, executor, plan>> /\ asked' = asked \cup {w}
      /\ Claim(c, w, n, "next", todo)
  BY DEF RollBack, replicas
<1>4. j.wave = w /\ j.rec = n /\ j.todo = todo
  OBVIOUS
<1> HIDE DEF n, j
<1>5. Agrees(w, n, plan[w], w \in asked')
  BY <1>1, <1>2, <1>3, StatusKeepsAgrees
<1>6. JobFits("next", j, plan[w], w \in asked')
  BY <1>2, <1>3, <1>4 DEF JobFits, Advancing, Pos
<1>7. "next" \in Pcs /\ PlanFrame(c, w)
  BY <1>3, PlansStay DEF Pcs, Reversing
<1> QED
  BY <1>1, <1>2, <1>3, <1>5, <1>6, <1>7, ClaimKeepsInv DEF j

-----------------------------------------------------------------------------
(* Steps of a controller. *)

\* finish_wave_lease
LEMMA EndEffect ==
    ASSUME Inv, NEW c \in Controllers, End(c)
    PROVE  /\ pc' \in [Controllers -> Pcs] /\ DOMAIN job' = Controllers
           /\ \A d \in Controllers : d # c => pc'[d] = pc[d] /\ job'[d] = job[d]
           /\ pc'[c] = "idle" /\ job'[c] = NoJob
           /\ lease' \in [Waves -> Controllers \cup {Nobody}]
           /\ \A v \in Waves, d \in Controllers : d # c /\ lease'[v] = d => lease[v] = d
           /\ \A v \in Waves : lease[v] = c => lease'[v] \in {c, Nobody}
<1>1. "idle" \in Pcs /\ Wave(c) \in Waves
  BY DEF Pcs, Inv, Typed, Wave
<1> QED
  BY <1>1, WaveAssumption DEF End, Goto, HoldsWave, Inv, Typed

\* A controller that ends its command without a change of records and plans.
LEMMA EndKeepsInv ==
    ASSUME Inv, NEW c \in Controllers, End(c), UNCHANGED <<stored, asked>>, ExecutorFrame(c) PROVE Inv'
<1>1. Own(c)'
  BY EndEffect, QuietOwn
<1> QED
  BY <1>1, EndEffect, NoJobTyped, LocalStep

\* The record is persisted under the lease, and the command goes on or ends.
LEMMA PersistKeepsInv ==
    ASSUME Inv, NEW c \in Controllers, NEW w \in Waves, w = Wave(c), pc[c] \in Advancing \cup Reversing,
           NEW r \in Records(w), NEW x, NEW todo, Persist(c, r, x, todo), UNCHANGED <<head, asked>>,
           PlanFrame(c, w), ExecutorFrame(c),
           HoldsWave(c) => Agrees(w, r, plan'[w], w \in asked),
           ~HoldsWave(c) => Agrees(w, wave[w], plan'[w], w \in asked),
           \/ x = "end"
           \/ /\ x \in {"next", "topologyBack"} /\ todo \subseteq Order(w)
              /\ JobFits(x, [wave |-> w, rec |-> r, todo |-> todo, held |-> {}], plan'[w], w \in asked)
    PROVE  Inv'
<1>1. wave[w] \in Records(w) /\ DOMAIN wave = Waves /\ lease[w] \in Controllers \cup {Nobody}
      /\ (HoldsWave(c) <=> lease[w] = c) /\ head \in Nat /\ w \in Nat
  BY WaveAssumption DEF Inv, Typed, HoldsWave, Waves
<1>2. HoldsWave(c) => ~(w > head)
  <2>1. HoldsWave(c) => wave[w].status \in Open \cup {"RollingBack"}
    BY DEF Inv, Own, JobFits, Rec
  <2>2. w > head => wave[w].status = "Absent"
    <3>1. NoRecord(w).status = "Absent"
      BY DEF NoRecord
    <3>2. w > head => wave[w] = NoRecord(w)
      BY DEF Inv, Unborn
    <3> QED
      BY <3>1, <3>2
  <2> QED
    BY <2>1, <2>2 DEF Open
<1>3. CASE ~HoldsWave(c) \/ x = "end"
  <2>1. End(c)
    BY <1>3 DEF Persist, Fenced
  <2>2. /\ DOMAIN wave' = Waves /\ \A v \in Waves : v # w => wave'[v] = wave[v]
        /\ (HoldsWave(c) => wave'[w] = r) /\ (~HoldsWave(c) => wave'[w] = wave[w])
    BY <1>1, <1>3 DEF Persist, Fenced
  <2>3. Frame(c, w)
    BY <1>1, <2>1, <2>2, EndEffect, WaveAssumption DEF Frame, PlanFrame, ExecutorFrame, Inv, Typed
  <2>4. Change(c, w)
    <3>1. wave'[w] \in Records(w) /\ (w > head' => wave'[w] = NoRecord(w))
      BY <1>1, <1>2, <2>2 DEF Inv, Unborn
    <3>2. lease[w] = c => \A d \in Controllers : d # c => lease'[w] # d
      BY <2>1, EndEffect, WaveAssumption
    <3> QED
      BY <1>1, <2>2, <3>1, <3>2 DEF Change, PlanFrame
  <2>5. Agrees(w, wave'[w], plan'[w], w \in asked')
    BY <2>2
  <2>6. Own(c)' /\ job'[c] = NoJob
    BY <2>1, EndEffect, QuietOwn
  <2> QED
    BY <2>3, <2>4, <2>5, <2>6, NoJobTyped, StepKeepsInv
<1>4. CASE HoldsWave(c) /\ x # "end"
  <2> DEFINE i == [wave |-> w, rec |-> r, todo |-> todo, held |-> {}]
             j == [job[c] EXCEPT !.rec = r, !.todo = todo, !.held = {}]
  <2>1. /\ wave' = [wave EXCEPT ![w] = r] /\ Goto(c, x) /\ UNCHANGED lease
        /\ job' = [job EXCEPT ![c].rec = r, ![c].todo = todo, ![c].held = {}]
        /\ x \in {"next", "topologyBack"} /\ todo \subseteq Order(w)
    BY <1>4 DEF Persist, Fenced
  <2>2. job[c] \in JobOf(w) /\ DOMAIN job = Controllers
    BY DEF Inv, Typed, Wave
  <2>3. j \in JobOf(w) /\ j.wave = w /\ j.rec = r /\ j.todo = todo
    BY <2>1, <2>2 DEF JobOf
  <2>4. /\ DOMAIN job' = Controllers /\ \A d \in Controllers : d # c => job'[d] = job[d]
        /\ job'[c] = j
    BY <2>1, <2>2
  <2>5. JobFits(x, j, plan'[w], w \in asked)
    <3>1. i.wave = w /\ i.rec = r /\ i.todo = todo /\ JobFits(x, i, plan'[w], w \in asked)
      BY <1>4
    <3> HIDE DEF i, j
    <3>2. Pos(x, j) = Pos(x, i)
      BY <2>3, <3>1 DEF Pos
    <3> QED
      BY <2>3, <3>1, <3>2 DEF JobFits
  <2> HIDE DEF i, j
  <2>6. /\ pc' \in [Controllers -> Pcs] /\ pc'[c] = x /\ \A d \in Controllers : d # c => pc'[d] = pc[d]
        /\ wave'[w] = r /\ DOMAIN wave' = Waves /\ \A v \in Waves : v # w => wave'[v] = wave[v]
    BY <1>1, <2>1 DEF Goto, Inv, Typed, Pcs, Reversing
  <2>7. Frame(c, w)
    BY <1>1, <2>1, <2>4, <2>6 DEF Frame, PlanFrame, ExecutorFrame, Inv, Typed
  <2>8. Change(c, w)
    BY <1>1, <1>2, <1>4, <2>1, <2>6 DEF Change, PlanFrame
  <2>9. Own(c)'
    BY <2>1, <2>3, <2>4, <2>5, <2>6 DEF Own, Wave, Rec, Executing
  <2> QED
    BY <1>4, <2>3, <2>4, <2>6, <2>7, <2>8, <2>9, StepKeepsInv
<1> QED
  BY <1>3, <1>4

\* A command is refused or a check fails before the first persist.
LEMMA RefuseKeepsInv == ASSUME Inv, NEW c \in Controllers, Refuse(c) PROVE Inv'
  BY EndKeepsInv, ExecutorsStay DEF Refuse, replicas, history

\* A topology lease is taken, or all are released.
LEMMA TakeTopologyKeepsInv == ASSUME Inv, NEW c \in Controllers, TakeTopology(c) PROVE Inv'
<1>1. UNCHANGED <<stored, asked, executor>>
  BY DEF TakeTopology, replicas, history
<1>2. CASE End(c)
  BY <1>1, <1>2, EndKeepsInv, ExecutorsStay
<1>3. CASE /\ job' = [job EXCEPT ![c].held = @ \cup {Wanted(c)}] /\ UNCHANGED <<pc, lease>>
  <2> DEFINE j == [job[c] EXCEPT !.held = @ \cup {Wanted(c)}]
  <2>1. job[c] \in JobOf(Wave(c)) /\ DOMAIN job = Controllers /\ Wave(c) \in Waves /\ job[c].wave = Wave(c)
    BY DEF Inv, Typed, Wave
  <2>2. Wanted(c) \in Touched[Wave(c)]
    <3>1. job[c].held \subseteq Touched[Wave(c)] /\ Touched[Wave(c)] \subseteq Nat
      BY <2>1, WaveAssumption DEF JobOf, Topologies
    <3>2. Touched[Wave(c)] \ job[c].held # {}
      BY <3>1 DEF TakeTopology
    <3> QED
      BY <3>1, <3>2, FirstIsLeast DEF Wanted
  <2>3. j \in JobOf(Wave(c)) /\ j.wave = Wave(c) /\ j.rec = job[c].rec /\ j.todo = job[c].todo
    BY <2>1, <2>2 DEF JobOf
  <2>4. /\ DOMAIN job' = Controllers /\ \A d \in Controllers : d # c => job'[d] = job[d]
        /\ job'[c] = j
    BY <1>3, <2>1
  <2> HIDE DEF j
  <2>5. Own(c)'
    <3>1. /\ Wave(c)' = Wave(c) /\ Rec(c)' = Rec(c) /\ At(c)' = At(c) /\ Env(c)' = Env(c)
          /\ PlanOf(c)' = PlanOf(c) /\ HoldsWave(c)' = HoldsWave(c)
      BY <1>1, <1>3, <2>3, <2>4 DEF Wave, Rec, At, Back, Env, PlanOf, Kind, Entry, HoldsWave, stored
    <3>2. JobFits(pc[c], j, plan[Wave(c)], Wave(c) \in asked)
      <4>1. Pos(pc[c], j) = Pos(pc[c], job[c]) /\ JobFits(pc[c], job[c], plan[Wave(c)], Wave(c) \in asked)
        BY <2>3 DEF Pos, Inv, Own
      <4> QED
        BY <2>1, <2>3, <4>1 DEF JobFits
    <3> QED
      BY <1>1, <1>3, <2>4, <3>1, <3>2 DEF Own, Inv, stored
  <2> QED
    BY <1>1, <1>3, <2>1, <2>3, <2>4, <2>5, LocalStep, ExecutorsStay DEF Inv, Typed
<1> QED
  BY <1>2, <1>3 DEF TakeTopology

\* A controller crashes, or is stalled, or its leases lapse after it crashed.
LEMMA FaultsKeepInv ==
    ASSUME Inv, NEW c \in Controllers, Crash(c) \/ Expire(c) \/ Stall(c) PROVE Inv'
<1>1. UNCHANGED <<stored, asked>>
  BY DEF Crash, Expire, Stall, history
<1>2. ASSUME NEW ws \in SUBSET Waves, lease' = Unheld(lease, ws), \A v \in ws : lease[v] = c
      PROVE  /\ lease' \in [Waves -> Controllers \cup {Nobody}]
             /\ \A v \in Waves, d \in Controllers : d # c /\ lease'[v] = d => lease[v] = d
             /\ \A v \in Waves : lease'[v] = c => lease[v] = c
  BY <1>2, WaveAssumption DEF Unheld, Inv, Typed
<1>3. CASE Crash(c)
  <2>1. /\ pc' \in [Controllers -> Pcs] /\ DOMAIN job' = Controllers
        /\ \A d \in Controllers : d # c => pc'[d] = pc[d] /\ job'[d] = job[d]
        /\ pc'[c] = "dead" /\ job'[c] = NoJob
    BY <1>3 DEF Crash, Die, Goto, Inv, Typed, Pcs
  <2>2. ExecutorFrame(c) /\ UNCHANGED lease
    BY <1>3 DEF Crash, ExecutorFrame, Inv, Typed
  <2> QED
    BY <1>1, <2>1, <2>2, QuietOwn, NoJobTyped, LocalStep DEF Inv, Typed
<1>4. CASE Expire(c)
  <2>1. /\ pc' \in [Controllers -> Pcs] /\ pc'[c] = "idle" /\ \A d \in Controllers : d # c => pc'[d] = pc[d]
    BY <1>4 DEF Expire, Goto, Inv, Typed, Pcs
  <2>2. WavesOf(c) \in SUBSET Waves /\ \A v \in WavesOf(c) : lease[v] = c
    BY DEF WavesOf
  <2>3. UNCHANGED <<job, executor>> /\ lease' = Unheld(lease, WavesOf(c))
    BY <1>4 DEF Expire, replicas
  <2> QED
    BY <1>1, <1>2, <2>1, <2>2, <2>3, QuietOwn, LocalStep, ExecutorsStay DEF Inv, Typed
<1>5. CASE Stall(c)
  <2>1. UNCHANGED <<pc, job, executor>>
    BY <1>5 DEF Stall, replicas
  <2>2. PICK ws \in {{}, WavesOf(c)} : lease' = Unheld(lease, ws)
    BY <1>5 DEF Stall
  <2>3. ws \in SUBSET Waves /\ \A v \in ws : lease[v] = c
    BY <2>2 DEF WavesOf
  <2>4. /\ lease' \in [Waves -> Controllers \cup {Nobody}]
        /\ \A v \in Waves, d \in Controllers : d # c /\ lease'[v] = d => lease[v] = d
        /\ \A v \in Waves : lease'[v] = c => lease[v] = c
    BY <1>2, <2>2, <2>3
  <2>5. Own(c)'
    <3>1. Wave(c) \in Waves /\ Own(c)
      BY DEF Inv, Typed, Wave
    <3>2. /\ Wave(c)' = Wave(c) /\ Rec(c)' = Rec(c) /\ At(c)' = At(c) /\ Env(c)' = Env(c)
          /\ PlanOf(c)' = PlanOf(c) /\ (HoldsWave(c)' => HoldsWave(c))
      BY <1>1, <2>1, <2>4, <3>1 DEF Wave, Rec, At, Back, Env, PlanOf, Kind, Entry, HoldsWave, stored
    <3> QED
      BY <1>1, <2>1, <3>1, <3>2 DEF Own, stored
  <2> QED
    BY <1>1, <2>1, <2>4, <2>5, LocalStep, ExecutorsStay DEF Inv, Typed
<1> QED
  BY <1>3, <1>4, <1>5

\* A controller works on a position.
Working(c) == pc[c] \in (Advancing \cup Reversing) \ {"next"} \/ Target(c)

\* What is known of it, of its record and of the plans of its wave.
LEMMA WorkingFacts ==
    ASSUME Inv, NEW c \in Controllers, Working(c)
    PROVE  /\ Wave(c) \in Waves /\ Rec(c) \in Records(Wave(c)) /\ plan[Wave(c)] \in Plans(Wave(c))
           /\ wave[Wave(c)] \in Records(Wave(c)) /\ At(c) \in Order(Wave(c))
           /\ job[c].todo \subseteq Order(Wave(c)) /\ pc[c] \in Advancing \cup Reversing
           /\ Agrees(Wave(c), wave[Wave(c)], plan[Wave(c)], Wave(c) \in asked)
           /\ HoldsWave(c) => wave[Wave(c)] = Rec(c)
           /\ HoldsWave(c) <=> lease[Wave(c)] = c
           /\ Env(c) = Cohort[Wave(c)][At(c)] /\ Env(c) \in Envs
           /\ pc[c] \in Advancing =>
                /\ ~Back(c) /\ Rec(c).status \in Open /\ PendingAt(Rec(c)) # {}
                /\ At(c) = First(PendingAt(Rec(c)))
                /\ Rec(c).envs[At(c)].status \in Pending /\ Rec(c).envs[At(c)].plan = "upgrade"
                /\ plan[Wave(c)][At(c)].upgrade # "none"
                /\ pc[c] # "topology" => Rec(c).envs[At(c)].status = "Running"
           /\ pc[c] \in Reversing =>
                /\ Back(c) /\ Rec(c).status = "RollingBack" /\ Wave(c) \in asked
                /\ job[c].todo = {p \in Order(Wave(c)) :
                                    Rec(c).envs[p].status \in {"Succeeded", "AwaitingApproval"}}
                /\ At(c) \in job[c].todo
                /\ pc[c] # "next" => Rec(c).envs[At(c)].plan \in Rollbacks
<1>1. /\ Wave(c) \in Waves /\ Rec(c) \in Records(Wave(c)) /\ plan[Wave(c)] \in Plans(Wave(c))
      /\ wave[Wave(c)] \in Records(Wave(c)) /\ job[c].todo \subseteq Order(Wave(c))
      /\ Agrees(Wave(c), wave[Wave(c)], plan[Wave(c)], Wave(c) \in asked)
      /\ JobFits(pc[c], job[c], plan[Wave(c)], Wave(c) \in asked)
      /\ job[c].wave = Wave(c) /\ job[c].rec = Rec(c)
  BY DEF Inv, Typed, RecordsAgree, JobOf, Wave, Rec, Own
<1>2. pc[c] \in Advancing \cup Reversing /\ (Back(c) <=> pc[c] \in Reversing)
      /\ ~(pc[c] \in Advancing /\ pc[c] \in Reversing)
  BY DEF Working, Target, Back, Advancing, Reversing
<1>3. (HoldsWave(c) => wave[Wave(c)] = Rec(c)) /\ (HoldsWave(c) <=> lease[Wave(c)] = c)
  BY <1>2 DEF Inv, Own, HoldsWave
<1>4. At(c) = Pos(pc[c], job[c])
  BY DEF At, Pos, Back, Rec
<1>5. CASE pc[c] \in (Advancing \cup Reversing) \ {"next"}
  <2>1. At(c) \in Order(Wave(c)) /\ (pc[c] \in Reversing => At(c) \in job[c].todo)
        /\ (pc[c] \in Advancing => Rec(c).envs[At(c)].status \in Pending)
        /\ Env(c) \in Envs /\ Env(c) = Cohort[Wave(c)][At(c)]
    BY <1>1, <1>5, PosInOrder DEF Inv, Env
  <2>2. ASSUME pc[c] \in Advancing PROVE At(c) = First(PendingAt(Rec(c)))
    BY <1>1, <1>2, <1>4, <2>2 DEF Pos
  <2> QED
    BY <1>1, <1>2, <1>3, <1>4, <1>5, <2>1, <2>2 DEF JobFits
<1>6. CASE Target(c)
  <2>1. pc[c] = "next" /\ job[c].todo # {} /\ pc[c] \in Reversing
    BY <1>6 DEF Target, Reversing
  <2>2. At(c) = Last(job[c].todo)
    BY <1>4, <2>1 DEF Pos
  <2>3. At(c) \in job[c].todo /\ At(c) \in Order(Wave(c))
    BY <1>1, <2>1, <2>2, LastIsGreatest
  <2>4. Env(c) \in Envs /\ Env(c) = Cohort[Wave(c)][At(c)]
    BY <1>1, <2>3, WaveAssumption DEF Env, Order
  <2> QED
    BY <1>1, <1>2, <1>3, <2>1, <2>3, <2>4 DEF JobFits
<1> QED
  BY <1>5, <1>6 DEF Working

\* The record with a new status of the position at hand.
LEMMA OnFields ==
    ASSUME Inv, NEW c \in Controllers, Working(c), NEW st \in WaveStatus, NEW x \in Complete \cup Pending
    PROVE  LET n == On(c, st, x)
           IN  /\ n \in Records(Wave(c)) /\ n.status = st
               /\ n.envs[At(c)].status = x /\ n.envs[At(c)].plan = Rec(c).envs[At(c)].plan
               /\ \A q \in Order(Wave(c)) : q # At(c) => n.envs[q] = Rec(c).envs[q]
<1> DEFINE w == Wave(c)
           r == Rec(c)
           p == At(c)
<1>1. w \in Waves /\ r \in Records(w) /\ p \in Order(w)
  BY WorkingFacts
<1>2. On(c, st, x) = With(r, st, p, EntryStatus(r, p, x))
  BY DEF On
<1> HIDE DEF w, r, p
<1>3. LET n == With(r, st, p, EntryStatus(r, p, x))
      IN  /\ n \in Records(w) /\ n.status = st
          /\ n.envs[p].status = x /\ n.envs[p].plan = r.envs[p].plan
          /\ \A q \in Order(w) : q # p => n.envs[q] = r.envs[q]
  BY <1>1, MarkedFields
<1> QED
  BY <1>2, <1>3 DEF w, r, p

\* The wave waits for an approval.
LEMMA AwaitApprovalKeepsInv == ASSUME Inv, NEW c \in Controllers, AwaitApproval(c) PROVE Inv'
<1> DEFINE w == Wave(c)
           p == At(c)
           n == On(c, "AwaitingApproval", "AwaitingApproval")
<1>1. pc[c] \in Claiming /\ Persist(c, n, "end", {}) /\ UNCHANGED <<head, asked, plan, executor>>
  BY DEF AwaitApproval, replicas, history
<1>2. Working(c)
  BY <1>1 DEF Working, Claiming, Advancing, Reversing
<1>3. "AwaitingApproval" \in WaveStatus /\ "AwaitingApproval" \in Complete \cup Pending
  BY DEF WaveStatus, Pending
<1>4. /\ n \in Records(w) /\ n.status = "AwaitingApproval"
      /\ n.envs[p].status = "AwaitingApproval" /\ n.envs[p].plan = Rec(c).envs[p].plan
      /\ \A q \in Order(w) : q # p => n.envs[q] = Rec(c).envs[q]
  BY <1>2, <1>3, OnFields
<1> HIDE DEF n
<1>5. ASSUME HoldsWave(c) PROVE Agrees(w, n, plan[w], w \in asked)
  <2>1. Rec(c) = wave[w] /\ Agrees(w, Rec(c), plan[w], w \in asked)
    BY <1>2, <1>5, WorkingFacts
  <2>2. CASE pc[c] = "topology"
    <3>1. plan[w][p].upgrade # "succeeded" /\ pc[c] \in Advancing
      BY <1>5, <2>2 DEF Inv, Own, Advancing
    <3>2. /\ w \in Waves /\ Rec(c) \in Records(w) /\ plan[w] \in Plans(w) /\ p \in Order(w)
          /\ Rec(c).status \in Open /\ Rec(c).envs[p].status \in Pending /\ Rec(c).envs[p].plan = "upgrade"
      BY <1>2, <3>1, WorkingFacts
    <3> HIDE DEF w, p
    <3> QED
      BY <1>4, <2>1, <3>1, <3>2, PendKeepsAgrees
  <2>3. CASE pc[c] = "topologyBack"
    <3>1. pc[c] \in Reversing /\ pc[c] # "next"
      BY <2>3 DEF Reversing
    <3>2. w \in Waves /\ Rec(c) \in Records(w) /\ plan[w] \in Plans(w) /\ p \in Order(w)
          /\ w \in asked /\ Rec(c).envs[p].plan \in Rollbacks /\ Rec(c).envs[p].plan # "none"
      BY <1>2, <3>1, WorkingFacts DEF Rollbacks
    <3> HIDE DEF w, p
    <3> QED
      BY <1>4, <2>1, <3>2, UndoKeepsAgrees
  <2> QED
    BY <1>1, <2>2, <2>3 DEF Claiming
<1>6. w \in Waves /\ PlanFrame(c, w) /\ ExecutorFrame(c) /\ Agrees(w, wave[w], plan[w], w \in asked)
      /\ pc[c] \in Advancing \cup Reversing
  BY <1>1, <1>2, PlansStay, ExecutorsStay, WorkingFacts
<1> HIDE DEF w
<1>7. w = Wave(c)
  BY DEF w
<1> QED
  BY <1>1, <1>4, <1>5, <1>6, <1>7, PersistKeepsInv

\* An upgrade is recorded as running before it begins.
LEMMA MarkKeepsInv == ASSUME Inv, NEW c \in Controllers, Mark(c) PROVE Inv'
<1> DEFINE w == Wave(c)
           p == At(c)
           n == On(c, "Running", "Running")
           j == [job[c] EXCEPT !.rec = n]
<1>1. pc[c] = "topology" /\ UNCHANGED <<head, asked, plan, executor>>
  BY DEF Mark, replicas, history
<1>2. Working(c) /\ pc[c] \in Advancing
  BY <1>1 DEF Working, Advancing
<1>3. CASE ~HoldsWave(c)
  BY <1>1, <1>3, EndKeepsInv, ExecutorsStay DEF Mark, Fenced, stored
<1>4. CASE HoldsWave(c)
  <2>1. "Running" \in WaveStatus /\ "Running" \in Complete \cup Pending
    BY DEF WaveStatus, Pending
  <2>2. /\ n \in Records(w) /\ n.status = "Running"
        /\ n.envs[p].status = "Running" /\ n.envs[p].plan = Rec(c).envs[p].plan
        /\ \A q \in Order(w) : q # p => n.envs[q] = Rec(c).envs[q]
    BY <1>2, <2>1, OnFields
  <2>3. /\ wave' = [wave EXCEPT ![w] = n] /\ job' = [job EXCEPT ![c].rec = n]
        /\ Goto(c, "begin") /\ UNCHANGED lease
    BY <1>4 DEF Mark, Fenced
  <2> HIDE DEF n
  <2>4. job[c] \in JobOf(w) /\ DOMAIN job = Controllers /\ w \in Waves
    BY DEF Inv, Typed, Wave
  <2>5. j \in JobOf(w) /\ j.wave = w /\ j.rec = n
    BY <2>2, <2>4 DEF JobOf
  <2>6. /\ DOMAIN job' = Controllers /\ \A d \in Controllers : d # c => job'[d] = job[d]
        /\ job'[c] = j
    BY <2>3, <2>4
  <2> HIDE DEF j
  <2>7. /\ pc' \in [Controllers -> Pcs] /\ pc'[c] = "begin"
        /\ \A d \in Controllers : d # c => pc'[d] = pc[d]
        /\ wave'[w] = n /\ DOMAIN wave' = Waves /\ \A v \in Waves : v # w => wave'[v] = wave[v]
    BY <2>3, <2>4 DEF Goto, Inv, Typed, Pcs, Advancing
  <2>8. /\ Rec(c) \in Records(w) /\ Rec(c) = wave[w] /\ Agrees(w, Rec(c), plan[w], w \in asked)
        /\ plan[w] \in Plans(w) /\ p \in Order(w) /\ Rec(c).status \in Open
        /\ Rec(c).envs[p].status \in Pending /\ Rec(c).envs[p].plan = "upgrade"
        /\ plan[w][p].upgrade # "none" /\ p = First(PendingAt(Rec(c)))
        /\ PendingAt(Rec(c)) # {} /\ lease[w] = c
    BY <1>2, <1>4, WorkingFacts
  <2> HIDE DEF w, p
  <2>9. Agrees(w, n, plan[w], w \in asked)
    BY <2>2, <2>4, <2>8, PendKeepsAgrees
  <2>10. PendingAt(n) = PendingAt(Rec(c))
    BY <2>2, <2>4, <2>8, PendingStays DEF Pending
  <2>11. ~(w > head)
    <3>1. NoRecord(w).status = "Absent" /\ wave[w].status # "Absent"
      BY <2>8 DEF NoRecord, Open
    <3> QED
      BY <2>4, <3>1 DEF Inv, Unborn
  <2>12. Frame(c, w)
    <3>1. head \in 0..NumWaves /\ NumWaves \in Nat
      BY WaveAssumption DEF Inv, Typed
    <3> QED
      BY <1>1, <2>3, <2>6, <2>7, <3>1 DEF Frame, Inv, Typed
  <2>13. Change(c, w)
    BY <1>1, <2>2, <2>3, <2>4, <2>7, <2>8, <2>11 DEF Change, Later
  <2>14. JobFits("begin", j, plan[w], w \in asked)
    <3>1. Pos("begin", j) = p
      BY <2>5, <2>8, <2>10 DEF Pos, Reversing
    <3> QED
      BY <2>2, <2>5, <2>8, <2>10, <3>1 DEF JobFits, Reversing, Open, WaveStatus, WaveTerminal
  <2>15. Own(c)'
    BY <1>1, <2>5, <2>6, <2>7, <2>14 DEF Own, Wave, Rec, Executing
  <2> QED
    BY <1>1, <2>4, <2>5, <2>6, <2>7, <2>9, <2>12, <2>13, <2>15, StepKeepsInv
<1> QED
  BY <1>3, <1>4

\* The plan at hand is of a kind.
LEMMA KindOfWork ==
    ASSUME Inv, NEW c \in Controllers, Working(c), pc[c] # "next"
    PROVE  /\ Kind(c) \in Kinds /\ PlanOf(c) = plan[Wave(c)][At(c)][Kind(c)]
           /\ Back(c) => Kind(c) \in Rollbacks /\ Kind(c) # "upgrade"
           /\ ~Back(c) => Kind(c) = "upgrade"
<1>1. PlanOf(c) = plan[Wave(c)][At(c)][Kind(c)] /\ (Back(c) <=> pc[c] \in Reversing)
  BY DEF PlanOf, Back
<1>2. CASE Back(c)
  <2>1. Kind(c) \in Rollbacks
    BY <1>1, <1>2, WorkingFacts, PlanOfIs
  <2> QED
    BY <1>1, <1>2, <2>1, KindsAre
<1>3. CASE ~Back(c)
  BY <1>1, <1>3, PlanOfIs, KindsAre
<1> QED
  BY <1>2, <1>3

\* The plan at hand moves.
LEMMA SetPlanEffect ==
    ASSUME Inv, NEW c \in Controllers, Working(c), pc[c] # "next", NEW x \in PlanStates, SetPlan(c, x)
    PROVE  PlanSet(Wave(c), At(c), Kind(c), x)
<1> DEFINE w == Wave(c)
           p == At(c)
           kind == Kind(c)
<1>1. w \in Waves /\ p \in Order(w) /\ kind \in Kinds
  BY WorkingFacts, KindOfWork
<1>2. plan' = [plan EXCEPT ![w][p][kind] = x]
  BY DEF SetPlan
<1> HIDE DEF w, p, kind
<1>3. PlanSet(w, p, kind, x)
  BY <1>1, <1>2, AssignedPlan
<1> QED
  BY <1>3 DEF w, p, kind

\* So does an upgrade that cannot be loaded, and that is kept in mind.
LEMMA UnreadEffect ==
    ASSUME Inv, NEW c \in Controllers, Working(c), pc[c] # "next", NEW x \in PlanStates, Unread(c, x)
    PROVE  /\ PlanSet(Wave(c), At(c), Kind(c), x) /\ plan'[Wave(c)][At(c)].outcome = "unread"
           /\ Kind(c) = "upgrade" /\ ~Back(c)
<1> DEFINE w == Wave(c)
           p == At(c)
           s == plan[w]
           n == [s[p] EXCEPT !.upgrade = x, !.outcome = "unread"]
           t == [s EXCEPT ![p] = n]
<1>1. ~Back(c) /\ Kind(c) = "upgrade" /\ w \in Waves /\ p \in Order(w)
  BY WorkingFacts, KindOfWork DEF Unread
<1>2. DOMAIN plan = Waves /\ s \in [Order(w) -> PlansOfOne]
  BY <1>1 DEF Inv, Typed, Plans
<1>3. plan' = [plan EXCEPT ![w] = t]
  BY DEF Unread
<1> HIDE DEF w, p, s
<1>4. s[p] \in PlansOfOne
  BY <1>1, <1>2
<1>5. n \in PlansOfOne /\ n.upgrade = x /\ n.outcome = "unread"
      /\ n.rollback = s[p].rollback /\ n.again = s[p].again
  BY <1>4 DEF PlansOfOne
<1> HIDE DEF n
<1>6. t \in [Order(w) -> PlansOfOne] /\ t[p] = n /\ \A q \in Order(w) : q # p => t[q] = s[q]
  BY <1>1, <1>2, <1>5
<1> HIDE DEF t
<1>7. DOMAIN plan' = Waves /\ plan'[w] = t /\ \A v \in Waves : v # w => plan'[v] = plan[v]
  BY <1>1, <1>2, <1>3
<1>8. PlanSet(w, p, "upgrade", x) /\ plan'[w][p].outcome = "unread"
  BY <1>5, <1>6, <1>7, KindsAre DEF PlanSet, Moved, Plans, s
<1> QED
  BY <1>1, <1>8 DEF w, p

\* A plan that was not running is blocked or begins to run; one that its
\* controller executes ends; or nothing moves.
LEMMA PlanMoves ==
    ASSUME Inv, NEW c \in Controllers, Working(c), pc[c] # "next", NEW x \in PlanStates,
           PlanSet(Wave(c), At(c), Kind(c), x),
           \/ PlanOf(c) \in {"computed", "blocked"} /\ x \in {"blocked", "running"}
           \/ pc[c] \in Executing /\ HoldsWave(c) /\ x \in {"failed", "succeeded"}
           \/ PlanOf(c) = x
    PROVE  /\ PlanFrame(c, Wave(c))
           /\ Agrees(Wave(c), wave[Wave(c)], plan'[Wave(c)], Wave(c) \in asked)
           /\ Back(c) /\ x = "succeeded" =>
                "succeeded" \in {plan'[Wave(c)][At(c)].rollback, plan'[Wave(c)][At(c)].again}
           /\ ~Back(c) => plan'[Wave(c)][At(c)].upgrade = x
<1> DEFINE w == Wave(c)
           p == At(c)
           kind == Kind(c)
<1>1. /\ w \in Waves /\ p \in Order(w) /\ plan[w] \in Plans(w) /\ wave[w] \in Records(w)
      /\ Agrees(w, wave[w], plan[w], w \in asked) /\ Env(c) = Cohort[w][p]
      /\ (HoldsWave(c) => wave[w] = Rec(c) /\ lease[w] = c)
  BY WorkingFacts
<1>2. PlanSet(w, p, kind, x)
  OBVIOUS
<1>3. /\ kind \in Kinds /\ PlanOf(c) = plan[w][p][kind]
      /\ Back(c) => kind \in Rollbacks /\ kind # "upgrade"
      /\ ~Back(c) => kind = "upgrade"
  BY KindOfWork
<1>4. pc[c] \in Executing => PlanOf(c) = "running" /\ executor[Env(c)] = c
  BY DEF Inv, Own
<1>5. pc[c] \in Executing /\ HoldsWave(c) /\ ~Back(c) =>
        wave[w].envs[p].status = "Running" /\ wave[w].envs[p].plan = "upgrade"
        /\ wave[w].status # "RolledBack"
  <2> SUFFICES ASSUME pc[c] \in Executing, HoldsWave(c), ~Back(c)
               PROVE  Rec(c).envs[p].status = "Running" /\ Rec(c).envs[p].plan = "upgrade"
                      /\ Rec(c).status # "RolledBack"
    BY <1>1
  <2>1. pc[c] \in Advancing /\ pc[c] # "topology"
    BY DEF Executing, Back, Advancing, Reversing
  <2> QED
    BY <2>1, WorkingFacts DEF Open, WaveTerminal
<1> HIDE DEF w, p, kind
<1>6. PlanFrame(c, w)
  <2>1. plan[w][p][kind] # "none" => x # "none"
    BY <1>3
  <2>2. plan[w][p][kind] # "succeeded" /\ x = "succeeded" => lease[w] = c
    BY <1>1, <1>3
  <2>3. plan[w][p][kind] = "running" /\ x # "running" => executor[Cohort[w][p]] \in {c, Nobody}
    BY <1>1, <1>3, <1>4
  <2> QED
    BY <1>1, <1>2, <1>3, <2>1, <2>2, <2>3, PlanSetFrame
<1>7. Agrees(w, wave[w], plan'[w], w \in asked)
  <2> DEFINE t == plan'[w]
             s == plan[w]
             r == wave[w]
  <2>1. \/ t[p][kind] = s[p][kind]
        \/ /\ s[p][kind] \in {"computed", "blocked", "running"}
           /\ t[p][kind] \in {"blocked", "running", "failed", "succeeded"}
           /\ kind = "upgrade" /\ t[p][kind] = "succeeded" =>
                /\ r.envs[p].status = "Running" /\ r.envs[p].plan = "upgrade"
                /\ r.status # "RolledBack"
    <3>1. t[p][kind] = x /\ s[p][kind] = PlanOf(c)
      BY <1>2, <1>3 DEF PlanSet
    <3> QED
      BY <1>3, <1>4, <1>5, <3>1
  <2>2. t \in Plans(w) /\ s \in Plans(w) /\ r \in Records(w) /\ Agrees(w, r, s, w \in asked)
        /\ Moved(w, p, kind, s, t)
    BY <1>1, <1>2 DEF PlanSet
  <2> HIDE DEF t, s, r
  <2>3. Agrees(w, r, t, w \in asked)
    BY <1>1, <1>3, <2>1, <2>2, PlanKeepsAgrees
  <2> QED
    BY <2>3 DEF t, r
<1>8. /\ Back(c) /\ x = "succeeded" => "succeeded" \in {plan'[w][p].rollback, plan'[w][p].again}
      /\ ~Back(c) => plan'[w][p].upgrade = x
  BY <1>2, <1>3, KindsAre DEF PlanSet
<1> QED
  BY <1>6, <1>7, <1>8 DEF w, p

\* The process ends.
LEMMA DieKeepsInv ==
    ASSUME Inv, NEW c \in Controllers, NEW w \in Waves, Die(c), UNCHANGED <<head, wave, lease, asked>>,
           PlanFrame(c, w), ExecutorFrame(c), Agrees(w, wave[w], plan'[w], w \in asked)
    PROVE  Inv'
<1>1. /\ pc' \in [Controllers -> Pcs] /\ DOMAIN job' = Controllers
      /\ \A d \in Controllers : d # c => pc'[d] = pc[d] /\ job'[d] = job[d]
      /\ pc'[c] = "dead" /\ job'[c] = NoJob
  BY DEF Die, Goto, Inv, Typed, Pcs
<1>2. head \in 0..NumWaves /\ NumWaves \in Nat
  BY WaveAssumption DEF Inv, Typed
<1>3. Frame(c, w)
  BY <1>1, <1>2 DEF Frame, PlanFrame, ExecutorFrame, Inv, Typed
<1>4. Change(c, w)
  BY DEF Change, PlanFrame, Inv, Typed, Unborn
<1> QED
  BY <1>1, <1>3, <1>4, QuietOwn, NoJobTyped, StepKeepsInv

\* An upgrade's outcome x is recorded.
LEMMA SettleUpgradeKeepsInv ==
    ASSUME Inv, NEW c \in Controllers, pc[c] \in {"begin", "executing"}, NEW x \in PlanStates, NEW ok,
           SettleUpgrade(c, x, ok), UNCHANGED <<head, asked>>, PlanFrame(c, Wave(c)), ExecutorFrame(c),
           Agrees(Wave(c), wave[Wave(c)], plan'[Wave(c)], Wave(c) \in asked),
           plan'[Wave(c)][At(c)].upgrade = x, x # "none"
    PROVE  Inv'
<1> DEFINE w == Wave(c)
           p == At(c)
           r == Rec(c)
<1>1. pc[c] \in Advancing /\ Working(c)
  BY DEF Advancing, Working
<1>2. /\ w \in Waves /\ r \in Records(w) /\ p \in Order(w) /\ r.status \in Open
      /\ (HoldsWave(c) => wave[w] = r)
      /\ r.envs[p].status \in Pending /\ r.envs[p].plan = "upgrade" /\ plan'[w] \in Plans(w)
  BY <1>1, WorkingFacts DEF PlanFrame
<1>3. HoldsWave(c) => Agrees(w, r, plan'[w], w \in asked)
  BY <1>2
<1>4. ASSUME NEW n \in Records(w), Persist(c, n, "end", {}),
             HoldsWave(c) => Agrees(w, n, plan'[w], w \in asked)
      PROVE  Inv'
  BY <1>1, <1>2, <1>4, PersistKeepsInv
<1>5. ASSUME NEW st \in {"RecoveryRequired", "AwaitingApproval"}, NEW y \in {"Running", "AwaitingApproval"},
             Persist(c, On(c, st, y), "end", {}), y = "AwaitingApproval" => x = "computed"
      PROVE  Inv'
  <2> DEFINE n == On(c, st, y)
  <2>1. st \in WaveStatus /\ y \in Complete \cup Pending
    BY DEF WaveStatus, WaveTerminal, Pending
  <2>2. /\ n \in Records(w) /\ n.status = st
        /\ n.envs[p].status = y /\ n.envs[p].plan = r.envs[p].plan
        /\ \A q \in Order(w) : q # p => n.envs[q] = r.envs[q]
    BY <1>1, <2>1, OnFields
  <2>3. plan'[w][p].upgrade = x
    OBVIOUS
  <2> HIDE DEF n, w, p, r
  <2>4. HoldsWave(c) => Agrees(w, n, plan'[w], w \in asked)
    BY <1>2, <1>3, <1>5, <2>2, <2>3, PendKeepsAgrees
  <2> QED
    BY <1>4, <1>5, <2>2, <2>4 DEF n
<1>6. CASE x = "running" \/ (x = "succeeded" /\ ~ok)
  BY <1>5, <1>6 DEF SettleUpgrade
<1>7. CASE x = "computed"
  BY <1>5, <1>7 DEF SettleUpgrade
<1>8. CASE x \in Ended /\ ~(x = "running" \/ (x = "succeeded" /\ ~ok))
  <2>1. Persist(c, Settled(w, r, p, x), "end", {})
    BY <1>8 DEF SettleUpgrade, Ended
  <2>2. plan'[w][p].upgrade = x
    OBVIOUS
  <2>3. CASE HoldsWave(c)
    <3> HIDE DEF w, p, r
    <3>1. Settled(w, r, p, x) \in Records(w) /\ Agrees(w, Settled(w, r, p, x), plan'[w], w \in asked)
      BY <1>2, <1>3, <1>8, <2>2, <2>3, SettleKeepsAgrees
    <3> QED
      BY <1>4, <2>1, <3>1
  <2>4. CASE ~HoldsWave(c)
    <3>1. Persist(c, r, "end", {})
      BY <2>1, <2>4 DEF Persist, Fenced
    <3> QED
      BY <1>2, <1>4, <2>4, <3>1
  <2> QED
    BY <2>3, <2>4
<1> QED
  BY <1>6, <1>7, <1>8 DEF PlanStates, Started, Ended

\* An upgrade that could not be loaded is recorded as awaiting its approval.
LEMMA UnreadKeepsInv ==
    ASSUME Inv, NEW c \in Controllers, pc[c] \in {"begin", "topologyBack"} \cup Executing,
           NEW x \in PlanStates, Unread(c, x), UNCHANGED <<head, asked>>, ExecutorFrame(c),
           \/ PlanOf(c) \in {"computed", "blocked"} /\ x \in {"blocked", "running"}
           \/ pc[c] \in Executing /\ HoldsWave(c) /\ x \in {"failed", "succeeded"}
           \/ PlanOf(c) = x
    PROVE  Inv'
<1> DEFINE w == Wave(c)
           p == At(c)
           r == Rec(c)
           n == On(c, "AwaitingApproval", "AwaitingApproval")
<1>1. ~Back(c) /\ Persist(c, n, "end", {})
  BY DEF Unread
<1>2. pc[c] \in Advancing /\ Working(c) /\ pc[c] # "next"
  BY <1>1 DEF Advancing, Reversing, Executing, Back, Working
<1>3. /\ w \in Waves /\ r \in Records(w) /\ p \in Order(w) /\ r.status \in Open
      /\ (HoldsWave(c) => wave[w] = r)
      /\ r.envs[p].status \in Pending /\ r.envs[p].plan = "upgrade"
  BY <1>2, WorkingFacts
<1>4. PlanSet(w, p, Kind(c), x) /\ plan'[w][p].outcome = "unread"
  BY <1>2, UnreadEffect
<1>5. PlanFrame(c, w) /\ Agrees(w, wave[w], plan'[w], w \in asked)
  BY <1>2, <1>4, PlanMoves
<1>6. "AwaitingApproval" \in WaveStatus /\ "AwaitingApproval" \in Complete \cup Pending
  BY DEF WaveStatus, Pending
<1>7. /\ n \in Records(w) /\ n.status = "AwaitingApproval"
      /\ n.envs[p].status = "AwaitingApproval" /\ n.envs[p].plan = r.envs[p].plan
      /\ \A q \in Order(w) : q # p => n.envs[q] = r.envs[q]
  BY <1>2, <1>6, OnFields
<1>8. plan'[w] \in Plans(w) /\ w = Wave(c)
  BY <1>5 DEF PlanFrame
<1> HIDE DEF n, w, p, r
<1>9. ASSUME HoldsWave(c) PROVE Agrees(w, n, plan'[w], w \in asked)
  <2>1. Agrees(w, r, plan'[w], w \in asked)
    BY <1>3, <1>5, <1>9
  <2> QED
    BY <1>3, <1>4, <1>7, <1>8, <2>1, PendKeepsAgrees
<1> QED
  BY <1>1, <1>2, <1>3, <1>5, <1>7, <1>8, <1>9, PersistKeepsInv

\* A rollback goes on to its next target.
LEMMA NextTargetFits ==
    ASSUME Inv, NEW c \in Controllers, Working(c), pc[c] \in Reversing, NEW n \in Records(Wave(c)),
           n.status = "RollingBack", NEW s,
           n.envs[At(c)].status \notin {"Succeeded", "AwaitingApproval"},
           \A q \in Order(Wave(c)) : q # At(c) => n.envs[q] = Rec(c).envs[q]
    PROVE  /\ Rest(c) \subseteq Order(Wave(c))
           /\ JobFits("next", [wave |-> Wave(c), rec |-> n, todo |-> Rest(c), held |-> {}], s,
                      Wave(c) \in asked)
<1> DEFINE w == Wave(c)
           p == At(c)
           j == [wave |-> Wave(c), rec |-> n, todo |-> Rest(c), held |-> {}]
<1>1. /\ job[c].todo = {q \in Order(w) : Rec(c).envs[q].status \in {"Succeeded", "AwaitingApproval"}}
      /\ w \in asked
  BY WorkingFacts
<1>2. Rest(c) = {q \in Order(w) : n.envs[q].status \in {"Succeeded", "AwaitingApproval"}}
  BY <1>1 DEF Rest
<1>3. j.wave = w /\ j.rec = n /\ j.todo = Rest(c)
  OBVIOUS
<1> HIDE DEF j, w
<1>4. JobFits("next", j, s, w \in asked)
  BY <1>1, <1>2, <1>3 DEF JobFits, Advancing
<1> QED
  BY <1>2, <1>4 DEF j, w

\* A rollback's outcome x is recorded.
LEMMA SettleRollbackKeepsInv ==
    ASSUME Inv, NEW c \in Controllers, pc[c] \in {"topologyBack", "executingBack"}, NEW x, NEW ok,
           SettleRollback(c, x, ok), UNCHANGED <<head, asked>>, PlanFrame(c, Wave(c)), ExecutorFrame(c),
           Agrees(Wave(c), wave[Wave(c)], plan'[Wave(c)], Wave(c) \in asked),
           ok => x \in Ended,
           ok /\ x = "succeeded" =>
              "succeeded" \in {plan'[Wave(c)][At(c)].rollback, plan'[Wave(c)][At(c)].again}
    PROVE  Inv'
<1> DEFINE w == Wave(c)
           p == At(c)
           r == Rec(c)
<1>1. pc[c] \in Reversing /\ pc[c] # "next" /\ Working(c)
  BY DEF Reversing, Working
<1>2. /\ w \in Waves /\ r \in Records(w) /\ p \in Order(w) /\ r.status = "RollingBack"
      /\ (HoldsWave(c) => wave[w] = r) /\ w \in asked
      /\ r.envs[p].plan \in Rollbacks /\ r.envs[p].plan # "none" /\ plan'[w] \in Plans(w)
  BY <1>1, WorkingFacts DEF PlanFrame, Rollbacks
<1>3. HoldsWave(c) => Agrees(w, r, plan'[w], w \in asked)
  BY <1>2
<1>4. CASE ~ok
  <2> DEFINE n == [r EXCEPT !.status = "RecoveryRequired"]
  <2>1. n \in Records(w) /\ n.status = "RecoveryRequired" /\ n.envs = r.envs
    BY <1>2, StatusFields DEF WaveStatus, WaveTerminal
  <2>2. Persist(c, n, "end", {})
    BY <1>4 DEF SettleRollback
  <2> HIDE DEF n
  <2>3. HoldsWave(c) => Agrees(w, n, plan'[w], w \in asked)
    <3> HIDE DEF w, r
    <3> QED
      BY <1>2, <1>3, <2>1, StatusKeepsAgrees
  <2> QED
    BY <1>1, <1>2, <2>1, <2>2, <2>3, PersistKeepsInv
<1>5. CASE ok
  <2>1. ASSUME NEW st \in WaveStatus, st # "RolledBack", NEW y \in {"RolledBack", "Failed", "Blocked"},
               y = "RolledBack" => x = "succeeded"
        PROVE  LET n == On(c, st, y)
               IN  /\ n \in Records(w) /\ n.status = st /\ n.envs[p].status = y
                   /\ \A q \in Order(w) : q # p => n.envs[q] = r.envs[q]
                   /\ HoldsWave(c) => Agrees(w, n, plan'[w], w \in asked)
    <3> DEFINE n == On(c, st, y)
    <3>1. y \in Complete \cup Pending
      BY DEF Complete
    <3>2. /\ n \in Records(w) /\ n.status = st
          /\ n.envs[p].status = y /\ n.envs[p].plan = r.envs[p].plan
          /\ \A q \in Order(w) : q # p => n.envs[q] = r.envs[q]
      BY <1>1, <3>1, OnFields
    <3>3. x = "succeeded" => "succeeded" \in {plan'[w][p].rollback, plan'[w][p].again}
      BY <1>5
    <3> HIDE DEF n, w, p, r
    <3>4. HoldsWave(c) => Agrees(w, n, plan'[w], w \in asked)
      BY <1>2, <1>3, <2>1, <3>2, <3>3, UndoKeepsAgrees
    <3> QED
      BY <3>2, <3>4 DEF n
  <2>2. CASE x = "succeeded"
    <3> DEFINE n == On(c, r.status, "RolledBack")
    <3>1. Persist(c, n, "next", Rest(c))
      BY <1>5, <2>2 DEF SettleRollback
    <3>2. r.status \in WaveStatus /\ r.status # "RolledBack"
      BY <1>2 DEF WaveStatus
    <3>3. /\ n \in Records(w) /\ n.status = "RollingBack" /\ n.envs[p].status = "RolledBack"
          /\ \A q \in Order(w) : q # p => n.envs[q] = r.envs[q]
          /\ HoldsWave(c) => Agrees(w, n, plan'[w], w \in asked)
      BY <1>2, <2>1, <2>2, <3>2
    <3> HIDE DEF n
    <3>4. /\ Rest(c) \subseteq Order(w)
          /\ JobFits("next", [wave |-> w, rec |-> n, todo |-> Rest(c), held |-> {}], plan'[w], w \in asked)
      BY <1>1, <3>3, NextTargetFits
    <3> QED
      BY <1>1, <1>2, <3>1, <3>3, <3>4, PersistKeepsInv
  <2>3. CASE x # "succeeded"
    <3> DEFINE n == On(c, "RecoveryRequired", Verdict(x))
    <3>1. Persist(c, n, "end", {})
      BY <1>5, <2>3 DEF SettleRollback
    <3>2. Verdict(x) \in {"Failed", "Blocked"} /\ "RecoveryRequired" \in WaveStatus
      BY <1>5, <2>3 DEF Verdict, Ended, WaveStatus, WaveTerminal
    <3>3. n \in Records(w) /\ (HoldsWave(c) => Agrees(w, n, plan'[w], w \in asked))
      BY <2>1, <3>2
    <3> HIDE DEF n
    <3> QED
      BY <1>1, <1>2, <3>1, <3>3, PersistKeepsInv
  <2> QED
    BY <2>2, <2>3
<1> QED
  BY <1>4, <1>5

\* The execution returned: its outcome is recorded either way.
LEMMA SettleKeepsInv ==
    ASSUME Inv, NEW c \in Controllers, pc[c] \in {"begin", "topologyBack"} \cup Executing,
           NEW x \in PlanStates, NEW ok, Settle(c, x, ok), UNCHANGED <<head, asked>>,
           PlanFrame(c, Wave(c)), ExecutorFrame(c),
           Agrees(Wave(c), wave[Wave(c)], plan'[Wave(c)], Wave(c) \in asked),
           Back(c) /\ ok => x \in Ended,
           Back(c) /\ ok /\ x = "succeeded" =>
              "succeeded" \in {plan'[Wave(c)][At(c)].rollback, plan'[Wave(c)][At(c)].again},
           ~Back(c) => x # "none" /\ plan'[Wave(c)][At(c)].upgrade = x
    PROVE  Inv'
<1>1. CASE Back(c)
  <2>1. pc[c] \in {"topologyBack", "executingBack"} /\ SettleRollback(c, x, ok)
    BY <1>1 DEF Back, Reversing, Executing, Settle
  <2> QED
    BY <1>1, <2>1, SettleRollbackKeepsInv
<1>2. CASE ~Back(c)
  <2>1. pc[c] \in {"begin", "executing"} /\ SettleUpgrade(c, x, ok)
    BY <1>2 DEF Back, Reversing, Executing, Settle
  <2> QED
    BY <1>2, <2>1, SettleUpgradeKeepsInv
<1> QED
  BY <1>1, <1>2

\* The plan at hand ended, and its controller records it or dies.
LEMMA EndsKeepsInv ==
    ASSUME Inv, NEW c \in Controllers, pc[c] \in {"begin", "topologyBack"} \cup Executing,
           NEW x \in Ended, Ends(c, x), UNCHANGED <<head, asked>>, ExecutorFrame(c),
           \/ PlanOf(c) \in {"computed", "blocked"} /\ x = "blocked"
           \/ pc[c] \in Executing /\ HoldsWave(c) /\ x \in {"failed", "succeeded"}
    PROVE  Inv'
<1>1. Working(c) /\ x \in PlanStates /\ x # "none"
  BY DEF Working, Executing, Advancing, Reversing, Ended, PlanStates, Started
<1>2. CASE Unread(c, x)
  BY <1>1, <1>2, UnreadKeepsInv
<1>3. ASSUME SetPlan(c, x), Settle(c, x, TRUE) \/ (Die(c) /\ UNCHANGED <<wave, lease, top>>)
      PROVE  Inv'
  <2>1. pc[c] # "next"
    BY DEF Executing
  <2>2. PlanSet(Wave(c), At(c), Kind(c), x)
    BY <1>1, <1>3, <2>1, SetPlanEffect
  <2>3. /\ PlanFrame(c, Wave(c)) /\ Wave(c) \in Waves
        /\ Agrees(Wave(c), wave[Wave(c)], plan'[Wave(c)], Wave(c) \in asked)
        /\ Back(c) /\ x = "succeeded" =>
             "succeeded" \in {plan'[Wave(c)][At(c)].rollback, plan'[Wave(c)][At(c)].again}
        /\ ~Back(c) => plan'[Wave(c)][At(c)].upgrade = x
    BY <1>1, <2>1, <2>2, PlanMoves, WorkingFacts
  <2>4. CASE Settle(c, x, TRUE)
    BY <1>1, <2>3, <2>4, SettleKeepsInv
  <2>5. CASE Die(c) /\ UNCHANGED <<wave, lease, top>>
    BY <2>3, <2>5, DieKeepsInv
  <2> QED
    BY <1>3, <2>4, <2>5
<1> QED
  BY <1>2, <1>3 DEF Ends

\* A controller that is ready works on a position.
LEMMA ReadyWorks ==
    ASSUME NEW c \in Controllers, Ready(c) PROVE Working(c) /\ pc[c] \in {"begin", "topologyBack"}
  BY DEF Ready, Working, Advancing, Reversing

\* The execution is refused, blocked, or a lost lease is noticed.
LEMMA NotExecutedKeepsInv == ASSUME Inv, NEW c \in Controllers, NotExecuted(c) PROVE Inv'
<1>1. Working(c) /\ pc[c] \in {"begin", "topologyBack"} /\ UNCHANGED <<head, asked, executor>>
      /\ ExecutorFrame(c)
  BY ReadyWorks, ExecutorsStay DEF NotExecuted, replicas, history
<1>2. /\ Wave(c) \in Waves /\ At(c) \in Order(Wave(c)) /\ plan[Wave(c)] \in Plans(Wave(c))
      /\ Agrees(Wave(c), wave[Wave(c)], plan[Wave(c)], Wave(c) \in asked)
      /\ (~Back(c) => PlanOf(c) = plan[Wave(c)][At(c)].upgrade /\ PlanOf(c) # "none")
  <2>1. ~Back(c) => pc[c] \in Advancing
    BY <1>1 DEF Back, Advancing, Reversing
  <2> QED
    BY <1>1, <2>1, WorkingFacts, PlanOfIs DEF Back
<1>3. PlanOf(c) \in PlanStates
  <2>1. PlanOf(c) = plan[Wave(c)][At(c)][Kind(c)] /\ Kind(c) \in {"upgrade", "rollback", "again"}
    BY <1>1, KindOfWork, KindsAre
  <2>2. plan[Wave(c)][At(c)] \in PlansOfOne
    BY <1>2 DEF Plans
  <2> QED
    BY <2>1, <2>2 DEF PlansOfOne
<1>4. CASE Settle(c, PlanOf(c), FALSE) /\ UNCHANGED plan
  BY <1>1, <1>2, <1>3, <1>4, SettleKeepsInv, PlansStay
<1>5. CASE PlanOf(c) \in {"computed", "blocked"} /\ Ends(c, "blocked")
  BY <1>1, <1>5, EndsKeepsInv DEF Ended
<1>6. CASE PlanOf(c) \in {"computed", "blocked"} /\ SetPlan(c, "running") /\ Settle(c, "running", FALSE)
  <2>1. "running" \in PlanStates
    BY DEF PlanStates, Started
  <2>2. PlanSet(Wave(c), At(c), Kind(c), "running")
    BY <1>1, <1>6, <2>1, SetPlanEffect
  <2>3. /\ PlanFrame(c, Wave(c))
        /\ Agrees(Wave(c), wave[Wave(c)], plan'[Wave(c)], Wave(c) \in asked)
        /\ ~Back(c) => plan'[Wave(c)][At(c)].upgrade = "running"
    BY <1>1, <1>6, <2>1, <2>2, PlanMoves
  <2> QED
    BY <1>1, <1>6, <2>1, <2>3, SettleKeepsInv
<1>7. CASE Unread(c, PlanOf(c))
  BY <1>1, <1>3, <1>7, UnreadKeepsInv
<1>8. CASE PlanOf(c) \in {"computed", "blocked"} /\ Unread(c, "running")
  BY <1>1, <1>8, UnreadKeepsInv DEF PlanStates, Started
<1> QED
  BY <1>4, <1>5, <1>6, <1>7, <1>8 DEF NotExecuted

\* The execution begins.
LEMMA ExecuteKeepsInv == ASSUME Inv, NEW c \in Controllers, Execute(c) PROVE Inv'
<1> DEFINE w == Wave(c)
           p == At(c)
           x == IF Back(c) THEN "executingBack" ELSE "executing"
<1>1. /\ Working(c) /\ pc[c] \in {"begin", "topologyBack"} /\ UNCHANGED <<head, wave, lease, job, asked>>
      /\ HoldsWave(c) /\ PlanOf(c) \in {"computed", "blocked"} /\ executor[Env(c)] = Nobody
      /\ SetPlan(c, "running") /\ executor' = [executor EXCEPT ![Env(c)] = c] /\ Goto(c, x)
  BY ReadyWorks DEF Execute, Validates, HoldsAll
<1>2. "running" \in PlanStates
  BY DEF PlanStates, Started
<1>3. /\ PlanFrame(c, w) /\ Agrees(w, wave[w], plan'[w], w \in asked)
      /\ plan'[w][p][Kind(c)] = "running"
      /\ ~Back(c) => plan'[w][p].upgrade = "running"
  <2>1. PlanSet(w, p, Kind(c), "running")
    BY <1>1, <1>2, SetPlanEffect
  <2> QED
    BY <1>1, <1>2, <2>1, PlanMoves DEF PlanSet
<1>4. w \in Waves /\ wave[w] \in Records(w) /\ Env(c) \in Envs /\ p \in Order(w)
      /\ JobFits(pc[c], job[c], plan[w], w \in asked) /\ Rec(c) = wave[w]
      /\ job[c].wave = w /\ job[c] \in JobOf(w)
  BY <1>1, WorkingFacts DEF Inv, Own, Typed, Wave
<1>5. x \in Executing /\ x \in Pcs /\ (Back(c) => x = "executingBack") /\ (~Back(c) => x = "executing")
      /\ (x \in Reversing <=> Back(c)) /\ (Back(c) => pc[c] = "topologyBack")
      /\ (~Back(c) => pc[c] = "begin")
  BY <1>1 DEF Executing, Pcs, Advancing, Reversing, Back
<1> HIDE DEF x
<1>6. pc' \in [Controllers -> Pcs] /\ pc'[c] = x /\ \A d \in Controllers : d # c => pc'[d] = pc[d]
  BY <1>1, <1>5 DEF Goto, Inv, Typed
<1>7. ExecutorFrame(c) /\ executor'[Env(c)] = c
  BY <1>1, <1>4, WaveAssumption DEF ExecutorFrame, Inv, Typed
<1>8. Frame(c, w)
  <2>1. head \in 0..NumWaves /\ NumWaves \in Nat
    BY WaveAssumption DEF Inv, Typed
  <2> QED
    BY <1>1, <1>3, <1>6, <1>7, <2>1 DEF Frame, PlanFrame, ExecutorFrame, Inv, Typed
<1>9. Change(c, w)
  BY <1>1, <1>3, <1>4 DEF Change, PlanFrame, Inv, Unborn
<1>10. /\ Wave(c)' = Wave(c) /\ Rec(c)' = Rec(c) /\ At(c)' = At(c) /\ Env(c)' = Env(c)
       /\ Back(c)' = Back(c)
  <2>1. Back(c)' = Back(c)
    BY <1>5, <1>6 DEF Back
  <2> QED
    BY <1>1, <2>1 DEF Wave, Rec, At, Env
<1>11. JobFits(x, job[c], plan'[w], w \in asked)
  <2>1. Pos(x, job[c]) = p
    BY <1>5 DEF Pos, At, Rec, Back
  <2>2. Pos(pc[c], job[c]) = p
    BY DEF Pos, At, Rec, Back
  <2>3. CASE Back(c)
    <3>1. pc[c] = "topologyBack" /\ x = "executingBack" /\ pc[c] \in Reversing /\ x \in Reversing
          /\ x \notin Advancing /\ x # "next" /\ pc[c] # "next"
      BY <1>5, <2>3 DEF Advancing, Reversing
    <3> QED
      BY <1>4, <2>1, <2>2, <3>1 DEF JobFits
  <2>4. CASE ~Back(c)
    <3>1. pc[c] = "begin" /\ x = "executing" /\ pc[c] \in Advancing /\ x \in Advancing
          /\ x \notin Reversing /\ pc[c] # "topology"
      BY <1>5, <2>4 DEF Advancing, Reversing
    <3>2. plan'[w][p].upgrade # "none"
      BY <1>3, <2>4
    <3> QED
      BY <1>4, <2>1, <2>2, <3>1, <3>2 DEF JobFits
  <2> QED
    BY <2>3, <2>4
<1>12. PlanOf(c)' = "running"
  <2>1. Kind(c)' = Kind(c)
    BY <1>10 DEF Kind, Entry
  <2> QED
    BY <1>3, <1>10, <2>1 DEF PlanOf
<1>13. Own(c)'
  BY <1>1, <1>4, <1>5, <1>6, <1>7, <1>10, <1>11, <1>12 DEF Own
<1> HIDE DEF w, p
<1> QED
  BY <1>1, <1>3, <1>4, <1>8, <1>9, <1>13, StepKeepsInv

\* The execution ends.
LEMMA EndExecutionKeepsInv == ASSUME Inv, NEW c \in Controllers, EndExecution(c) PROVE Inv'
<1>1. /\ pc[c] \in Executing /\ HoldsWave(c) /\ UNCHANGED <<head, asked>>
      /\ executor' = [executor EXCEPT ![Env(c)] = Nobody]
  BY DEF EndExecution, Validates, HoldsAll, history
<1>2. executor[Env(c)] = c
  BY <1>1 DEF Inv, Own
<1>3. ExecutorFrame(c)
  BY <1>1, <1>2 DEF ExecutorFrame, Inv, Typed
<1>4. CASE Ends(c, "succeeded") \/ Ends(c, "failed")
  BY <1>1, <1>3, <1>4, EndsKeepsInv DEF Ended
<1>5. CASE SetPlan(c, "succeeded") /\ Settle(c, "succeeded", FALSE)
  <2>1. Working(c) /\ "succeeded" \in PlanStates
    BY <1>1 DEF Working, Executing, Advancing, Reversing, PlanStates, Started
  <2>2. PlanSet(Wave(c), At(c), Kind(c), "succeeded") /\ pc[c] # "next"
    BY <1>1, <1>5, <2>1, SetPlanEffect DEF Executing
  <2>3. /\ PlanFrame(c, Wave(c))
        /\ Agrees(Wave(c), wave[Wave(c)], plan'[Wave(c)], Wave(c) \in asked)
        /\ ~Back(c) => plan'[Wave(c)][At(c)].upgrade = "succeeded"
    BY <1>1, <2>1, <2>2, PlanMoves
  <2> QED
    BY <1>1, <1>3, <1>5, <2>1, <2>3, SettleKeepsInv
<1> QED
  BY <1>4, <1>5 DEF EndExecution

\* A lease is lost in the middle of an execution.
LEMMA FenceLostKeepsInv == ASSUME Inv, NEW c \in Controllers, FenceLost(c) PROVE Inv'
<1>1. /\ pc[c] \in Executing /\ UNCHANGED <<head, asked>>
      /\ executor' = [executor EXCEPT ![Env(c)] = Nobody]
  BY DEF FenceLost, history
<1>2. executor[Env(c)] = c /\ PlanOf(c) = "running"
  BY <1>1 DEF Inv, Own
<1>3. ExecutorFrame(c)
  BY <1>1, <1>2 DEF ExecutorFrame, Inv, Typed
<1>4. Working(c) /\ "running" \in PlanStates
  BY <1>1 DEF Working, Executing, Advancing, Reversing, PlanStates, Started
<1>5. /\ Wave(c) \in Waves
      /\ Agrees(Wave(c), wave[Wave(c)], plan[Wave(c)], Wave(c) \in asked)
      /\ ~Back(c) => plan[Wave(c)][At(c)].upgrade = "running"
  BY <1>2, <1>4, WorkingFacts, PlanOfIs DEF Back
<1>6. CASE Settle(c, "running", FALSE) /\ UNCHANGED plan
  BY <1>1, <1>3, <1>4, <1>5, <1>6, SettleKeepsInv, PlansStay
<1>7. CASE Unread(c, "running")
  BY <1>1, <1>2, <1>3, <1>4, <1>7, UnreadKeepsInv
<1> QED
  BY <1>6, <1>7 DEF FenceLost

\* A target that needs no execution.
LEMMA SettleTargetKeepsInv == ASSUME Inv, NEW c \in Controllers, SettleTarget(c) PROVE Inv'
<1> DEFINE w == Wave(c)
           p == At(c)
           r == Rec(c)
<1>1. /\ Working(c) /\ pc[c] = "next" /\ pc[c] \in Reversing
      /\ UNCHANGED <<head, plan, executor, asked>>
  BY DEF SettleTarget, Working, Target, replicas, history, Reversing
<1>2. /\ w \in Waves /\ r \in Records(w) /\ p \in Order(w) /\ r.status = "RollingBack"
      /\ (HoldsWave(c) => wave[w] = r) /\ w \in asked /\ plan[w] \in Plans(w)
      /\ Agrees(w, wave[w], plan[w], w \in asked)
  BY <1>1, WorkingFacts
<1>3. PlanFrame(c, w) /\ ExecutorFrame(c) /\ Entry(c) = r.envs[p]
  BY <1>1, <1>2, PlansStay, ExecutorsStay DEF Entry
<1>4. ASSUME NEW y \in {"Skipped", "RolledBack"}, Persist(c, On(c, r.status, y), "next", Rest(c)),
             \/ y = "Skipped" /\ r.envs[p].status = "AwaitingApproval" /\ r.envs[p].plan = "upgrade"
             \/ /\ y = "RolledBack" /\ r.envs[p].plan \in Rollbacks
                /\ "succeeded" \in {plan[w][p].rollback, plan[w][p].again}
      PROVE  Inv'
  <2> DEFINE n == On(c, r.status, y)
  <2>1. y \in Complete \cup Pending /\ r.status \in WaveStatus
    BY <1>2 DEF Complete, WaveStatus
  <2>2. /\ n \in Records(w) /\ n.status = "RollingBack"
        /\ n.envs[p].status = y /\ n.envs[p].plan = r.envs[p].plan
        /\ \A q \in Order(w) : q # p => n.envs[q] = r.envs[q]
    BY <1>1, <1>2, <2>1, OnFields
  <2> HIDE DEF n
  <2>3. /\ Rest(c) \subseteq Order(w)
        /\ JobFits("next", [wave |-> w, rec |-> n, todo |-> Rest(c), held |-> {}], plan[w], w \in asked)
    BY <1>1, <2>2, NextTargetFits
  <2>4. w = Wave(c) /\ Persist(c, n, "next", Rest(c)) /\ pc[c] \in Advancing \cup Reversing
    BY <1>1, <1>4 DEF n
  <2> HIDE DEF w, p, r
  <2>5. HoldsWave(c) => Agrees(w, n, plan[w], w \in asked)
    <3>1. r.envs[p].plan # "none"
      BY <1>4 DEF Rollbacks
    <3> QED
      BY <1>2, <1>4, <2>2, <3>1, UndoKeepsAgrees
  <2> QED
    BY <1>1, <1>2, <1>3, <2>2, <2>3, <2>4, <2>5, PersistKeepsInv
<1>5. ASSUME Persist(c, [r EXCEPT !.status = "RecoveryRequired"], "end", {}) PROVE Inv'
  <2> DEFINE n == [r EXCEPT !.status = "RecoveryRequired"]
  <2>1. n \in Records(w) /\ n.status = "RecoveryRequired" /\ n.envs = r.envs
    BY <1>2, StatusFields DEF WaveStatus, WaveTerminal
  <2>2. w = Wave(c) /\ Persist(c, n, "end", {}) /\ pc[c] \in Advancing \cup Reversing
    BY <1>1, <1>5
  <2> HIDE DEF n, w, r
  <2>3. ASSUME HoldsWave(c) PROVE Agrees(w, n, plan[w], w \in asked)
    <3>1. Agrees(w, r, plan[w], w \in asked) /\ w \in asked /\ n.status # "RolledBack"
      BY <1>2, <2>1, <2>3
    <3> QED
      BY <1>2, <2>1, <3>1, StatusKeepsAgrees
  <2> QED
    BY <1>1, <1>2, <1>3, <2>1, <2>2, <2>3, PersistKeepsInv
<1>6. r.envs[p].plan \in Rollbacks /\ Named(c) = "succeeded" =>
        "succeeded" \in {plan[w][p].rollback, plan[w][p].again}
  BY <1>3 DEF Named, Rollbacks
<1> QED
  BY <1>3, <1>4, <1>5, <1>6 DEF SettleTarget

\* A rollback plan is made, or the one already made is taken up.
LEMMA MakeRollbackKeepsInv == ASSUME Inv, NEW c \in Controllers, MakeRollback(c) PROVE Inv'
<1> DEFINE w == Wave(c)
           p == At(c)
           r == Rec(c)
<1>1. /\ Working(c) /\ pc[c] = "next" /\ pc[c] \in Reversing
      /\ UNCHANGED <<head, executor, asked>>
  BY DEF MakeRollback, Working, Target, replicas, history, Reversing
<1>2. /\ w \in Waves /\ r \in Records(w) /\ p \in Order(w) /\ r.status = "RollingBack"
      /\ (HoldsWave(c) => wave[w] = r) /\ w \in asked /\ plan[w] \in Plans(w)
      /\ Agrees(w, wave[w], plan[w], w \in asked) /\ p \in job[c].todo
      /\ job[c].todo = {q \in Order(w) : r.envs[q].status \in {"Succeeded", "AwaitingApproval"}}
      /\ job[c] \in JobOf(w) /\ job[c].wave = w /\ job[c].rec = r /\ p = Last(job[c].todo)
  BY <1>1, WorkingFacts DEF Inv, Typed, Wave, Rec, At, Back
<1>3. /\ ExecutorFrame(c) /\ Entry(c) = r.envs[p] /\ w \in Waves /\ p \in Order(w)
      /\ plan[w] \in Plans(w) /\ DOMAIN plan = Waves /\ r \in Records(w)
  BY <1>1, <1>2, ExecutorsStay DEF Entry, Inv, Typed
<1> DEFINE kind == IF r.envs[p].plan = "upgrade" THEN "rollback" ELSE "again"
<1>4. CASE /\ r.envs[p].status = "Succeeded" /\ r.envs[p].plan \in {"upgrade", "rollback"}
           /\ plan' = [plan EXCEPT ![w][p][kind] = IF Fenced(c) THEN "computed" ELSE @]
           /\ Persist(c, With(r, r.status, p, [status |-> "Succeeded", plan |-> kind]),
                      "topologyBack", job[c].todo)
  <2> DEFINE e == [status |-> "Succeeded", plan |-> kind]
             n == With(r, r.status, p, e)
             todo == job[c].todo
             i == [wave |-> w, rec |-> n, todo |-> todo, held |-> {}]
  <2>0. /\ kind \in Rollbacks /\ kind \in Kinds /\ kind # "upgrade"
        /\ kind = IF r.envs[p].plan = "upgrade" THEN "rollback" ELSE "again"
    BY KindsAre
  <2>7. plan' = [plan EXCEPT ![w][p][kind] = IF Fenced(c) THEN "computed" ELSE plan[w][p][kind]]
    BY <1>4
  <2>8. Persist(c, n, "topologyBack", todo)
    BY <1>4
  <2> HIDE DEF kind
  <2>1. e \in Entries /\ r.status \in WaveStatus /\ e.status = "Succeeded" /\ e.plan = kind
    BY <1>2, <2>0 DEF Entries, Complete, WaveStatus
  <2>2. /\ n \in Records(w) /\ n.status = r.status
        /\ \A q \in Order(w) : n.envs[q] = IF q = p THEN e ELSE r.envs[q]
    <3> HIDE DEF e, w, p, r
    <3> QED
      BY <1>3, <2>1, WithFields
  <2>3. i.wave = w /\ i.rec = n /\ i.todo = todo
    OBVIOUS
  <2>4. w = Wave(c) /\ Persist(c, n, "topologyBack", todo) /\ pc[c] \in Advancing \cup Reversing
    BY <1>1, <2>8
  <2> HIDE DEF n, i
  <2>5. CASE ~HoldsWave(c)
    <3>1. plan[w][p][kind] \in PlanStates
      <4>1. kind \in {"upgrade", "rollback", "again"}
        BY <2>0, KindsAre
      <4>2. plan[w][p] \in PlansOfOne
        BY <1>3 DEF Plans
      <4> QED
        BY <4>1, <4>2 DEF PlansOfOne
    <3>2. PlanSet(w, p, kind, plan[w][p][kind])
      <4>1. plan' = [plan EXCEPT ![w][p][kind] = plan[w][p][kind]]
        BY <2>7, <2>5 DEF Fenced
      <4> HIDE DEF w, p
      <4> QED
        BY <1>3, <2>0, <3>1, <4>1, AssignedPlan
    <3>3. PlanFrame(c, w)
      <4> HIDE DEF w, p
      <4> QED
        BY <1>3, <2>0, <3>2, PlanSetFrame
    <3>4. Agrees(w, wave[w], plan'[w], w \in asked)
      <4> DEFINE v == wave[w]
                 s == plan[w]
                 t == plan'[w]
      <4>1. /\ v \in Records(w) /\ s \in Plans(w) /\ t \in Plans(w) /\ Moved(w, p, kind, s, t)
            /\ t[p][kind] = s[p][kind] /\ Agrees(w, v, s, w \in asked)
        BY <1>2, <1>3, <3>2 DEF PlanSet, Inv, Typed
      <4> HIDE DEF w, p, v, s, t
      <4>2. Agrees(w, v, t, w \in asked)
        BY <1>3, <2>0, <4>1, PlanKeepsAgrees
      <4> QED
        BY <4>2 DEF v, t
    <3>5. Persist(c, n, "end", {})
      BY <2>4, <2>5 DEF Persist, Fenced
    <3> QED
      BY <1>1, <1>2, <1>3, <2>2, <2>4, <2>5, <3>3, <3>4, <3>5, PersistKeepsInv
  <2>6. CASE HoldsWave(c)
    <3>1. PlanSet(w, p, kind, "computed")
      <4>1. plan' = [plan EXCEPT ![w][p][kind] = "computed"]
        BY <2>7, <2>6 DEF Fenced
      <4>2. "computed" \in PlanStates
        BY DEF PlanStates
      <4> HIDE DEF w, p
      <4> QED
        BY <1>3, <2>0, <4>1, <4>2, AssignedPlan
    <3>2. plan[w][p][kind] = "none"
      <4>1. Matches(r.envs[p], plan[w][p])
        BY <1>2, <2>6 DEF Agrees
      <4> QED
        BY <1>4, <2>0, <4>1 DEF Matches, Rollbacks
    <3>3. PlanFrame(c, w)
      <4> HIDE DEF w, p
      <4> QED
        BY <1>3, <2>0, <3>1, <3>2, PlanSetFrame
    <3>4. /\ n.envs[p].status = "Succeeded" /\ n.envs[p].plan = kind
          /\ \A q \in Order(w) : q # p => n.envs[q] = r.envs[q]
      BY <1>2, <2>1, <2>2
    <3>5. plan'[w] \in Plans(w) /\ Moved(w, p, kind, plan[w], plan'[w]) /\ plan'[w][p][kind] = "computed"
      BY <3>1 DEF PlanSet
    <3> HIDE DEF w, p, r
    <3>6. Agrees(w, n, plan'[w], w \in asked)
      <4>1. /\ n.status # "RolledBack" /\ Agrees(w, r, plan[w], w \in asked) /\ w \in asked
            /\ r.envs[p].plan \in {"upgrade", "rollback"} /\ r.envs[p].status = "Succeeded"
        BY <1>2, <1>4, <2>2, <2>6
      <4> DEFINE s == plan[w]
                 t == plan'[w]
      <4>2. /\ s \in Plans(w) /\ t \in Plans(w) /\ Moved(w, p, kind, s, t)
            /\ t[p][kind] = "computed" /\ Agrees(w, r, s, w \in asked)
        BY <1>3, <3>5, <4>1
      <4> HIDE DEF s, t
      <4>3. Agrees(w, n, t, w \in asked)
        BY <1>3, <2>0, <2>2, <3>4, <4>1, <4>2, RollbackKeepsAgrees
      <4> QED
        BY <4>3 DEF t
    <3>7. todo = {q \in Order(w) : n.envs[q].status \in {"Succeeded", "AwaitingApproval"}}
      BY <1>2, <2>1, <2>2
    <3>8. JobFits("topologyBack", i, plan'[w], w \in asked)
      <4>1. Pos("topologyBack", i) = p
        BY <1>2, <2>3 DEF Pos, Reversing
      <4> QED
        BY <1>2, <2>0, <2>2, <2>3, <3>4, <3>7, <4>1 DEF JobFits, Advancing
    <3> QED
      BY <1>1, <1>2, <1>3, <2>2, <2>4, <2>6, <3>3, <3>6, <3>8, PersistKeepsInv DEF i
  <2> QED
    BY <2>5, <2>6
<1>5. CASE /\ r.envs[p].plan \in Rollbacks /\ Goto(c, "topologyBack")
           /\ UNCHANGED <<wave, plan, lease, job>>
  <2>1. /\ pc' \in [Controllers -> Pcs] /\ pc'[c] = "topologyBack"
        /\ \A d \in Controllers : d # c => pc'[d] = pc[d]
    BY <1>5 DEF Goto, Inv, Typed, Pcs, Reversing
  <2>2. JobFits("topologyBack", job[c], plan[w], w \in asked)
    <3>1. Pos("topologyBack", job[c]) = p
      BY <1>2 DEF Pos, Reversing
    <3> QED
      BY <1>2, <1>5, <3>1 DEF JobFits, Advancing
  <2>3. Own(c)'
    <3>1. Wave(c)' = Wave(c) /\ Rec(c)' = Rec(c) /\ HoldsWave(c)' = HoldsWave(c)
      BY <1>5 DEF Wave, Rec, HoldsWave
    <3> QED
      BY <1>1, <1>2, <1>5, <2>1, <2>2, <3>1 DEF Own, Executing
  <2> QED
    BY <1>1, <1>2, <1>3, <1>5, <2>1, <2>3, LocalStep DEF stored, Inv, Typed
<1>6. r.envs[p].plan \in Rollbacks /\ r.envs[p].plan # "again" => r.envs[p].plan = "rollback"
  BY DEF Rollbacks
<1> QED
  BY <1>3, <1>4, <1>5, <1>6 DEF MakeRollback, NoneLoaded

\* Every target is done.
LEMMA RolledBackKeepsInv == ASSUME Inv, NEW c \in Controllers, RolledBack(c) PROVE Inv'
<1> DEFINE w == Wave(c)
           r == Rec(c)
           n == [r EXCEPT !.status = "RolledBack"]
<1>1. /\ pc[c] = "next" /\ pc[c] \in Reversing /\ job[c].todo = {} /\ Persist(c, n, "end", {})
      /\ UNCHANGED <<head, plan, executor, asked>>
  BY DEF RolledBack, Reversing, replicas, history
<1>2. /\ w \in Waves /\ r \in Records(w) /\ plan[w] \in Plans(w) /\ wave[w] \in Records(w)
      /\ Agrees(w, wave[w], plan[w], w \in asked) /\ job[c].wave = w /\ job[c].rec = r
      /\ JobFits(pc[c], job[c], plan[w], w \in asked) /\ (HoldsWave(c) => wave[w] = r)
  BY <1>1 DEF Inv, Typed, RecordsAgree, JobOf, Wave, Rec, Own
<1>3. /\ w \in asked
      /\ \A q \in Order(w) : r.envs[q].status \notin {"Succeeded", "AwaitingApproval"}
  BY <1>1, <1>2 DEF JobFits
<1>4. n \in Records(w) /\ n.status = "RolledBack" /\ n.envs = r.envs
  BY <1>2, StatusFields DEF WaveStatus, WaveTerminal
<1>5. PlanFrame(c, w) /\ ExecutorFrame(c) /\ w = Wave(c) /\ pc[c] \in Advancing \cup Reversing
  BY <1>1, <1>2, PlansStay, ExecutorsStay
<1> HIDE DEF n, w, r
<1>6. ASSUME HoldsWave(c) PROVE Agrees(w, n, plan[w], w \in asked)
  <2>1. Agrees(w, r, plan[w], w \in asked)
    BY <1>2, <1>6
  <2> QED
    BY <1>2, <1>3, <1>4, <2>1, StatusKeepsAgrees
<1> QED
  BY <1>1, <1>2, <1>4, <1>5, <1>6, PersistKeepsInv

\* The environment's reconciler fails a plan that was left running.
LEMMA RecoverKeepsInv ==
    ASSUME Inv, NEW w \in Waves, NEW p \in Order(w), NEW kind \in Kinds,
           Recover(w, p, kind)
    PROVE  Inv'
<1>1. /\ plan[w][p][kind] = "running" /\ executor[Cohort[w][p]] = Nobody
      /\ plan' = [plan EXCEPT ![w][p][kind] = "failed"]
      /\ UNCHANGED <<head, wave, lease, pc, job, executor, asked>>
  BY DEF Recover, replicas
<1>2. /\ wave[w] \in Records(w) /\ plan[w] \in Plans(w) /\ DOMAIN plan = Waves
      /\ Agrees(w, wave[w], plan[w], w \in asked)
  BY DEF Inv, Typed, RecordsAgree
<1>3. "failed" \in PlanStates
  BY DEF PlanStates, Started
<1>4. PlanSet(w, p, kind, "failed")
  BY <1>1, <1>3, AssignedPlan
<1>5. PlanFrame(Nobody, w)
  BY <1>1, <1>4, PlanSetFrame
<1>6. Agrees(w, wave[w], plan'[w], w \in asked)
  <2>1. plan'[w] \in Plans(w) /\ Moved(w, p, kind, plan[w], plan'[w]) /\ plan'[w][p][kind] = "failed"
    BY <1>4 DEF PlanSet
  <2> QED
    BY <1>1, <1>2, <2>1, PlanKeepsAgrees
<1>7. Frame(Nobody, w)
  <2>1. head \in 0..NumWaves /\ NumWaves \in Nat
    BY WaveAssumption DEF Inv, Typed
  <2> QED
    BY <1>1, <1>5, <2>1 DEF Frame, PlanFrame, Inv, Typed
<1>8. Change(Nobody, w)
  BY <1>1, <1>2, <1>4, <1>5 DEF Change, PlanFrame, Inv, Unborn
<1> QED
  BY <1>1, <1>6, <1>7, <1>8, WaveAssumption, StepKeepsInv

\* The first state has the invariant.
LEMMA InitHasInv == ASSUME Init PROVE Inv
<1>1. Typed
  <2>1. \A w \in Waves : wave[w] \in Records(w) /\ plan[w] \in Plans(w)
    BY DEF Init, NoRecord, Records, Entries, WaveStatus, Pending, Plans, PlanStates, PlansOfOne,
       NoPlans
  <2>2. \A c \in Controllers : job[c].wave \in Waves /\ job[c] \in JobOf(job[c].wave)
    BY NoJobTyped DEF Init
  <2>3. head \in 0..NumWaves
    BY WaveAssumption DEF Init
  <2>4. /\ lease \in [Waves -> Controllers \cup {Nobody}]
        /\ executor \in [Envs -> Controllers \cup {Nobody}]
        /\ pc \in [Controllers -> Pcs] /\ asked \in SUBSET Waves
    BY DEF Init, Pcs
  <2>5. DOMAIN wave = Waves /\ DOMAIN plan = Waves /\ DOMAIN job = Controllers
    BY DEF Init
  <2> QED
    BY <2>1, <2>2, <2>3, <2>4, <2>5 DEF Typed
<1>2. Unborn
  BY DEF Init, Unborn
<1>3. RecordsAgree
  <2> SUFFICES ASSUME NEW w \in Waves PROVE Agrees(w, wave[w], plan[w], w \in asked)
    BY DEF RecordsAgree
  <2>1. /\ wave[w].status = "Absent"
        /\ \A p \in Order(w) : /\ wave[w].envs[p].status = "Unstarted" /\ wave[w].envs[p].plan = "none"
                               /\ plan[w][p].upgrade = "none" /\ plan[w][p].rollback = "none"
                               /\ plan[w][p].again = "none"
    BY DEF Init, NoRecord, NoPlans
  <2>2. \A p \in Order(w) : Matches(wave[w].envs[p], plan[w][p])
    BY <2>1 DEF Matches, Rollbacks
  <2>3. Forward(w, wave[w], plan[w])
    BY <2>1 DEF Forward, Complete, Rollbacks
  <2> QED
    BY <2>1, <2>2, <2>3 DEF Agrees, Undone
<1>4. \A c \in Controllers : Own(c)
  BY DEF Init, Own, JobFits, Advancing, Reversing, Executing
<1> QED
  BY <1>1, <1>2, <1>3, <1>4 DEF Inv

\* Every step keeps it.
LEMMA NextKeepsInv == ASSUME Inv, [Next]_vars PROVE Inv'
<1>1. CASE UNCHANGED vars
  <2>1. /\ UNCHANGED <<head, wave, plan, lease, pc, job, executor, asked>>
    BY <1>1 DEF vars
  <2>2. \A c \in Controllers : Own(c)'
    <3> SUFFICES ASSUME NEW c \in Controllers PROVE Own(c)'
      OBVIOUS
    <3>1. Wave(c)' = Wave(c) /\ Rec(c)' = Rec(c) /\ Back(c)' = Back(c) /\ HoldsWave(c)' = HoldsWave(c)
      BY <2>1 DEF Wave, Rec, Back, HoldsWave
    <3>2. At(c)' = At(c)
      BY <2>1, <3>1 DEF At
    <3>3. Env(c)' = Env(c) /\ PlanOf(c)' = PlanOf(c)
      BY <2>1, <3>1, <3>2 DEF Env, PlanOf, Kind, Entry
    <3>4. Own(c)
      BY DEF Inv
    <3> QED
      BY <2>1, <3>1, <3>2, <3>3, <3>4 DEF Own
  <2> QED
    BY <2>1, <2>2 DEF Inv, Typed, Unborn, RecordsAgree
<1>2. ASSUME NEW w \in Waves, Admit(w) \/ Stop(w) \/ Resume(w) \/ Conclude(w) \/ ResumePlan(w) PROVE Inv'
  BY <1>2, AdmitKeepsInv, StopKeepsInv, ConcludeKeepsInv, ResumePlanKeepsInv
<1>3. ASSUME NEW w \in Waves, NEW c \in Controllers, Advance(c, w) \/ RollBack(c, w) PROVE Inv'
  BY <1>3, AdvanceKeepsInv, RollBackKeepsInv
<1>4. ASSUME NEW c \in Controllers,
             \/ Refuse(c) \/ AwaitApproval(c) \/ TakeTopology(c) \/ Mark(c)
             \/ NotExecuted(c) \/ Execute(c) \/ EndExecution(c) \/ FenceLost(c)
      PROVE  Inv'
  BY <1>4, RefuseKeepsInv, AwaitApprovalKeepsInv, TakeTopologyKeepsInv, MarkKeepsInv, NotExecutedKeepsInv,
     ExecuteKeepsInv, EndExecutionKeepsInv, FenceLostKeepsInv
<1>5. ASSUME NEW c \in Controllers,
             \/ SettleTarget(c) \/ MakeRollback(c) \/ RolledBack(c)
             \/ Crash(c) \/ Expire(c) \/ Stall(c)
      PROVE  Inv'
  BY <1>5, SettleTargetKeepsInv, MakeRollbackKeepsInv, RolledBackKeepsInv, FaultsKeepInv
<1>6. ASSUME NEW w \in Waves, NEW p \in Order(w), NEW kind \in Kinds, Recover(w, p, kind)
      PROVE  Inv'
  BY <1>6, RecoverKeepsInv
<1> QED
  BY <1>1, <1>2, <1>3, <1>4, <1>5, <1>6 DEF Next

\* At every step of every controller, through crashes, lapses and recoveries,
\* the stored records agree with the plans, and the copy of a controller that
\* holds its wave is the stored record.
THEOREM Inductive == Spec => []Inv
<1>1. Init => Inv
  BY InitHasInv
<1>2. Inv /\ [Next]_vars => Inv'
  BY NextKeepsInv
<1> QED
  BY <1>1, <1>2, PTL DEF Spec

\* A wave that succeeded upgraded every environment unless a rollback was
\* asked for, and one that rolled back has undone every upgrade its record does
\* not show as failed or unfinished, or skipped with its outcome unread
\* (refresh_wave_status, rollback_locked, record_execute_error).
THEOREM VerdictsAreTruthful == Spec => []TruthfulVerdict
<1>1. Inv => TruthfulVerdict
  BY DEF Inv, RecordsAgree, Agrees, Forward, Undone, Matches, TruthfulVerdict
<1> QED
  BY <1>1, Inductive, PTL

\* An environment is upgraded only after every earlier one of its wave was
\* tried, and under stop_on_failure only after they succeeded
\* (apply_fail_policy, revalidate_environment).
THEOREM UpgradesInOrder == Spec => []InOrder
<1>1. ASSUME Inv PROVE InOrder
  <2> SUFFICES ASSUME NEW w \in Waves, NEW p \in Order(w), NEW q \in Order(w), p < q,
                      plan[w][q].upgrade \in Started, w \notin asked
               PROVE  \/ plan[w][p].upgrade = "succeeded"
                      \/ /\ w \notin StopOnFailure
                         /\ plan[w][p].upgrade \in Ended \/ wave[w].envs[p].status = "Blocked"
    BY DEF InOrder
  <2>1. /\ Matches(wave[w].envs[q], plan[w][q]) /\ Matches(wave[w].envs[p], plan[w][p])
        /\ Forward(w, wave[w], plan[w])
    BY <1>1 DEF Inv, RecordsAgree, Agrees
  <2>2. wave[w].envs[q].plan # "none"
    BY <2>1 DEF Matches, Started
  <2>3. wave[w].envs[p].status \in Tried(w)
    BY <2>1, <2>2 DEF Forward
  <2> QED
    BY <2>1, <2>3 DEF Tried, Matches, Forward, Ended
<1> QED
  BY <1>1, Inductive, PTL

-----------------------------------------------------------------------------
(* The claims on topologies. *)

\* A controller without a position holds no topology, one that may execute
\* holds all, and the ones it holds come first in the name order.
HeldFits(c) ==
    /\ pc[c] \in {"idle", "dead", "next"} => job[c].held = {}
    /\ pc[c] \in {"begin"} \cup Executing => job[c].held = Touched[Wave(c)]
    /\ \A t \in job[c].held, u \in Touched[Wave(c)] \ job[c].held : t < u

Claims ==
    /\ top \in [Topologies -> Controllers \cup {Nobody}]
    /\ \A c \in Controllers : HeldFits(c)

\* What a step of one controller leaves to the others.
Alone(c) ==
    /\ \A d \in Controllers : d # c => pc'[d] = pc[d] /\ job'[d] = job[d]
    /\ top' \in [Topologies -> Controllers \cup {Nobody}]
    /\ \A t \in Topologies, d \in Controllers : d # c /\ top'[t] = d => top[t] = d

\* A step after which the controller holds nothing that it remembers.
LetGo(c) == Alone(c) /\ job'[c].held = {} /\ pc'[c] \notin {"begin"} \cup Executing

\* A controller's step keeps the claims if it keeps its own.
LEMMA StepKeepsClaims ==
    ASSUME Claims, NEW c, Alone(c), c \in Controllers => HeldFits(c)' PROVE Claims'
  BY DEF Claims, Alone, HeldFits, Wave

\* A controller that let go keeps them.
LEMMA LetGoKeepsClaims ==
    ASSUME Claims, NEW c \in Controllers, LetGo(c) PROVE Claims'
<1>1. HeldFits(c)'
  BY DEF LetGo, HeldFits
<1> QED
  BY <1>1, StepKeepsClaims DEF LetGo

\* Topologies stay or are released.
LEMMA TopologiesStay ==
    ASSUME Claims, NEW c \in Controllers, UNCHANGED top \/ ReleaseTopologies(c)
    PROVE  /\ top' \in [Topologies -> Controllers \cup {Nobody}]
           /\ \A t \in Topologies, d \in Controllers : d # c /\ top'[t] = d => top[t] = d
<1>1. CASE UNCHANGED top
  BY <1>1 DEF Claims
<1>2. CASE ReleaseTopologies(c)
  BY <1>2, WaveAssumption DEF Claims, ReleaseTopologies
<1> QED
  BY <1>1, <1>2

\* The end of a command lets go.
LEMMA EndLetsGo ==
    ASSUME Inv, Claims, NEW c \in Controllers, End(c), UNCHANGED top \/ ReleaseTopologies(c)
    PROVE  LetGo(c)
  BY EndEffect, TopologiesStay DEF LetGo, Alone, NoJob, Executing

\* So does a record that is persisted.
LEMMA PersistLetsGo ==
    ASSUME Inv, Claims, NEW c \in Controllers, NEW r, NEW x \in {"end", "next", "topologyBack"}, NEW todo,
           Persist(c, r, x, todo), UNCHANGED top \/ ReleaseTopologies(c)
    PROVE  LetGo(c)
<1>1. CASE End(c)
  BY <1>1, EndLetsGo
<1>2. CASE Goto(c, x) /\ job' = [job EXCEPT ![c].rec = r, ![c].todo = todo, ![c].held = {}] /\ x # "end"
  <2>1. job[c] \in JobOf(Wave(c)) /\ DOMAIN job = Controllers
    BY DEF Inv, Typed, Wave
  <2>2. job'[c].held = {} /\ \A d \in Controllers : d # c => job'[d] = job[d]
    BY <1>2, <2>1 DEF JobOf
  <2>3. pc'[c] = x /\ \A d \in Controllers : d # c => pc'[d] = pc[d]
    BY <1>2 DEF Goto, Inv, Typed
  <2> QED
    BY <2>2, <2>3, TopologiesStay DEF LetGo, Alone, Executing
<1> QED
  BY <1>1, <1>2 DEF Persist

\* So does a process that ends.
LEMMA DieLetsGo ==
    ASSUME Inv, Claims, NEW c \in Controllers, Die(c), UNCHANGED top PROVE LetGo(c)
<1>1. /\ pc'[c] = "dead" /\ job'[c] = NoJob
      /\ \A d \in Controllers : d # c => pc'[d] = pc[d] /\ job'[d] = job[d]
  BY DEF Die, Goto, Inv, Typed
<1> QED
  BY <1>1, TopologiesStay DEF LetGo, Alone, NoJob, Executing

\* A command begins with nothing.
LEMMA ClaimLetsGo ==
    ASSUME Inv, Claims, NEW c \in Controllers, NEW w, NEW r, NEW x \in {"topology", "next"}, NEW todo,
           Claim(c, w, r, x, todo), UNCHANGED top
    PROVE  LetGo(c)
<1> DEFINE j == [NoJob EXCEPT !.wave = w, !.rec = r, !.todo = todo]
<1>1. /\ pc'[c] = x /\ job'[c] = j
      /\ \A d \in Controllers : d # c => pc'[d] = pc[d] /\ job'[d] = job[d]
  BY DEF Claim, Goto, Inv, Typed
<1>2. j.held = {}
  BY DEF NoJob
<1> QED
  BY <1>1, <1>2, TopologiesStay DEF LetGo, Alone, Executing

\* The end of an execution releases the topologies.
LEMMA SettleLetsGo ==
    ASSUME Inv, Claims, NEW c \in Controllers, NEW x, NEW ok, Settle(c, x, ok) PROVE LetGo(c)
  BY PersistLetsGo DEF Settle, SettleRollback, SettleUpgrade

\* Also when its plan cannot be loaded.
LEMMA UnreadLetsGo ==
    ASSUME Inv, Claims, NEW c \in Controllers, NEW x, Unread(c, x) PROVE LetGo(c)
  BY PersistLetsGo DEF Unread

\* So it does when its controller dies.
LEMMA EndsLetsGo ==
    ASSUME Inv, Claims, NEW c \in Controllers, NEW x, Ends(c, x) PROVE LetGo(c)
  BY SettleLetsGo, UnreadLetsGo, DieLetsGo DEF Ends

\* Every step of a controller lets go, or claims, marks, executes or stalls.
LEMMA ControllerLetsGo ==
    ASSUME Inv, Claims, NEW c \in Controllers,
           \/ \E w \in Waves : Advance(c, w) \/ RollBack(c, w)
           \/ Refuse(c) \/ AwaitApproval(c) \/ NotExecuted(c) \/ EndExecution(c) \/ FenceLost(c)
           \/ SettleTarget(c) \/ MakeRollback(c) \/ RolledBack(c) \/ Crash(c) \/ Expire(c)
    PROVE  LetGo(c)
<1>1. CASE \E w \in Waves : Advance(c, w) \/ RollBack(c, w)
  BY <1>1, ClaimLetsGo DEF Advance, RollBack
<1>2. CASE Refuse(c)
  BY <1>2, EndLetsGo DEF Refuse
<1>3. CASE AwaitApproval(c)
  BY <1>3, PersistLetsGo DEF AwaitApproval
<1>4. CASE NotExecuted(c)
  BY <1>4, SettleLetsGo, UnreadLetsGo, EndsLetsGo DEF NotExecuted
<1>5. CASE EndExecution(c)
  BY <1>5, SettleLetsGo, EndsLetsGo DEF EndExecution
<1>6. CASE FenceLost(c)
  BY <1>6, SettleLetsGo, UnreadLetsGo DEF FenceLost
<1>7. CASE SettleTarget(c)
  BY <1>7, PersistLetsGo DEF SettleTarget
<1>8. CASE MakeRollback(c)
  <2>1. UNCHANGED top /\ pc[c] = "next"
    BY <1>8 DEF MakeRollback, Target
  <2>2. CASE Goto(c, "topologyBack") /\ UNCHANGED job
    <3>1. pc'[c] = "topologyBack" /\ \A d \in Controllers : d # c => pc'[d] = pc[d]
      BY <2>2 DEF Goto, Inv, Typed
    <3>2. job'[c].held = {}
      BY <2>1, <2>2 DEF Claims, HeldFits
    <3> QED
      BY <2>1, <2>2, <3>1, <3>2, TopologiesStay DEF LetGo, Alone, Executing
  <2>3. CASE \E r, todo : Persist(c, r, "topologyBack", todo)
    BY <2>1, <2>3, PersistLetsGo
  <2> QED
    BY <1>8, <2>2, <2>3 DEF MakeRollback
<1>9. CASE RolledBack(c)
  BY <1>9, PersistLetsGo DEF RolledBack
<1>10. CASE Crash(c)
  BY <1>10, DieLetsGo DEF Crash
<1>11. CASE Expire(c)
  <2>1. /\ pc[c] = "dead" /\ UNCHANGED job /\ top' = Unheld(top, TopologiesOf(c))
        /\ pc'[c] = "idle" /\ \A d \in Controllers : d # c => pc'[d] = pc[d]
    BY <1>11 DEF Expire, Goto, Inv, Typed
  <2>2. /\ top' \in [Topologies -> Controllers \cup {Nobody}]
        /\ \A t \in Topologies, d \in Controllers : d # c /\ top'[t] = d => top[t] = d
    BY <2>1, WaveAssumption DEF Claims, Unheld
  <2> QED
    BY <2>1, <2>2 DEF LetGo, Alone, Claims, HeldFits, Executing
<1> QED
  BY <1>1, <1>2, <1>3, <1>4, <1>5, <1>6, <1>7, <1>8, <1>9, <1>10, <1>11

\* The next lease is taken, or none is kept.
LEMMA TakeTopologyKeepsClaims ==
    ASSUME Inv, Claims, NEW c \in Controllers, TakeTopology(c) PROVE Claims' /\ Alone(c)
<1>1. CASE ReleaseTopologies(c) /\ End(c)
  BY <1>1, EndLetsGo, LetGoKeepsClaims DEF LetGo
<1>2. CASE /\ top' = [top EXCEPT ![Wanted(c)] = c]
           /\ job' = [job EXCEPT ![c].held = @ \cup {Wanted(c)}]
           /\ UNCHANGED pc
  <2> DEFINE left == Touched[Wave(c)] \ job[c].held
             v == Wanted(c)
  <2>1. job[c] \in JobOf(Wave(c)) /\ DOMAIN job = Controllers /\ Wave(c) \in Waves /\ pc[c] \in Claiming
    BY DEF Inv, Typed, Wave, TakeTopology
  <2>2. job[c].held \subseteq Touched[Wave(c)] /\ Touched[Wave(c)] \subseteq Topologies
        /\ Topologies \subseteq Nat
    BY <2>1, WaveAssumption DEF JobOf, Topologies
  <2>3. v \in left /\ v \in Topologies /\ \A u \in left : v <= u
    <3>1. left # {} /\ left \subseteq Nat
      BY <2>2 DEF TakeTopology
    <3> QED
      BY <2>2, <3>1, FirstIsLeast DEF Wanted
  <2>4. /\ job'[c].wave = Wave(c) /\ job'[c].held = job[c].held \cup {v}
        /\ \A d \in Controllers : d # c => job'[d] = job[d]
    BY <1>2, <2>1 DEF JobOf, Wave
  <2> HIDE DEF v
  <2>5. Alone(c)
    BY <1>2, <2>3, <2>4, WaveAssumption DEF Alone, Claims, v
  <2>6. \A t \in job[c].held, u \in left : t < u
    BY DEF Claims, HeldFits
  <2>7. HeldFits(c)'
    <3>1. pc'[c] \notin {"idle", "dead", "next", "begin"} \cup Executing
      BY <1>2, <2>1 DEF Claiming, Executing
    <3>2. ASSUME NEW t \in job'[c].held, NEW u \in Touched[Wave(c)] \ job'[c].held PROVE t < u
      <4>1. u \in left /\ u # v /\ u \in Nat /\ v \in Nat
        BY <2>2, <2>3, <2>4, <3>2
      <4>2. CASE t = v
        BY <2>3, <4>1, <4>2
      <4>3. CASE t \in job[c].held
        BY <2>6, <4>1, <4>3
      <4> QED
        BY <2>4, <4>2, <4>3
    <3> QED
      BY <2>4, <3>1, <3>2 DEF HeldFits, Wave
  <2> QED
    BY <2>5, <2>7, StepKeepsClaims
<1> QED
  BY <1>1, <1>2 DEF TakeTopology

\* The controller that marks its record keeps what it holds.
LEMMA MarkKeepsClaims ==
    ASSUME Inv, Claims, NEW c \in Controllers, Mark(c) PROVE Claims' /\ Alone(c)
<1>1. CASE ReleaseTopologies(c) /\ End(c)
  BY <1>1, EndLetsGo, LetGoKeepsClaims DEF LetGo
<1>2. CASE /\ job' = [job EXCEPT ![c].rec = On(c, "Running", "Running")]
           /\ Goto(c, "begin") /\ UNCHANGED top
  <2>1. job[c] \in JobOf(Wave(c)) /\ DOMAIN job = Controllers /\ job[c].held = Touched[Wave(c)]
    BY DEF Inv, Typed, Wave, Mark
  <2>2. /\ job'[c].wave = Wave(c) /\ job'[c].held = job[c].held
        /\ \A d \in Controllers : d # c => job'[d] = job[d]
    BY <1>2, <2>1 DEF JobOf, Wave
  <2>3. pc'[c] = "begin" /\ \A d \in Controllers : d # c => pc'[d] = pc[d]
    BY <1>2 DEF Goto, Inv, Typed
  <2>4. Alone(c)
    BY <1>2, <2>2, <2>3, TopologiesStay DEF Alone
  <2>5. HeldFits(c)'
    BY <2>1, <2>2, <2>3 DEF HeldFits, Wave
  <2> QED
    BY <2>4, <2>5, StepKeepsClaims
<1> QED
  BY <1>1, <1>2 DEF Mark

\* So does one that begins to execute.
LEMMA ExecuteKeepsClaims ==
    ASSUME Inv, Claims, NEW c \in Controllers, Execute(c) PROVE Claims' /\ Alone(c)
<1>1. /\ UNCHANGED <<top, job>> /\ job[c].held = Touched[Wave(c)]
  BY DEF Execute, Ready, Claims, HeldFits
<1>2. pc'[c] \in Executing /\ \A d \in Controllers : d # c => pc'[d] = pc[d]
  BY DEF Execute, Goto, Inv, Typed, Executing
<1>3. Alone(c)
  BY <1>1, <1>2, TopologiesStay DEF Alone
<1>4. HeldFits(c)'
  BY <1>1, <1>2 DEF HeldFits, Wave, Executing
<1> QED
  BY <1>3, <1>4, StepKeepsClaims

\* A stalled controller loses leases, and remembers them.
LEMMA StallKeepsClaims ==
    ASSUME Inv, Claims, NEW c \in Controllers, Stall(c) PROVE Claims' /\ Alone(c)
<1>1. UNCHANGED <<pc, job>>
  BY DEF Stall
<1>2. PICK ts : top' = Unheld(top, ts) /\ ts \in {{}, TopologiesOf(c)}
  BY DEF Stall
<1>3. Alone(c)
  BY <1>1, <1>2, WaveAssumption DEF Alone, Claims, Unheld
<1>4. HeldFits(c)'
  BY <1>1 DEF Claims, HeldFits, Wave
<1> QED
  BY <1>3, <1>4, StepKeepsClaims

\* A step that no controller takes leaves the claims alone.
LEMMA OtherStepsKeepClaims ==
    ASSUME Claims, UNCHANGED <<pc, job, top>> PROVE Claims'
  BY DEF Claims, HeldFits, Wave

\* A command that only changes the record changes nothing else but the head.
LEMMA EditsLeave ==
    ASSUME NEW w \in Waves, Admit(w) \/ Stop(w) \/ Resume(w) \/ Conclude(w) \/ ResumePlan(w)
    PROVE  UNCHANGED <<plan, lease, top, health, up, executor, pc, job, faults, asked, misrecorded>>
<1>1. CASE Admit(w)
  BY <1>1 DEF Admit, replicas, history
<1>2. CASE Stop(w) \/ Resume(w) \/ Conclude(w) \/ ResumePlan(w)
  <2>1. \E r : Edit(w, r)
    BY <1>2 DEF Stop, Resume, Conclude, ResumePlan
  <2> QED
    BY <2>1 DEF Edit, replicas, history
<1> QED
  BY <1>1, <1>2

\* Every step keeps the claims.
LEMMA NextKeepsClaims == ASSUME Inv, Claims, [Next]_vars PROVE Claims'
<1>1. CASE \/ UNCHANGED vars
           \/ \E w \in Waves : Admit(w) \/ Stop(w) \/ Resume(w) \/ Conclude(w) \/ ResumePlan(w)
  <2>1. UNCHANGED <<pc, job, top>>
    BY <1>1, EditsLeave DEF vars
  <2> QED
    BY <2>1, OtherStepsKeepClaims
<1>4. ASSUME NEW w \in Waves, NEW p \in Order(w), NEW kind \in Kinds, Recover(w, p, kind)
      PROVE  Claims'
  BY <1>4, OtherStepsKeepClaims DEF Recover
<1>2. ASSUME NEW c \in Controllers,
             \/ \E w \in Waves : Advance(c, w) \/ RollBack(c, w)
             \/ Refuse(c) \/ AwaitApproval(c) \/ NotExecuted(c) \/ EndExecution(c) \/ FenceLost(c)
             \/ SettleTarget(c) \/ MakeRollback(c) \/ RolledBack(c) \/ Crash(c) \/ Expire(c)
      PROVE  Claims'
  BY <1>2, ControllerLetsGo, LetGoKeepsClaims
<1>3. ASSUME NEW c \in Controllers, TakeTopology(c) \/ Mark(c) \/ Execute(c) \/ Stall(c) PROVE Claims'
  BY <1>3, TakeTopologyKeepsClaims, MarkKeepsClaims, ExecuteKeepsClaims, StallKeepsClaims
<1> QED
  BY <1>1, <1>2, <1>3, <1>4 DEF Next

\* Topologies are held in name order, and all of them by a controller that may
\* execute (claim_topology_leases).
THEOREM ClaimsInOrder == Spec => []Claims
<1>1. Init => Claims
  BY DEF Init, Claims, HeldFits, NoJob, Executing
<1>2. Inv /\ Claims /\ [Next]_vars => Claims'
  BY NextKeepsClaims
<1> QED
  BY <1>1, <1>2, Inductive, PTL DEF Spec

\* Two controllers never wait for each other's topology, however the waves and
\* their topologies are chosen: the name order excludes it.
THEOREM ClaimsNeverCross == Spec => []NoCrossedClaims
<1>1. ASSUME Inv, Claims PROVE NoCrossedClaims
  <2>1. ASSUME NEW a \in Controllers, NEW b \in Controllers, Wanted(b) \in job[a].held,
               pc[a] \in Claiming, job[a].held # Touched[Wave(a)]
        PROVE  /\ Wanted(a) \in Touched[Wave(a)] \ job[a].held
               /\ Wanted(a) \in Nat /\ Wanted(b) \in Nat /\ Wanted(b) < Wanted(a)
    <3>1. job[a].held \subseteq Touched[Wave(a)] /\ Touched[Wave(a)] \subseteq Nat
      BY <1>1, WaveAssumption DEF Inv, Typed, JobOf, Wave, Topologies
    <3>2. Wanted(a) \in Touched[Wave(a)] \ job[a].held
      BY <2>1, <3>1, FirstIsLeast DEF Wanted
    <3>3. \A t \in job[a].held, u \in Touched[Wave(a)] \ job[a].held : t < u
      BY <1>1 DEF Claims, HeldFits
    <3> QED
      BY <2>1, <3>1, <3>2, <3>3
  <2> SUFFICES ASSUME NEW c \in Controllers, NEW d \in Controllers,
                      pc[d] \in Claiming, job[d].held # Touched[Wave(d)], Wanted(d) \in job[c].held,
                      pc[c] \in Claiming, job[c].held # Touched[Wave(c)], Wanted(c) \in job[d].held
               PROVE  FALSE
    BY DEF NoCrossedClaims
  <2>2. Wanted(d) \in Nat /\ Wanted(c) \in Nat /\ Wanted(d) < Wanted(c) /\ Wanted(c) < Wanted(d)
    BY <2>1
  <2> QED
    BY <2>2
<1> QED
  BY <1>1, Inductive, ClaimsInOrder, PTL

-----------------------------------------------------------------------------
(* The remaining types. *)

\* An executor is a controller that executes there.
ExecutorFits ==
    \A e \in Envs : executor[e] # Nobody => pc[executor[e]] \in Executing /\ e = Env(executor[e])

Ranges ==
    /\ health \in SUBSET Envs /\ up \in SUBSET Envs /\ misrecorded \in SUBSET Envs
    /\ faults \in 0..MaxFaults

\* A controller's step keeps the executors if it takes no other's place and is
\* one only where it executes.
LEMMA StepKeepsExecutors ==
    ASSUME Inv, ExecutorFits, Inv', NEW c \in Controllers, Alone(c),
           \A e \in Envs : executor'[e] \notin {Nobody, c} => executor'[e] = executor[e],
           \A e \in Envs : executor'[e] = c => pc'[c] \in Executing /\ e = Env(c)'
    PROVE  ExecutorFits'
<1> SUFFICES ASSUME NEW e \in Envs, NEW d \in Controllers, executor'[e] = d
             PROVE  pc'[d] \in Executing /\ e = Env(d)'
  <2>1. executor' \in [Envs -> Controllers \cup {Nobody}]
    BY DEF Inv, Typed
  <2>2. \A d \in Controllers : Env(d)' =
          Cohort[job'[d].wave][IF pc'[d] \in Reversing THEN Last(job'[d].todo)
                               ELSE First(PendingAt(job'[d].rec))]
    BY DEF Env, Wave, At, Back, Rec
  <2>3. ASSUME NEW f \in Envs, (executor[f] # Nobody)'
        PROVE  (pc[executor[f]] \in Executing /\ f = Env(executor[f]))'
    <3>1. executor'[f] \in Controllers
      BY <2>1, <2>3
    <3> QED
      BY <2>2, <3>1 DEF Env, Wave, At, Back, Rec
  <2> QED
    BY <2>3 DEF ExecutorFits
<1>1. CASE d = c
  BY <1>1
<1>2. CASE d # c
  <2>1. executor[e] = d /\ d # Nobody
    BY <1>2, WaveAssumption
  <2>2. pc[d] \in Executing /\ e = Env(d)
    BY <2>1 DEF ExecutorFits
  <2>3. pc'[d] = pc[d] /\ job'[d] = job[d]
    BY <1>2 DEF Alone
  <2> QED
    BY <2>2, <2>3 DEF Env, Wave, At, Back, Rec
<1> QED
  BY <1>1, <1>2

\* Every step keeps the executors.
LEMMA NextKeepsExecutors ==
    ASSUME Inv, Claims, ExecutorFits, Inv', [Next]_vars PROVE ExecutorFits'
<1>0. ASSUME NEW c \in Controllers, NEW e \in Envs, executor[e] = c
      PROVE  pc[c] \in Executing /\ e = Env(c)
  BY <1>0, WaveAssumption DEF ExecutorFits
<1>1. CASE \/ UNCHANGED vars
           \/ \E w \in Waves : Admit(w) \/ Stop(w) \/ Resume(w) \/ Conclude(w) \/ ResumePlan(w)
  <2>1. UNCHANGED <<pc, job, executor>>
    BY <1>1, EditsLeave DEF vars
  <2> QED
    BY <2>1 DEF ExecutorFits, Env, Wave, At, Back, Rec
<1>6. ASSUME NEW w \in Waves, NEW p \in Order(w), NEW kind \in Kinds, Recover(w, p, kind)
      PROVE  ExecutorFits'
  <2>1. UNCHANGED <<pc, job, executor>>
    BY <1>6 DEF Recover, replicas
  <2> QED
    BY <2>1 DEF ExecutorFits, Env, Wave, At, Back, Rec
<1>2. ASSUME NEW c \in Controllers,
             \/ \E w \in Waves : Advance(c, w) \/ RollBack(c, w)
             \/ Refuse(c) \/ AwaitApproval(c) \/ NotExecuted(c) \/ TakeTopology(c) \/ Mark(c)
             \/ SettleTarget(c) \/ MakeRollback(c) \/ RolledBack(c) \/ Expire(c)
      PROVE  ExecutorFits'
  <2>1. UNCHANGED executor /\ pc[c] \notin Executing
    BY <1>2 DEF Advance, RollBack, Refuse, AwaitApproval, NotExecuted, TakeTopology, Mark, SettleTarget,
       MakeRollback, RolledBack, Expire, Target, Ready, Claiming, Executing, replicas
  <2>2. Alone(c)
    BY <1>2, ControllerLetsGo, TakeTopologyKeepsClaims, MarkKeepsClaims DEF LetGo
  <2> QED
    BY <1>0, <2>1, <2>2, StepKeepsExecutors
<1>3. ASSUME NEW c \in Controllers, Crash(c) \/ EndExecution(c) \/ FenceLost(c) PROVE ExecutorFits'
  <2>1. Alone(c)
    BY <1>3, ControllerLetsGo DEF LetGo
  <2>2. \A e \in Envs : executor'[e] # c /\ (executor'[e] # Nobody => executor'[e] = executor[e])
    BY <1>0, <1>3, WaveAssumption DEF Crash, EndExecution, FenceLost, Inv, Typed
  <2> QED
    BY <2>1, <2>2, StepKeepsExecutors
<1>4. ASSUME NEW c \in Controllers, Execute(c) PROVE ExecutorFits'
  <2>1. /\ executor' = [executor EXCEPT ![Env(c)] = c] /\ UNCHANGED job
        /\ pc[c] \in {"begin", "topologyBack"}
    BY <1>4, ReadyWorks DEF Execute
  <2>2. pc'[c] \in Executing /\ Back(c)' = Back(c)
    BY <1>4, <2>1 DEF Execute, Goto, Inv, Typed, Executing, Back, Reversing
  <2>3. Alone(c)
    BY <1>4, ExecuteKeepsClaims
  <2>4. Env(c)' = Env(c)
    BY <2>1, <2>2 DEF Env, Wave, At, Rec
  <2>5. \A e \in Envs : /\ executor'[e] \notin {Nobody, c} => executor'[e] = executor[e]
                        /\ executor'[e] = c => e = Env(c)
    <3>1. \A e \in Envs : executor[e] # c
      BY <1>0, <2>1 DEF Executing
    <3> QED
      BY <2>1, <3>1 DEF Inv, Typed
  <2> QED
    BY <2>2, <2>3, <2>4, <2>5, StepKeepsExecutors
<1>5. ASSUME NEW c \in Controllers, Stall(c) PROVE ExecutorFits'
  <2>1. UNCHANGED <<pc, job, executor>>
    BY <1>5 DEF Stall, replicas
  <2> QED
    BY <2>1 DEF ExecutorFits, Env, Wave, At, Back, Rec
<1> QED
  BY <1>1, <1>2, <1>3, <1>4, <1>5, <1>6 DEF Next

\* Every step keeps the ranges of the replicas and of the faults.
LEMMA NextKeepsRanges == ASSUME Inv, Ranges, [Next]_vars PROVE Ranges'
<1>0. Fault => faults' \in 0..MaxFaults
  BY WaveAssumption DEF Fault, Ranges
<1>1. ASSUME NEW c \in Controllers, Working(c) PROVE Env(c) \in Envs
  BY <1>1, WorkingFacts
<1>2. CASE UNCHANGED vars
  BY <1>2 DEF vars, Ranges
<1>3. ASSUME NEW w \in Waves,
             \/ Admit(w) \/ Stop(w) \/ Resume(w) \/ Conclude(w) \/ ResumePlan(w)
             \/ \E c \in Controllers : Advance(c, w) \/ RollBack(c, w)
      PROVE  Ranges'
  BY <1>3 DEF Admit, Stop, Resume, Conclude, ResumePlan, Edit, Advance, RollBack, replicas, history,
     Ranges
<1>4. ASSUME NEW w \in Waves, NEW p \in Order(w), NEW kind \in Kinds, Recover(w, p, kind)
      PROVE  Ranges'
  BY <1>4 DEF Recover, replicas, Ranges
<1>5. ASSUME NEW c \in Controllers,
             \/ Refuse(c) \/ AwaitApproval(c) \/ TakeTopology(c) \/ Mark(c) \/ Execute(c)
             \/ RolledBack(c) \/ Expire(c)
      PROVE  Ranges'
  BY <1>5 DEF Refuse, AwaitApproval, TakeTopology, Mark, Execute, RolledBack, Expire, replicas, history,
     Ranges
<1>6. ASSUME NEW c \in Controllers, NEW x, Ends(c, x) \/ Unread(c, x) PROVE faults' \in 0..MaxFaults
  BY <1>0, <1>6 DEF Ends, Unread, Ranges
<1>7. ASSUME NEW c \in Controllers, SettleTarget(c) \/ MakeRollback(c) PROVE Ranges'
  BY <1>0, <1>7 DEF SettleTarget, MakeRollback, NoneLoaded, replicas, history, Ranges
<1>8. ASSUME NEW c \in Controllers, NotExecuted(c) \/ FenceLost(c) PROVE Ranges'
  BY <1>6, <1>8 DEF NotExecuted, FenceLost, replicas, history, Ranges
<1>9. ASSUME NEW c \in Controllers, Crash(c) \/ Stall(c) PROVE Ranges'
  BY <1>0, <1>9 DEF Crash, Stall, replicas, history, Ranges
<1>10. ASSUME NEW c \in Controllers, EndExecution(c) PROVE Ranges'
  <2>1. Env(c) \in Envs
    BY <1>1, <1>10 DEF EndExecution, Working, Executing, Advancing, Reversing
  <2>2. faults' \in 0..MaxFaults
    BY <1>0, <1>6, <1>10 DEF EndExecution
  <2> QED
    BY <1>10, <2>1, <2>2 DEF EndExecution, history, Ranges
<1> QED
  BY <1>2, <1>3, <1>4, <1>5, <1>7, <1>8, <1>9, <1>10 DEF Next

\* Every variable has its type; a controller that holds topologies is at work,
\* and an executor is a controller that executes there.
THEOREM TypeCorrect == Spec => []TypeOK
<1>1. Init => ExecutorFits /\ Ranges
  BY WaveAssumption DEF Init, ExecutorFits, Ranges
<1>2. Inv /\ Claims /\ ExecutorFits /\ Inv' /\ [Next]_vars => ExecutorFits'
  BY NextKeepsExecutors
<1>3. Inv /\ Ranges /\ [Next]_vars => Ranges'
  BY NextKeepsRanges
<1>4. ASSUME Inv, Claims, ExecutorFits, Ranges PROVE TypeOK
  <2>1. \A c \in Controllers :
          /\ job[c].wave \in Waves
          /\ job[c].rec \in Records(job[c].wave)
          /\ job[c].todo \subseteq Order(job[c].wave)
          /\ job[c].held \subseteq Touched[job[c].wave]
          /\ job[c].held # {} => pc[c] \notin {"idle", "dead", "next"}
    BY <1>4 DEF Inv, Typed, JobOf, Claims, HeldFits
  <2> QED
    BY <1>4, <2>1 DEF Inv, Typed, Claims, ExecutorFits, Ranges, TypeOK, Plans
<1> QED
  BY <1>1, <1>2, <1>3, <1>4, Inductive, ClaimsInOrder, PTL DEF Spec

-----------------------------------------------------------------------------
(* The minimum of available replicas. *)

\* Any two waves declare a topology in common: they are of one product.
Shared == \A v, w \in Waves : Touched[v] \cap Touched[w] # {}

\* The replicas that serve, as far as the records tell, and the ones of them
\* that check_availability counts, or would count once no plan runs there.
Serving == up \cup misrecorded
Good == health \cap Serving

\* A controller has all its topologies.
Full(c) == job[c].held = Touched[Wave(c)] /\ \A t \in job[c].held : top[t] = c

\* One that claimed them all can spare its replica until it executes; where it
\* executes, the replica is down.
Spared(c) ==
    pc[c] \in Claiming \cup {"begin"} /\ Full(c) /\ Env(c) \in health =>
       Cardinality(Good \ {Env(c)}) >= Minimum
Down(c) == pc[c] \in Executing => Env(c) \notin Serving

\* A replica that is healthy on record serves, or a plan is running in it; and
\* enough of them serve.
Replicated ==
    /\ health \in SUBSET Envs /\ up \in SUBSET Envs /\ misrecorded \in SUBSET Envs
    /\ \A e \in health : e \in Serving \/ RunningIn(e)
    /\ Cardinality(Good) >= Minimum
    /\ \A c \in Controllers : Spared(c) /\ Down(c)

\* A larger set of replicas is no less enough.
LEMMA MoreIsEnough ==
    ASSUME NEW a, NEW b, b \subseteq Envs, a \subseteq b, Cardinality(a) >= Minimum
    PROVE  Cardinality(b) >= Minimum
<1>1. IsFiniteSet(b)
  BY WaveAssumption, FS_Subset
<1>2. IsFiniteSet(a) /\ Cardinality(a) <= Cardinality(b)
  BY <1>1, FS_Subset
<1>3. Cardinality(a) \in Nat /\ Cardinality(b) \in Nat /\ Minimum \in Nat
  BY <1>1, <1>2, FS_CardinalityType, WaveAssumption
<1> QED
  BY <1>2, <1>3

\* Only one controller has all its topologies.
LEMMA OnlyOneIsFull ==
    ASSUME Shared, Inv, NEW c \in Controllers, NEW d \in Controllers, Full(c), Full(d) PROVE c = d
<1>1. Wave(c) \in Waves /\ Wave(d) \in Waves
  BY DEF Inv, Typed, Wave
<1>2. PICK t \in Touched[Wave(c)] : t \in Touched[Wave(d)]
  BY <1>1 DEF Shared
<1> QED
  BY <1>2 DEF Full

\* Another's step makes nobody full.
LEMMA FullStays ==
    ASSUME Inv, NEW c, Alone(c), NEW d \in Controllers, d # c, Full(d)' PROVE Full(d)
<1>1. job'[d] = job[d] /\ job[d].held \subseteq Topologies
  BY WaveAssumption DEF Alone, Inv, Typed, JobOf
<1> QED
  BY <1>1 DEF Alone, Full, Wave

\* A controller that let go has nothing to keep.
LEMMA LetGoOwes ==
    ASSUME Shared, Inv', NEW c \in Controllers, LetGo(c) PROVE Spared(c)' /\ Down(c)'
<1>1. Wave(c)' \in Waves
  BY DEF Inv, Typed, Wave
<1>2. Touched[Wave(c)'] # {}
  BY <1>1 DEF Shared
<1> QED
  BY <1>2 DEF LetGo, Spared, Down, Full

\* Where a running plan goes on, the environment has a running plan.
LEMMA RunningGoesOn ==
    ASSUME NEW e,
           \A w \in Waves : \A p \in Order(w) : Cohort[w][p] = e =>
              \A k \in Kinds : plan[w][p][k] = "running" => plan'[w][p][k] = "running",
           RunningIn(e)
    PROVE  RunningIn(e)'
  BY DEF RunningIn

\* No running plan ends.
PlansGoOn ==
    \A w \in Waves : \A p \in Order(w), k \in Kinds :
       plan[w][p][k] = "running" => plan'[w][p][k] = "running"

\* A step that changes no replica, and ends no running plan.
LEMMA QuietStep ==
    ASSUME Shared, Inv, Replicated, NEW c, Alone(c), UNCHANGED <<health, up, misrecorded>>,
           PlansGoOn,
           c \in Controllers => Spared(c)' /\ Down(c)'
    PROVE  Replicated'
<1>1. Serving' = Serving /\ Good' = Good
  BY DEF Serving, Good
<1>2. \A e \in health' : e \in Serving' \/ RunningIn(e)'
  BY <1>1, RunningGoesOn DEF Replicated, PlansGoOn
<1>3. ASSUME NEW d \in Controllers, d # c PROVE Spared(d)' /\ Down(d)'
  <2>1. pc'[d] = pc[d] /\ Env(d)' = Env(d)
    BY <1>3 DEF Alone, Env, Wave, At, Back, Rec
  <2>2. Full(d)' => Full(d)
    BY <1>3, FullStays
  <2> QED
    BY <1>1, <2>1, <2>2 DEF Spared, Down, Replicated
<1> QED
  BY <1>1, <1>2, <1>3 DEF Replicated

\* The steps of a controller that let go and leave the plans alone.
LEMMA LetGoKeepsReplicated ==
    ASSUME Shared, Inv, Claims, Replicated, Inv', NEW c \in Controllers,
           \/ \E w \in Waves : RollBack(c, w)
           \/ Refuse(c) \/ AwaitApproval(c)
           \/ SettleTarget(c) \/ RolledBack(c) \/ Crash(c) \/ Expire(c)
    PROVE  Replicated'
<1>1. UNCHANGED <<plan, health, up, misrecorded>>
  BY DEF RollBack, Refuse, AwaitApproval, SettleTarget, RolledBack, Crash, Expire, replicas, history,
         stored
<1>2. LetGo(c)
  BY ControllerLetsGo
<1>3. Spared(c)' /\ Down(c)'
  BY <1>2, LetGoOwes
<1>4. PlansGoOn
  BY <1>1 DEF PlansGoOn
<1> QED
  BY <1>1, <1>2, <1>3, <1>4, QuietStep DEF LetGo

\* A plan that is not running, or goes on running, is changed.
LEMMA PlanSetGoesOn ==
    ASSUME NEW w \in Waves, NEW p \in Order(w), NEW kind \in Kinds, NEW x, PlanSet(w, p, kind, x),
           plan[w][p][kind] # "running" \/ x = "running"
    PROVE  PlansGoOn
<1>1. /\ \A v \in Waves : v # w => plan'[v] = plan[v]
      /\ \A q \in Order(w) : q # p => plan'[w][q] = plan[w][q]
      /\ \A k \in Kinds : k # kind => plan'[w][p][k] = plan[w][p][k]
      /\ plan'[w][p][kind] = x
  BY DEF PlanSet, Moved
<1> QED
  BY <1>1 DEF PlansGoOn

\* An upgrade plan is made: it was not running.
LEMMA AdvanceKeepsReplicated ==
    ASSUME Shared, Inv, Claims, Replicated, Inv', NEW c \in Controllers, NEW w \in Waves, Advance(c, w)
    PROVE  Replicated'
<1> DEFINE p == First(PendingAt(wave[w]))
<1>1. UNCHANGED <<health, up, misrecorded>> /\ LetGo(c)
  BY ControllerLetsGo DEF Advance, replicas, history
<1>2. wave[w] \in Records(w) /\ plan[w] \in Plans(w) /\ Agrees(w, wave[w], plan[w], w \in asked)
      /\ DOMAIN plan = Waves
  BY DEF Inv, Typed, RecordsAgree
<1>3. p \in Order(w)
  BY <1>2, PendingFields DEF Advance
<1>4. PlansGoOn
  <2>1. CASE UNCHANGED plan
    BY <2>1 DEF PlansGoOn
  <2>2. CASE wave[w].envs[p].plan = "none" /\ plan' = [plan EXCEPT ![w][p].upgrade = "computed"]
    <3>1. plan[w][p]["upgrade"] = "none"
      BY <1>2, <1>3, <2>2 DEF Agrees, Matches
    <3>2. plan' = [plan EXCEPT ![w][p]["upgrade"] = "computed"] /\ "computed" \in PlanStates
      BY <2>2 DEF PlanStates
    <3> HIDE DEF p
    <3>3. PlanSet(w, p, "upgrade", "computed")
      BY <1>3, <3>2, AssignedPlan, KindsAre
    <3> QED
      BY <1>3, <3>1, <3>3, PlanSetGoesOn, KindsAre
  <2> QED
    BY <2>1, <2>2 DEF Advance
<1>5. Spared(c)' /\ Down(c)'
  BY <1>1, LetGoOwes
<1> QED
  BY <1>1, <1>4, <1>5, QuietStep DEF LetGo

\* So with a rollback plan.
LEMMA MakeRollbackKeepsReplicated ==
    ASSUME Shared, Inv, Claims, Replicated, Inv', NEW c \in Controllers, MakeRollback(c)
    PROVE  Replicated'
<1> DEFINE w == Wave(c)
           p == At(c)
<1>1. UNCHANGED <<health, up, misrecorded>> /\ LetGo(c) /\ Working(c)
  BY ControllerLetsGo DEF MakeRollback, Working, replicas, history
<1>2. /\ w \in Waves /\ p \in Order(w) /\ plan[w] \in Plans(w) /\ DOMAIN plan = Waves
      /\ (HoldsWave(c) => Agrees(w, Rec(c), plan[w], w \in asked))
  BY <1>1, WorkingFacts DEF Inv, Typed
<1>3. PlansGoOn
  <2>1. CASE UNCHANGED plan
    BY <2>1 DEF PlansGoOn
  <2> DEFINE e == Rec(c).envs[p]
             kind == IF e.plan = "upgrade" THEN "rollback" ELSE "again"
  <2>2. CASE /\ e.plan \in {"upgrade", "rollback"}
             /\ plan' = [plan EXCEPT ![w][p][kind] = IF Fenced(c) THEN "computed" ELSE @]
    <3>1. kind \in Kinds /\ kind \in {"rollback", "again"}
      BY KindsAre
    <3>2. HoldsWave(c) => plan[w][p][kind] = "none"
      <4>1. HoldsWave(c) => Matches(e, plan[w][p])
        BY <1>2 DEF Agrees
      <4>2. CASE e.plan = "upgrade"
        <5>1. kind = "rollback"
          BY <4>2
        <5> HIDE DEF e, w, p, kind
        <5> QED
          BY <4>1, <4>2, <5>1, KindsAre DEF Matches
      <4>3. CASE e.plan = "rollback"
        <5>1. kind = "again"
          BY <4>3
        <5> HIDE DEF e, w, p, kind
        <5> QED
          BY <4>1, <4>3, <5>1 DEF Matches
      <4> QED
        BY <2>2, <4>2, <4>3
    <3> DEFINE y == IF Fenced(c) THEN "computed" ELSE plan[w][p][kind]
    <3>3. plan' = [plan EXCEPT ![w][p][kind] = y]
      BY <2>2
    <3>4. plan[w][p] \in PlansOfOne
      BY <1>2 DEF Plans
    <3>5. y \in PlanStates /\ (plan[w][p][kind] # "running" \/ y = "running")
      <4> HIDE DEF kind, w, p
      <4> QED
        BY <3>1, <3>2, <3>4 DEF PlansOfOne, PlanStates, Fenced
    <3> HIDE DEF w, p, kind, y
    <3>6. PlanSet(w, p, kind, y)
      BY <1>2, <3>1, <3>3, <3>5, AssignedPlan
    <3> QED
      BY <1>2, <3>1, <3>5, <3>6, PlanSetGoesOn
  <2>3. e.plan \in {"none"} \cup Kinds
    BY <1>1, <1>2, WorkingFacts DEF Records, Entries
  <2> QED
    BY <2>1, <2>2, <2>3, KindsAre DEF MakeRollback, NoneLoaded, Entry
<1>4. Spared(c)' /\ Down(c)'
  BY <1>1, LetGoOwes
<1> QED
  BY <1>1, <1>3, <1>4, QuietStep DEF LetGo

\* The plan at hand moves; the others stay.
LEMMA OtherPlansStay ==
    ASSUME Inv, NEW c \in Controllers, Working(c), pc[c] # "next", NEW x,
           PlanSet(Wave(c), At(c), Kind(c), x)
    PROVE  /\ \A e : e # Env(c) /\ RunningIn(e) => RunningIn(e)'
           /\ PlanOf(c) # "running" \/ x = "running" => PlansGoOn
           /\ \A e : e = Env(c) /\ x = "running" => RunningIn(e)'
<1> DEFINE w == Wave(c)
           p == At(c)
           kind == Kind(c)
<1>1. w \in Waves /\ p \in Order(w) /\ Env(c) = Cohort[w][p]
      /\ kind \in Kinds /\ PlanOf(c) = plan[w][p][kind]
  BY WorkingFacts, KindOfWork
<1>2. /\ \A v \in Waves : v # w => plan'[v] = plan[v]
      /\ \A q \in Order(w) : q # p => plan'[w][q] = plan[w][q]
      /\ plan'[w][p][kind] = x /\ PlanSet(w, p, kind, x)
  BY DEF PlanSet, Moved
<1> HIDE DEF w, p, kind
<1>3. ASSUME NEW e, e # Env(c), RunningIn(e) PROVE RunningIn(e)'
  BY <1>1, <1>2, <1>3, RunningGoesOn
<1>4. ASSUME PlanOf(c) # "running" \/ x = "running" PROVE PlansGoOn
  BY <1>1, <1>2, <1>4, PlanSetGoesOn
<1>5. ASSUME NEW e, e = Env(c), x = "running" PROVE RunningIn(e)'
  <2>1. Cohort[w][p] = e /\ plan'[w][p][kind] = "running"
    BY <1>1, <1>2, <1>5
  <2> QED
    BY <1>1, <2>1 DEF RunningIn
<1> QED
  BY <1>3, <1>4, <1>5

\* An execution that is refused or blocked, or whose lost lease is noticed; its
\* plan may not be loaded afterwards.
LEMMA NotExecutedKeepsReplicated ==
    ASSUME Shared, Inv, Claims, Replicated, Inv', NEW c \in Controllers, NotExecuted(c) \/ FenceLost(c)
    PROVE  Replicated'
<1>1. UNCHANGED <<health, up, misrecorded>> /\ LetGo(c) /\ Working(c) /\ pc[c] # "next"
  <2>1. CASE NotExecuted(c)
    BY <2>1, ControllerLetsGo, ReadyWorks DEF NotExecuted, replicas, history
  <2>2. CASE FenceLost(c)
    BY <2>2, ControllerLetsGo DEF FenceLost, Working, Executing, Advancing, Reversing, history
  <2> QED
    BY <2>1, <2>2
<1>2. "blocked" \in PlanStates /\ "running" \in PlanStates
  BY DEF PlanStates, Started
<1>3. PlanOf(c) \in PlanStates /\ (pc[c] \in Executing => PlanOf(c) = "running")
  <2>1. plan[Wave(c)][At(c)] \in PlansOfOne
    BY <1>1, WorkingFacts DEF Plans, Inv, Typed
  <2>2. Kind(c) \in {"upgrade", "rollback", "again"} /\ PlanOf(c) = plan[Wave(c)][At(c)][Kind(c)]
    BY <1>1, KindOfWork, KindsAre
  <2>3. PlanOf(c) \in PlanStates
    BY <2>1, <2>2 DEF PlansOfOne
  <2> QED
    BY <2>3 DEF Inv, Own
<1>4. PlansGoOn
  <2>1. CASE UNCHANGED plan
    BY <2>1 DEF PlansGoOn
  <2>2. ASSUME NEW x \in PlanStates, SetPlan(c, x) \/ Unread(c, x), PlanOf(c) # "running" \/ x = "running"
        PROVE  PlansGoOn
    <3>1. PlanSet(Wave(c), At(c), Kind(c), x)
      BY <1>1, <2>2, SetPlanEffect, UnreadEffect
    <3> QED
      BY <1>1, <2>2, <3>1, OtherPlansStay
  <2>3. CASE NotExecuted(c)
    <3>1. CASE \/ PlanOf(c) \in {"computed", "blocked"} /\ SetPlan(c, "blocked")
               \/ PlanOf(c) \in {"computed", "blocked"} /\ Unread(c, "blocked")
               \/ SetPlan(c, "running") \/ Unread(c, "running") \/ Unread(c, PlanOf(c))
      BY <1>2, <1>3, <2>2, <3>1
    <3> QED
      BY <2>1, <2>3, <3>1 DEF NotExecuted, Ends
  <2>4. CASE FenceLost(c)
    BY <1>2, <2>1, <2>2, <2>4 DEF FenceLost
  <2> QED
    BY <2>3, <2>4
<1>5. Spared(c)' /\ Down(c)'
  BY <1>1, LetGoOwes
<1> QED
  BY <1>1, <1>4, <1>5, QuietStep DEF LetGo

\* The last lease is taken only where the replica can be spared.
LEMMA TakeTopologyKeepsReplicated ==
    ASSUME Shared, Inv, Claims, Replicated, Inv', NEW c \in Controllers, TakeTopology(c)
    PROVE  Replicated'
<1>1. UNCHANGED <<health, up, misrecorded>> /\ PlansGoOn /\ UNCHANGED plan
  BY DEF TakeTopology, stored, replicas, history, PlansGoOn
<1>2. CASE ReleaseTopologies(c) /\ End(c)
  <2>1. LetGo(c)
    BY <1>2, EndLetsGo
  <2>2. Spared(c)' /\ Down(c)'
    BY <2>1, LetGoOwes
  <2> QED
    BY <1>1, <2>1, <2>2, QuietStep DEF LetGo
<1>3. CASE /\ Spares(Env(c)) /\ top' = [top EXCEPT ![Wanted(c)] = c]
           /\ job' = [job EXCEPT ![c].held = @ \cup {Wanted(c)}]
           /\ UNCHANGED <<pc, lease>>
  <2>1. job[c] \in JobOf(Wave(c)) /\ DOMAIN job = Controllers
    BY DEF Inv, Typed, Wave
  <2>2. /\ job'[c].wave = job[c].wave /\ job'[c].rec = job[c].rec /\ job'[c].todo = job[c].todo
        /\ \A d \in Controllers : d # c => job'[d] = job[d]
    BY <1>3, <2>1 DEF JobOf
  <2>3. Env(c)' = Env(c)
    BY <1>3, <2>2 DEF Env, Wave, At, Back, Rec
  <2>4. Alone(c)
    BY <1>3, <2>2, WaveAssumption DEF Alone, Claims
  <2>5. Down(c)'
    BY <1>3 DEF Down, TakeTopology, Claiming, Executing
  <2>6. Spared(c)'
    <3>1. Available \subseteq Good /\ Good \subseteq Envs
      BY DEF Available, Replicated, Good
    <3>2. Good' = Good
      BY <1>1 DEF Good, Serving
    <3>3. ASSUME Env(c) \in health PROVE Cardinality(Good \ {Env(c)}) >= Minimum
      <4>1. Cardinality(Available \ {Env(c)}) >= Minimum
        BY <1>3, <3>3 DEF Spares
      <4> QED
        BY <3>1, <4>1, MoreIsEnough
    <3> QED
      BY <1>1, <2>3, <3>2, <3>3 DEF Spared
  <2> QED
    BY <1>1, <2>4, <2>5, <2>6, QuietStep
<1> QED
  BY <1>2, <1>3 DEF TakeTopology

\* The one that claimed them marks the record.
LEMMA MarkKeepsReplicated ==
    ASSUME Shared, Inv, Claims, Replicated, Inv', NEW c \in Controllers, Mark(c)
    PROVE  Replicated'
<1>1. UNCHANGED <<health, up, misrecorded>> /\ PlansGoOn
  BY DEF Mark, replicas, history, PlansGoOn
<1>2. CASE ReleaseTopologies(c) /\ End(c)
  <2>1. LetGo(c)
    BY <1>2, EndLetsGo
  <2>2. Spared(c)' /\ Down(c)'
    BY <2>1, LetGoOwes
  <2> QED
    BY <1>1, <2>1, <2>2, QuietStep DEF LetGo
<1>3. CASE /\ job' = [job EXCEPT ![c].rec = On(c, "Running", "Running")]
           /\ Goto(c, "begin") /\ UNCHANGED top
  <2> DEFINE n == On(c, "Running", "Running")
  <2>1. job[c] \in JobOf(Wave(c)) /\ DOMAIN job = Controllers /\ Wave(c) \in Waves
    BY DEF Inv, Typed, Wave
  <2>2. Working(c) /\ pc[c] = "topology" /\ pc[c] \in Advancing
    BY DEF Mark, Working, Advancing
  <2>3. "Running" \in WaveStatus /\ "Running" \in Complete \cup Pending /\ "Running" \in Pending
    BY DEF WaveStatus, Pending
  <2>4. /\ n \in Records(Wave(c)) /\ n.envs[At(c)].status \in Pending
        /\ \A q \in Order(Wave(c)) : q # At(c) => n.envs[q] = Rec(c).envs[q]
    BY <2>2, <2>3, OnFields
  <2>5. /\ Rec(c) \in Records(Wave(c)) /\ At(c) \in Order(Wave(c))
        /\ Rec(c).envs[At(c)].status \in Pending /\ At(c) = First(PendingAt(Rec(c)))
    BY <2>2, WorkingFacts
  <2> HIDE DEF n
  <2>6. PendingAt(n) = PendingAt(Rec(c))
    BY <2>1, <2>4, <2>5, PendingStays
  <2>7. /\ job'[c].wave = Wave(c) /\ job'[c].rec = n /\ job'[c].held = job[c].held
        /\ \A d \in Controllers : d # c => job'[d] = job[d]
    BY <1>3, <2>1 DEF JobOf, Wave, n
  <2>8. pc'[c] = "begin" /\ \A d \in Controllers : d # c => pc'[d] = pc[d]
    BY <1>3 DEF Goto, Inv, Typed
  <2>9. Env(c)' = Env(c)
    <3>1. Wave(c)' = Wave(c) /\ At(c)' = At(c)
      BY <2>5, <2>6, <2>7, <2>8 DEF Wave, At, Back, Rec, Reversing
    <3> QED
      BY <3>1 DEF Env
  <2>10. Alone(c)
    BY <1>3, <2>7, <2>8, TopologiesStay DEF Alone
  <2>11. Spared(c)' /\ Down(c)'
    <3>1. Full(c)' => Full(c)
      BY <1>3, <2>7 DEF Full, Wave
    <3>2. Good' = Good
      BY <1>1 DEF Good, Serving
    <3>3. pc[c] \in Claiming /\ pc'[c] \notin Executing
      BY <2>2, <2>8 DEF Claiming, Executing
    <3>4. Spared(c)
      BY DEF Replicated
    <3> QED
      BY <1>1, <2>9, <3>1, <3>2, <3>3, <3>4 DEF Spared, Down
  <2> QED
    BY <1>1, <2>10, <2>11, QuietStep
<1> QED
  BY <1>2, <1>3 DEF Mark

\* A stalled controller has no more than before.
LEMMA StallKeepsReplicated ==
    ASSUME Shared, Inv, Claims, Replicated, NEW c \in Controllers, Stall(c) PROVE Replicated'
<1>1. UNCHANGED <<health, up, misrecorded, pc, job>> /\ PlansGoOn
  BY DEF Stall, stored, replicas, history, PlansGoOn
<1>2. Alone(c)
  BY StallKeepsClaims
<1>3. PICK ts : top' = Unheld(top, ts)
  BY DEF Stall
<1>4. Env(c)' = Env(c) /\ (Full(c)' => Full(c))
  <2>1. job[c].held \subseteq Topologies
    BY WaveAssumption DEF Inv, Typed, JobOf
  <2> QED
    BY <1>1, <1>3, <2>1, WaveAssumption DEF Env, Wave, At, Back, Rec, Full, Unheld, Claims
<1>5. Good' = Good /\ Serving' = Serving
  BY <1>1 DEF Good, Serving
<1>6. Spared(c)' /\ Down(c)'
  BY <1>1, <1>4, <1>5 DEF Replicated, Spared, Down
<1> QED
  BY <1>1, <1>2, <1>6, QuietStep

\* The execution begins: the replica goes down, and it was spared.
LEMMA ExecuteKeepsReplicated ==
    ASSUME Shared, Inv, Claims, Replicated, NEW c \in Controllers, Execute(c) PROVE Replicated'
<1> DEFINE e == Env(c)
<1>1. /\ UNCHANGED <<health, job, top>> /\ up' = up \ {e} /\ misrecorded' = misrecorded \ {e}
      /\ SetPlan(c, "running") /\ Working(c) /\ "running" \in PlanStates
      /\ pc[c] \in {"begin", "topologyBack"}
  BY ReadyWorks DEF Execute, PlanStates, Started
<1>2. Full(c)
  BY DEF Execute, Ready, Validates, HoldsAll, Full, Claims, HeldFits
<1>3. Serving' = Serving \ {e} /\ Good' = Good \ {e}
  BY <1>1 DEF Serving, Good
<1>4. pc'[c] \in Executing /\ pc'[c] \notin Claiming \cup {"begin"} /\ Back(c)' = Back(c)
      /\ \A d \in Controllers : d # c => pc'[d] = pc[d]
  BY <1>1 DEF Execute, Goto, Inv, Typed, Executing, Claiming, Back, Reversing
<1>5. Env(c)' = e
  BY <1>1, <1>4 DEF Env, Wave, At, Rec
<1>6. \A f \in health' : f \in Serving' \/ RunningIn(f)'
  <2> SUFFICES ASSUME NEW f \in health PROVE f \in Serving' \/ RunningIn(f)'
    BY <1>1
  <2>1. /\ \A g : g # Env(c) /\ RunningIn(g) => RunningIn(g)'
        /\ \A g : g = Env(c) => RunningIn(g)'
    BY <1>1, SetPlanEffect, OtherPlansStay
  <2>2. f \in Serving \/ RunningIn(f)
    BY DEF Replicated
  <2> QED
    BY <1>3, <2>1, <2>2
<1>7. Cardinality(Good') >= Minimum
  <2>1. CASE e \in health
    <3>1. Spared(c) /\ pc[c] \in Claiming \cup {"begin"}
      BY <1>1 DEF Replicated, Claiming
    <3> QED
      BY <1>2, <1>3, <2>1, <3>1 DEF Spared
  <2>2. CASE e \notin health
    <3>1. Good' = Good
      BY <1>3, <2>2 DEF Good
    <3> QED
      BY <3>1 DEF Replicated
  <2> QED
    BY <2>1, <2>2
<1>8. ASSUME NEW d \in Controllers PROVE Spared(d)' /\ Down(d)'
  <2>1. CASE d = c
    BY <1>3, <1>4, <1>5, <2>1 DEF Spared, Down
  <2>2. CASE d # c
    <3>1. ~Full(d)'
      <4>1. Full(d)' => Full(d)
        BY <1>1 DEF Full, Wave
      <4> QED
        BY <1>2, <2>2, <4>1, OnlyOneIsFull
    <3>2. Down(d) /\ pc'[d] = pc[d] /\ Env(d)' = Env(d)
      BY <1>1, <1>4, <2>2 DEF Replicated, Env, Wave, At, Back, Rec
    <3> QED
      BY <1>3, <3>1, <3>2 DEF Spared, Down
  <2> QED
    BY <2>1, <2>2
<1> QED
  BY <1>1, <1>6, <1>7, <1>8 DEF Replicated

\* The execution ends: the replica serves again, or is no longer healthy.
LEMMA EndExecutionKeepsReplicated ==
    ASSUME Shared, Inv, Claims, Replicated, Inv', NEW c \in Controllers, EndExecution(c) PROVE Replicated'
<1> DEFINE e == Env(c)
<1>1. /\ pc[c] \in Executing /\ HoldsAll(c) /\ UNCHANGED misrecorded /\ LetGo(c) /\ Working(c)
      /\ pc[c] # "next" /\ \E x : PlanSet(Wave(c), At(c), Kind(c), x)
      /\ \/ health' = health \cup {e} /\ up' = up \cup {e}
         \/ health' = health /\ up' = up \cup {e}
         \/ health' = health \ {e} /\ up' = up
  <2>1. "succeeded" \in PlanStates /\ "failed" \in PlanStates
    BY DEF PlanStates, Started
  <2>2. LetGo(c)
    BY ControllerLetsGo
  <2>3. Working(c) /\ pc[c] # "next"
    BY DEF EndExecution, Working, Executing, Advancing, Reversing
  <2>4. \E x \in PlanStates : SetPlan(c, x) \/ Unread(c, x)
    BY <2>1 DEF EndExecution, Ends
  <2>5. \E x : PlanSet(Wave(c), At(c), Kind(c), x)
    BY <2>3, <2>4, SetPlanEffect, UnreadEffect
  <2> QED
    BY <2>2, <2>3, <2>5 DEF EndExecution, Validates, history
<1>2. Full(c)
  BY <1>1 DEF HoldsAll, Full, Claims, HeldFits
<1>3. e \in Envs /\ e \notin Serving /\ executor[e] = c
  BY <1>1, WorkingFacts DEF Replicated, Down, Inv, Own
<1>4. /\ health' \in SUBSET Envs /\ up' \in SUBSET Envs /\ misrecorded' \in SUBSET Envs
      /\ Serving' \subseteq Serving \cup {e} /\ Good \subseteq Good' /\ Good' \subseteq Envs
      /\ Serving \subseteq Serving' /\ (e \in health' => e \in Serving')
      /\ health' \subseteq health \cup {e}
  BY <1>1, <1>3 DEF Replicated, Serving, Good
<1>5. \A f \in health' : f \in Serving' \/ RunningIn(f)'
  <2> SUFFICES ASSUME NEW f \in health', f # e PROVE f \in Serving' \/ RunningIn(f)'
    BY <1>4
  <2>1. \A g : g # Env(c) /\ RunningIn(g) => RunningIn(g)'
    BY <1>1, OtherPlansStay
  <2>2. f \in Serving \/ RunningIn(f)
    BY <1>4 DEF Replicated
  <2> QED
    BY <1>4, <2>1, <2>2
<1>6. Cardinality(Good') >= Minimum
  BY <1>4, MoreIsEnough DEF Replicated
<1>7. ASSUME NEW d \in Controllers, d # c PROVE Spared(d)' /\ Down(d)'
  <2>1. ~Full(d)'
    BY <1>1, <1>2, <1>7, FullStays, OnlyOneIsFull DEF LetGo
  <2>2. pc'[d] = pc[d] /\ Env(d)' = Env(d) /\ Down(d)
    BY <1>1, <1>7 DEF LetGo, Alone, Env, Wave, At, Back, Rec, Replicated
  <2>3. pc[d] \in Executing => Env(d) # e
    BY <1>3, <1>7 DEF Inv, Own
  <2> QED
    BY <1>4, <2>1, <2>2, <2>3 DEF Spared, Down
<1>8. Spared(c)' /\ Down(c)'
  BY <1>1, LetGoOwes
<1> QED
  BY <1>4, <1>5, <1>6, <1>7, <1>8 DEF Replicated

\* The reconciler fails a plan that was left running: a replica that is down
\* and still healthy on record is misrecorded from then on.
LEMMA RecoverKeepsReplicated ==
    ASSUME Inv, Replicated, NEW w \in Waves, NEW p \in Order(w), NEW kind \in Kinds,
           Recover(w, p, kind)
    PROVE  Replicated'
<1>1. /\ executor[Cohort[w][p]] = Nobody /\ plan' = [plan EXCEPT ![w][p][kind] = "failed"]
      /\ misrecorded' = misrecorded \cup {e \in health \ up : ~RunningIn(e)'}
      /\ UNCHANGED <<health, up, executor, pc, job, top>>
  BY DEF Recover, replicas
<1>2. /\ \A v \in Waves : v # w => plan'[v] = plan[v]
      /\ \A q \in Order(w) : q # p => plan'[w][q] = plan[w][q]
  BY <1>1 DEF Inv, Typed, Plans
<1>3. \A f : f # Cohort[w][p] /\ RunningIn(f) => RunningIn(f)'
  BY <1>2, RunningGoesOn
<1>4. /\ misrecorded' \in SUBSET Envs /\ Good \subseteq Good' /\ Good' \subseteq Envs
      /\ \A f \in health' : f \in Serving' \/ RunningIn(f)'
  BY <1>1 DEF Replicated, Good, Serving
<1>5. Cardinality(Good') >= Minimum
  BY <1>4, MoreIsEnough DEF Replicated
<1>6. ASSUME NEW d \in Controllers PROVE Spared(d)' /\ Down(d)'
  <2>1. Env(d)' = Env(d) /\ pc'[d] = pc[d] /\ (Full(d)' <=> Full(d)) /\ Spared(d) /\ Down(d)
    BY <1>1 DEF Env, Wave, At, Back, Rec, Full, Replicated
  <2>2. Spared(d)'
    <3>1. ASSUME Cardinality(Good \ {Env(d)}) >= Minimum PROVE Cardinality(Good' \ {Env(d)}) >= Minimum
      BY <1>4, <3>1, MoreIsEnough
    <3> QED
      BY <1>1, <2>1, <3>1 DEF Spared
  <2>3. ASSUME pc[d] \in Executing PROVE Env(d) \notin Serving'
    <3>1. Working(d)
      BY <2>3 DEF Working, Executing, Advancing, Reversing
    <3>2. executor[Env(d)] = d /\ PlanOf(d) = "running" /\ Env(d) # Cohort[w][p]
      BY <1>1, <2>3, WaveAssumption DEF Inv, Own
    <3>3. RunningIn(Env(d))
      BY <2>3, <3>1, <3>2, WorkingFacts, KindOfWork DEF RunningIn, Executing
    <3> DEFINE f == Env(d)
    <3>4. f # Cohort[w][p] /\ RunningIn(f) /\ f \notin up /\ f \notin misrecorded
      BY <2>1, <2>3, <3>2, <3>3 DEF Down, Serving
    <3> HIDE DEF f
    <3>5. f \notin misrecorded' /\ f \notin up'
      BY <1>1, <1>3, <3>4
    <3> QED
      BY <3>5 DEF f, Serving
  <2> QED
    BY <2>1, <2>2, <2>3 DEF Down
<1> QED
  BY <1>1, <1>4, <1>5, <1>6 DEF Replicated

\* Steps that touch neither replicas nor claims nor plans.
LEMMA OtherStepsKeepReplicated ==
    ASSUME Replicated, UNCHANGED <<plan, health, up, misrecorded, pc, job, top>> PROVE Replicated'
<1>1. /\ Serving' = Serving /\ Good' = Good
      /\ \A e : RunningIn(e)' <=> RunningIn(e)
  BY DEF Serving, Good, RunningIn
<1>2. \A c \in Controllers : /\ Env(c)' = Env(c) /\ pc'[c] = pc[c] /\ (Full(c)' <=> Full(c))
  BY DEF Env, Wave, At, Back, Rec, Full
<1> QED
  BY <1>1, <1>2 DEF Replicated, Spared, Down

\* Every step keeps enough replicas.
LEMMA NextKeepsReplicated ==
    ASSUME Shared, Inv, Claims, Replicated, Inv', [Next]_vars PROVE Replicated'
<1>1. CASE \/ UNCHANGED vars
           \/ \E w \in Waves : Admit(w) \/ Stop(w) \/ Resume(w) \/ Conclude(w) \/ ResumePlan(w)
  <2>1. UNCHANGED <<plan, health, up, misrecorded, pc, job, top>>
    BY <1>1, EditsLeave DEF vars
  <2> QED
    BY <2>1, OtherStepsKeepReplicated
<1>2. CASE \E w \in Waves : \E p \in Order(w), kind \in Kinds : Recover(w, p, kind)
  BY <1>2, RecoverKeepsReplicated
<1>3. ASSUME NEW c \in Controllers,
             \/ \E w \in Waves : RollBack(c, w)
             \/ Refuse(c) \/ AwaitApproval(c)
             \/ SettleTarget(c) \/ RolledBack(c) \/ Crash(c) \/ Expire(c)
      PROVE  Replicated'
  BY <1>3, LetGoKeepsReplicated
<1>4. ASSUME NEW c \in Controllers,
             (\E w \in Waves : Advance(c, w)) \/ MakeRollback(c) \/ NotExecuted(c) \/ FenceLost(c)
      PROVE  Replicated'
  BY <1>4, AdvanceKeepsReplicated, MakeRollbackKeepsReplicated, NotExecutedKeepsReplicated
<1>5. ASSUME NEW c \in Controllers,
             TakeTopology(c) \/ Mark(c) \/ Stall(c) \/ Execute(c) \/ EndExecution(c)
      PROVE  Replicated'
  BY <1>5, TakeTopologyKeepsReplicated, MarkKeepsReplicated, StallKeepsReplicated, ExecuteKeepsReplicated,
     EndExecutionKeepsReplicated
<1> QED
  BY <1>1, <1>2, <1>3, <1>4, <1>5 DEF Next

\* For any waves of one product and any interleaving of their controllers,
\* with crashes, stalls and lapses, the minimum of serving replicas is kept, as
\* far as the records tell (check_availability, claim_topology_leases).
THEOREM MinimumIsKept == ASSUME Shared PROVE Spec => []MinimumKept
<1>1. Init => Replicated
  <2> SUFFICES ASSUME Init PROVE Replicated
    OBVIOUS
  <2>1. Serving = Envs /\ Good = Envs /\ health = Envs
    BY DEF Init, Serving, Good
  <2>2. Cardinality(Envs) >= Minimum
    BY WaveAssumption, FS_CardinalityType
  <2>3. \A c \in Controllers : pc[c] = "idle"
    BY DEF Init
  <2> QED
    BY <2>1, <2>2, <2>3 DEF Init, Replicated, Spared, Down, Claiming, Executing
<1>2. Inv /\ Claims /\ Replicated /\ Inv' /\ [Next]_vars => Replicated'
  BY NextKeepsReplicated
<1>3. Replicated => MinimumKept
  <2>1. ASSUME Replicated PROVE MinimumKept
    BY <2>1, MoreIsEnough DEF Replicated, Good, Serving, MinimumKept
  <2> QED
    BY <2>1
<1> QED
  BY <1>1, <1>2, <1>3, Inductive, ClaimsInOrder, PTL DEF Spec
=============================================================================
