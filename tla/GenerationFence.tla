-------------------------- MODULE GenerationFence --------------------------
(***************************************************************************)
(* What a namespaced lease promises to the code above it: generations are  *)
(* granted one at a time, only while no grant is live, and never twice.    *)
(* EnvironmentLease implements this specification; FencedMutation runs its *)
(* controllers on top of it.                                               *)
(***************************************************************************)
EXTENDS Naturals

CONSTANTS
    Owners,         \* who may be granted the lease
    NoOwner,        \* the owner before the first grant
    MaxGeneration   \* bound: the last generation granted

VARIABLES
    generation,     \* generation of the latest grant, 0 before the first
    owner,          \* who was granted it
    live            \* it has neither expired nor been released

fence == <<generation, owner, live>>

FenceInit == generation = 0 /\ owner = NoOwner /\ live = FALSE

\* acquire_namespaced_lease, or the takeover of an expired row.
Grant(o) ==
    /\ ~live /\ generation < MaxGeneration
    /\ generation' = generation + 1
    /\ owner' = o
    /\ live' = TRUE

\* The lease expires or is released.  A renewal keeps it live: no step here.
Lapse ==
    /\ live
    /\ live' = FALSE
    /\ UNCHANGED <<generation, owner>>

FenceNext == Lapse \/ \E o \in Owners : Grant(o)

FenceSpec == FenceInit /\ [][FenceNext]_fence

\* refresh_namespaced_lease and require_active_lease_in accept generation g.
Accepts(g) == live /\ g = generation
=============================================================================
