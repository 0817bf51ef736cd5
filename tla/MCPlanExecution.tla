--------------------------- MODULE MCPlanExecution ---------------------------
(* PlanExecution for a plan of one or two steps. *)
EXTENDS PlanExecution, TLC

\* Attempts are interchangeable.
Symmetry == Permutations(Attempts)
=============================================================================
