-------------------------- MODULE MCFencedMutation --------------------------
(* FencedMutation on small sets of runs. *)
EXTENDS FencedMutation, TLC

\* Shell runs that may be cancelled alike are interchangeable.
Symmetry == Permutations(Runs \ InProcess)
=============================================================================
