----------------------- MODULE MCEnvironmentLease -----------------------
(* Small instances of EnvironmentLease for TLC. *)
EXTENDS EnvironmentLease, TLC

\* Plan executions are interchangeable; so are configuration changes.
Symmetry == Permutations(Appliers) \cup Permutations(Configurers)
=============================================================================
