-------------------------- MODULE MCPackageMigration --------------------------
EXTENDS PackageMigration, TLC
MCCheckpoints == <<"compensating", "irreversible">>
Symmetry == Permutations(Callers)
=============================================================================
