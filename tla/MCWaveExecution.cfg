SPECIFICATION Spec
CONSTANTS
    e1 = e1
    e2 = e2
    Nobody = Nobody
    NumWaves = 2
    Envs = {e1, e2}
    Controllers = {c1, c2}
    Cohort <- MCCohort
    Touched <- MCTouched
    StopOnFailure = {1}
    NumTopologies = 2
    Minimum = 1
    Reversible = {1}
    MaxFaults = 1
SYMMETRY MCSymmetry
INVARIANTS MinimumKept NoCrossedClaims InOrder 
CHECK_DEADLOCK FALSE
