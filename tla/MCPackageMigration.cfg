SPECIFICATION Spec
CONSTANTS
    Callers = {c1, c2}
    Nobody = Nobody
    Checkpoints <- MCCheckpoints
    MaxPlans = 2
    MaxGeneration = 2
    MaxStrays = 1
    MaxFaults = 1
SYMMETRY Symmetry
INVARIANT RecordIsHonest
INVARIANT NoReplay
INVARIANT LockFollowsRecord
CHECK_DEADLOCK FALSE
