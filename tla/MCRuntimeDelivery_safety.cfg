SPECIFICATION Spec
CONSTANTS
    Instances = {old, new}
    Nobody = Nobody
    Steady = {new}
    NumPlans = 2
    NumSteps = 2
    Lifetime = 3
    Beat = 1
    MaxFaults = 1
INVARIANT OneExecutor
INVARIANT SucceededIsInstalled
INVARIANT CompletionDecides
CHECK_DEADLOCK FALSE
