SPECIFICATION Spec
CONSTANTS
    Instances = {old, new}
    Nobody = Nobody
    Steady = {new}
    NumPlans = 2
    NumSteps = 1
    Lifetime = 3
    Beat = 1
    MaxFaults = 1
CHECK_DEADLOCK FALSE
PROPERTY PlansEnd
