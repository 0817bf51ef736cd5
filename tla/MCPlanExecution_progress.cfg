SPECIFICATION Spec
CONSTANTS
    Attempts = {a1, a2}
    Operator = operator
    Owners = {a1, a2, operator}
    NoOwner = NoOwner
    NumSteps = 2
    Fresh = {2}
    MaxGeneration = 3
    MaxFaults = 1
    Hazards = {}
    GateOutcomes = {"halt", "rollback", "blocked"}
PROPERTY RunningIsLeft
CHECK_DEADLOCK FALSE
