SPECIFICATION Safety
CONSTANTS
    Attempts = {a1, a2}
    Operator = operator
    Owners = {a1, a2, operator}
    NoOwner = NoOwner
    NumSteps = 2
    Fresh = {2}
    MaxGeneration = 3
    MaxFaults = 2
    Hazards = {"crash", "lapse", "unlock"}
    GateOutcomes = {"halt", "rollback"}
SYMMETRY Symmetry
INVARIANT TypeOK
INVARIANT SucceededIsDeployed
INVARIANT OneFaultKeepsRecord
CHECK_DEADLOCK FALSE
