SPECIFICATION Spec
CONSTANTS
    Versions = {v1, v2, v3}
    First = v1
    Broken = {v3}
    None = None
    MaxStarts = 3
    MaxPlans = 2
    MaxFaults = 3
INVARIANT Recoverable
PROPERTY HonestReport
PROPERTY FailedStaysOut
PROPERTY AgentReturns
CHECK_DEADLOCK FALSE
