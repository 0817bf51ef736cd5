SPECIFICATION Spec
CONSTANTS
    Events = {e1, e2, bad}
    Poison = {bad}
    Workers = {w1, w2}
    NoToken = NoToken
    Stale = Stale
    Limit = 2
    Slack = 1
    MaxBackoff = 1
    PoisonDelay = 2
    MaxFaults = 1
INVARIANT StableMetadata
INVARIANT DeliveredWasAccepted
INVARIANT OneSender
CHECK_DEADLOCK FALSE
PROPERTY EventuallyDelivered
