SPECIFICATION GuardSpec
CONSTANTS
    Runs = {r1, r2, t1}
    Owners = {r1, r2, t1}
    InProcess = {t1}
    Cancellable = {t1}
    NoOwner = NoOwner
    MaxGeneration = 3
INVARIANT GuardTypeOK
INVARIANT LockCoversCommand
PROPERTY StartsInOrder
PROPERTY EveryRunEnds
PROPERTY LockIsFreed
CHECK_DEADLOCK FALSE
