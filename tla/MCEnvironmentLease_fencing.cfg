SPECIFICATION Spec
CONSTANTS
    Appliers = {a1, a2}
    Configurers = {}
    Migrations = {}
    Runtime = runtime
    None = None
    Others = {"unlock"}
    ExecTTL = 2
    EnvTTL = 2
    UnlockTTL = 1
    MaxTime = 4
    MaxGrants = 3
SYMMETRY Symmetry
INVARIANT TypeOK
PROPERTY FencedWritesInOrder
PROPERTY OnlyHolderChangesLiveLease
PROPERTY ImplementsFence
CHECK_DEADLOCK FALSE
