SPECIFICATION Spec
CONSTANTS
    Appliers = {a1}
    Configurers = {}
    Migrations = {m1}
    Runtime = runtime
    None = None
    Others = {"enroll", "retire"}
    ExecTTL = 1
    EnvTTL = 1
    UnlockTTL = 1
    MaxTime = 1
    MaxGrants = 3
INVARIANT ServerRuntimeExclusive
INVARIANT RetiredIsQuiet
INVARIANT MigrationExcludesApply
CHECK_DEADLOCK FALSE
