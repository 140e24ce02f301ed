SPECIFICATION MigrationSpec
CONSTANTS
    Migrators = {"p", "q", "r"}
    Deploys <- MCDeploys
    MaxStops = 3
    BaselineStops = TRUE
CHECK_DEADLOCK FALSE
INVARIANTS
    MigratedOnce
