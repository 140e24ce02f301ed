SPECIFICATION ProgressSpec
CONSTANTS
    Deliveries = {"d1", "d2"}
    Workers = {"w1", "w2"}
    Backoff <- MCBackoff
    LockTicks = 2
    BatchSize = 2
    ReplayBudget = 1
    MaxLapses = 0
    ReplayInFlight = FALSE
    Emails = {"e1", "e2"}
    Purges = {"p1", "p2"}
    MaxFailures = 2
    OpsDuringPurge = FALSE
    Replicas = {"r1", "r2"}
    SlotCalls = {"c1", "c2", "c3"}
    ReplicaOf <- MCReplicaOf
    MaxSlots = 1
    MaxSlotFaults = 2
    Migrators = {"p", "q", "r"}
    Deploys <- MCDeploys
    MaxStops = 3
    BaselineStops = FALSE
CHECK_DEADLOCK FALSE
INVARIANTS
    
    SlotsAreCounted
    
PROPERTIES
    Settles
    
    EveryDeliveryRuns
    ContainersStart
