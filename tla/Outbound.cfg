SPECIFICATION OutboundSpec
CONSTANTS
    Recipients = {"a", "b", "c"}
    IndexOf <- MCIndexOf
    DomainOf <- MCDomainOf
    MxOf <- MCMxOf
    BucketOf <- MCBucketOf
    SecureHosts = {"h2"}
    StsHosts = {"h1", "h2"}
    StsModes <- MCStsModes
    MaxSends = 3
    MaxMailFaults = 2
    MaxPolicies = 2
    Reports = {"a", "b"}
    RuaOf <- MCRuaOf
    Mailtos = {"m1", "m2"}
    DestinationOf <- MCDestinationOf
    Jobs = {"p", "q"}
    JobWorkers = {"w1", "w2"}
    JobOf <- MCJobOf
    PerDay = 2
    PerDestination = 2
    MaxTlsAttempts = 2
    Retention = 1
    TlsDays = {1, 2}
    MaxTlsRuns = 2
    MaxTlsFaults = 1
    Deliveries = {"d1", "d2"}
    Workers = {"w1", "w2"}
    Backoff <- MCBackoff
    LockTicks = 2
    BatchSize = 2
    ReplayBudget = 1
    MaxLapses = 1
    ReplayInFlight = FALSE
    Senders = {"r1", "r2"}
    Unit = 3
    PerTick = 2
    Capacity = 2
    MaxBatch = 3
    MaxTicks = 4
    MaxTokenFaults = 1
    Commands = {"c1", "c2", "c3", "c4"}
    MaxClients = 3
CHECK_DEADLOCK FALSE
INVARIANTS
    DeliveriesAreTrue
    CapsHold
    
    BudgetIsKept
    
PROPERTIES
    
    
    ConnectionIsSound
