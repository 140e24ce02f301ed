SPECIFICATION ChecksSpec
CONSTANTS
    Requests = {q1, q2}
    RequireVerified = TRUE
    LastDay = 2
    Worlds <- MCWorlds
    MaxKeys = 3
    MaxDnsChanges = 1
    MaxRestarts = 1
    KeyedRequests = {"r1", "r2", "r3"}
    Bodies = {"b1", "b2"}
    Ttl = 4
    MaxOpen = 2
    MaxTime = 5
    SpfDomains = {"d1", "d2"}
    TopDomain = "d1"
    Zones <- MCZones
    Reverses = {"names", "void", "error"}
    MaxTerms = 3
    MaxVoids = 1
    Windows = {"r1", "r2"}
    Buckets = {"own", "ip"}
    Attempts = {"l1", "l2", "l3", "l4", "f1", "f2", "p1", "p2"}
    AttemptSets <- MCAttemptSets
    LimitOf <- MCLimitOf
    MaxCount = 2
    MaxWindowFaults = 1
    MaxWindowEnds = 1
CHECK_DEADLOCK FALSE
SYMMETRY RequestSymmetry
INVARIANTS
    DomainIsTrue
    OneEmailPerKey
    AnswersAreTrue
    GivesReference
    LimitsHold
PROPERTIES
    SwitchIsSafe
