SPECIFICATION Spec
CONSTANTS
    Emails = {e1}
    Workers = {w1, w2}
    Groups = {g1}
    Nobody = Nobody
    RetrySchedule <- MCSchedule
    RetryMaxAge = 2
    DeferDelay = 1
    MaxConcurrentSends = 2
    BatchSize = 1
    LeaseTicks = 2
    FullWrites = 1
    Interruptions = {"crash", "shutdown", "lapse", "database", "smtp"}
    MaxInterruptions = 2
    Operations = {"revoke"}
    DeferralAckLoss = FALSE
SYMMETRY Symmetry
INVARIANTS
    TypeOK
    SingleHolder
    DuplicatesArePaidFor
PROPERTIES
    ImplementsLedger
