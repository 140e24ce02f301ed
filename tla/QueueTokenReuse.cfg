SPECIFICATION Spec
CONSTANTS
    Emails = {e1}
    Workers = {w1}
    Groups = {g1}
    Nobody = Nobody
    RetrySchedule <- MCSchedule
    RetryMaxAge = 2
    DeferDelay = 1
    MaxConcurrentSends = 2
    BatchSize = 1
    LeaseTicks = 2
    FullWrites = 1
    Interruptions = {"database"}
    MaxInterruptions = 1
    Operations = {}
    DeferralAckLoss = TRUE
INVARIANTS
    SingleHolder
