SPECIFICATION FairSpec
CONSTANTS
    Emails = {e1}
    Workers = {w1, w2}
    Groups = {g1}
    Nobody = Nobody
    RetrySchedule <- MCSchedule
    RetryMaxAge = 2
    DeferDelay = 1
    MaxConcurrentSends = 2
    BatchSize = 1
    LeaseTicks = 2
    FullWrites = 1
    Interruptions = {"crash", "shutdown", "lapse", "database", "smtp"}
    MaxInterruptions = 1
    Operations = {"trash"}
    DeferralAckLoss = FALSE
PROPERTIES
    Finishes
