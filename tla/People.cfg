SPECIFICATION PeopleSpec
CONSTANTS
    People <- PersonIds
    OwnerEmails <- MCOwnerEmails
    Staffings <- MCStaffings
    Requests = {q1, q2}
    MaxTokens = 2
    MaxCredentials = 3
    Beginnings <- MCBeginnings
    Browsers = {q1, q2}
    MaxSessions = 3
    MaxRotations = 2
    MaxFactors = 6
    MaxSteps = 2
    Processes = {"r1", "r2"}
    Secrets = {"s1", "s2"}
    States = {"t1", "t2"}
    Viewers = {"o1", "o2"}
    MaxEntries = 1
    MaxOnceFaults = 1
CHECK_DEADLOCK FALSE
SYMMETRY AccountSymmetry
INVARIANTS
    OneOwner
    RightsAreCurrent
    ProofUsedOnce
    SessionsAreEarned
    UsedOnce
PROPERTIES
    ChangesAreAuthorised
