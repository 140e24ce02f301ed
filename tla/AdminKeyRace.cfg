SPECIFICATION AccountsSpec
CONSTANTS
    People <- PersonIds
    OwnerEmails <- MCOwnerEmails
    Staffings <- MCStaffings
    Requests = {q1, q2}
    MaxTokens = 2
    MaxCredentials = 3
CHECK_DEADLOCK FALSE
SYMMETRY AccountSymmetry
INVARIANTS
    AdminKeysFollowRole
