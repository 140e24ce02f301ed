SPECIFICATION SignInSpec
CONSTANTS
    Beginnings <- MCBeginnings
    Browsers = {q1, q2}
    MaxSessions = 3
    MaxRotations = 2
    MaxFactors = 6
    MaxSteps = 2
CHECK_DEADLOCK FALSE
SYMMETRY SignInSymmetry
INVARIANTS
    OwnerSsoRule
