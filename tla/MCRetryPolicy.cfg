SPECIFICATION AttemptSpec
CONSTANTS
    Policies <- SteepPolicies
    LargestPower = 8
INVARIANTS
    FailuresExhaust
