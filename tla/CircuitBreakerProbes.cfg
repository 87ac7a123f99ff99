SPECIFICATION BreakerSpec
CONSTANTS
    Calls = {c1, c2, c3}
    FailureThreshold = 2
    SuccessThreshold = 1
    RecoveryTimeout = 1
    MaxCalls = 4
    MaxOpens = 2
    MaxRefusals = 0
INVARIANTS
    ConcurrentProbesCapped
