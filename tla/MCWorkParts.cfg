SPECIFICATION PartsSpec
CONSTANTS
    t1 = t1
    t2 = t2
    t3 = t3
    t4 = t4
    red = red
    blue = blue
    Tasks <- FourTasks
    Priorities <- TwoPriorities
    Capacity = 3
    MaxPushes = 4
    Items <- FourTasks
    Ranks <- TwoPriorities
    DeadIds <- FourTasks
    Reasons <- TwoReasons
    DeadCapacity = 3
    MaxRecords = 6
    Tags <- TwoTags
    TagsOf <- SomeTags
    none = none
    step = step
    BudgetTasks = {1, 2}
    RunTotals <- MCRunTotals
    TaskCaps <- MCTaskCaps
    Pool = 7
    SafetyReserve = 1
    MaxSlots = 5
    High = 4
    Low = 1
    MaxDepth = 5
    Policies <- MCPolicies
    LargestPower = 8
    Positions = {0, 1, 9, 10}
    Labels = {none, step}
    EngineStates <- MCEngineStates
    Moves <- MCMoves
    MaxMoves = 5
    idle = idle
    running = running
    done = done
    archived = archived
    Latest = 5
    BucketCapacity = 3
    Rate = 2
    MaxRejections = 2
    Keys = {1, 2}
    CacheTtl = 3
    Leased = {1, 2, 3}
    Owners = {1, 2}
    Ttl = 3
    c1 = c1
    c2 = c2
    c3 = c3
    Calls <- ThreeCalls
    FailureThreshold = 2
    SuccessThreshold = 2
    RecoveryTimeout = 2
    MaxCalls = 5
    MaxOpens = 2
    MaxRefusals = 2
INVARIANTS
    QueueInStep
    LettersFiled
    SelectionsRight
    BudgetKept
    ClaimsHonoured
    AttemptsAccounted
    PositionsKept
    RateBounded
    DedupeWindow
    ExpiriesAgree
    StateConsistent
    SlotsNeverLeak
    SlotsCountProbes
    TotalsAddUp
PROPERTIES
    ServesInOrder
    HeapServesInOrder
    BandRespected
    ExecuteEnds
    CooldownRespected
    RecoversOrRetrips
