SPECIFICATION CliSpec
CONSTANTS
    t1 = t1
    t2 = t2
    t3 = t3
    r1 = r1
    r2 = r2
    r3 = r3
    a = a
    b = b
    c = c
    plain = plain
    headed = headed
    Tasks <- ThreeTasks
    Runs <- ThreeRuns
    Files <- ThreeFiles
    TextOf <- MCTextOf
    Headed <- MCHeaded
INVARIANTS
    RerunRepairs
PROPERTIES
    FailuresBracketed
CHECK_DEADLOCK FALSE
