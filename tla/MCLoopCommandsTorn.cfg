SPECIFICATION Spec
CONSTANTS
    t1 = t1
    t2 = t2
    unsafe = unsafe
    p1 = p1
    p2 = p2
    i1 = i1
    i2 = i2
    i3 = i3
    i4 = i4
    i5 = i5
    i6 = i6
    NoFile = NoFile
    Verdicts = {TRUE, FALSE}
    TaskIds <- OneTask
    SafeIds <- OneTask
    Procs <- TwoProcs
    Inodes <- FourInodes
    Exclusive = FALSE
    MaxLoops = 2
    IterationBound = 1
INVARIANTS
    SavedIsRestorable
