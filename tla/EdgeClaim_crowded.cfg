SPECIFICATION Spec
CONSTANTS
    p1 = p1
    p2 = p2
    t1 = t1
    t2 = t2
    t3 = t3
    Procs <- TwoProcs
    Threads <- ThreeThreads
    ProcOf <- Crowded
    Owner = p1
    Mortal <- TwoProcs
    None = None
    Midway = Midway
    MaxEpoch = 3
    MaxCrashes = 0
CHECK_DEADLOCK FALSE
INVARIANT SinglePusher
