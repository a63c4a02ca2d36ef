SPECIFICATION SweepSpec
CONSTANTS
    p1 = p1
    p2 = p2
    t1 = t1
    t2 = t2
    t3 = t3
    Procs <- TwoProcs
    Threads <- TwoThreads
    ProcOf <- OneEach
    Owner = p1
    Mortal <- TwoProcs
    None = None
    Midway = Midway
    MaxEpoch = 2
    MaxCrashes = 2
CHECK_DEADLOCK FALSE
INVARIANTS
    TypeOK
    SinglePusher
    HeldRecordFreeByte
    ByteReturned
PROPERTY StaleClaimFreed
