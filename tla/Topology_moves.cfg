SPECIFICATION FairSpec
CONSTANTS
    p1 = p1
    p2 = p2
    Procs <- TwoProcs
    Slots = {1, 2}
    Creator = p1
    CreatorSlot = 1
    None = None
    Frames <- ThreeFrames
    MaxPath = 1
    Blocks = 2
    RetryLimit = 2
    Moves <- ChainMoves
    Queries <- Siblings
    BuildSteps = 2
    Built <- Chain
    MaxGeneration = 4
    MaxCrashes = 1
CHECK_DEADLOCK FALSE
INVARIANTS
    TypeOK
    ActiveIntact
    PublishedForest
    ByteMeansDead
    RowWhole
PROPERTIES
    ImplementsForestLog
    LookupReturns
