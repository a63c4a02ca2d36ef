SPECIFICATION FairSpec
CONSTANTS
    t1 = t1
    t2 = t2
    t3 = t3
    None = None
    Threads <- MCThreads
    Me <- MCMe
    Names <- MCNames
    Hash <- MCHash
    Home <- MCHome
    Stored <- MCStored
    TableLen = 4
    Capacity = 1
    Rounds = 2
    Plans <- MCPlans
    Frail = {1}
    MaxCalls = 2
    MaxCrashes = 1
    MaxRestarts = 1
    MaxErased = 0
CHECK_DEADLOCK FALSE
PROPERTY DelayedNeverLost
