SPECIFICATION FairSpec
CONSTANTS
    p1 = p1
    p2 = p2
    p3 = p3
    None = None
    Procs <- MCProcs
    Writers = {p1, p2}
    Creators = {p1, p2}
    Mortal = {p1, p2}
    Quitters = {p2, p3}
    Sweepers = {p1}
    N = 2
    MaxOpens = 4
    MaxArenas = 2
    MaxCrashes = 1
CHECK_DEADLOCK FALSE
INVARIANTS
    OneOccupant
    ServerIsOwner
    CheckedAlone
PROPERTIES
    VerdictOnlyDead
    Recovers
