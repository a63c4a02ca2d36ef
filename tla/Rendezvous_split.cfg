SPECIFICATION Spec
CONSTANTS
    p1 = p1
    p2 = p2
    p3 = p3
    None = None
    Procs <- MCProcs
    Writers <- MCProcs
    Creators = {p1}
    Mortal = {p1}
    Quitters = {}
    Sweepers = {}
    N = 2
    MaxOpens = 3
    MaxArenas = 2
    MaxCrashes = 1
CHECK_DEADLOCK FALSE
INVARIANT OneArena
