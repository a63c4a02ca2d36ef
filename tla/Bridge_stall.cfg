SPECIFICATION Spec
CONSTANTS
    a = a
    b = b
    u = u
    None = None
    Over = Over
    Senders <- MCSenders
    Who <- MCWho
    Unattributed = "anonymous"
    Lead <- MCLead
    Transforms <- MCTransforms
    Dynamic = {"x", "y"}
    Static = {"fixed"}
    BadNames = {""}
    Modes <- Steady
    Threshold = 16
    Window = 16
    Ratio = 25
    Floor = 8
    RewindThreshold = 16
    MAX_TRACKED_PUBLISHERS = 2
    STARTUP_WINDOW_TRANSFORMS = 3
    Step = 8
    Delay = 24
    MaxNow = 32
    MaxQueue = 2
    MaxSends = 4
    MaxOdd = 0
    MaxJumps = 0
CHECK_DEADLOCK FALSE
INVARIANTS
    CommonModeIsClock
