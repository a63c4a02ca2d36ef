SPECIFICATION FairSpec
CONSTANTS
    a = a
    b = b
    u = u
    None = None
    Over = Over
    Senders <- MCSenders
    Who <- MCWho
    Unattributed = "anonymous"
    Lead <- MCLead
    Transforms <- MCTransforms
    Dynamic = {"x", "y"}
    Static = {"fixed"}
    BadNames = {""}
    Modes <- MCModes
    Threshold = 16
    Window = 16
    Ratio = 25
    Floor = 8
    RewindThreshold = 16
    MAX_TRACKED_PUBLISHERS = 2
    STARTUP_WINDOW_TRANSFORMS = 3
    Step = 8
    Delay = 8
    MaxNow = 24
    MaxQueue = 1
    MaxSends = 4
    MaxOdd = 1
    MaxJumps = 1
CHECK_DEADLOCK FALSE
INVARIANTS
    Balanced
    NeverRejected
    ClockTrusted
    JumpNoticed
    StrictStops
PROPERTIES
    NothingBehindJump
    ReportApplied
