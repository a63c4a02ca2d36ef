SPECIFICATION FairSpec
CONSTANTS
    Edges = {1, 2}
    NoName = NoName
    Recordings <- MCRecordings
    Caps = {0, 8}
    Threshold = 2
    ENCODED = 1
    MIN_CAP = 5
    MAX_STAGING = 2
    None = None
INVARIANTS FilledRight WithinCap NoLap
PROPERTY Ends
CHECK_DEADLOCK FALSE
