SPECIFICATION Spec
CONSTANTS
    w1 = w1
    w2 = w2
    x = x
    y = y
    zero = zero
    Capacity = 4
    SeqModulus = 4
    SEQ_RETRY_LIMIT = 2
    Words <- OneWord
    Vals <- MCVals
    ZeroWord = zero
    Samples <- Spread
    Requests <- Every
    MaxHead = 6
    MaxCrashes = 1
INVARIANTS
    SampleSound
    SampleExact
