SPECIFICATION FairSpec
CONSTANTS
    w1 = w1
    w2 = w2
    x = x
    y = y
    zero = zero
    Capacity = 2
    SeqModulus = 8
    SEQ_RETRY_LIMIT = 2
    Words <- TwoWords
    Vals <- MCVals
    ZeroWord = zero
    Samples <- TwoByTwo
    Requests <- Few
    MaxHead = 3
    MaxCrashes = 1
INVARIANTS
    TypeOK
    RetainedIntact
    StampsOrdered
    SlotReadWhole
PROPERTIES
    ImplementsLog
    LookupReturns
