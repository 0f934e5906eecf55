SPECIFICATION FairSpec
CONSTANTS
    d1 = d1
    w1 = w1
    w2 = w2
    p1 = p1
    Delivery = {d1}
    Worker = {w1, w2}
    Publisher = {p1}
    MaxRetries = 2
    BatchSize = 2
    OutboxLimit = 2
    MaxReplays = 0
    MaxCrashes = 1
    MaxFaults = 1
    MaxTakeovers = 0
    MaxOverlap = 1
INVARIANTS
    LossIsCounted
PROPERTIES
    EventuallySettled
    RowsKeepOrder
