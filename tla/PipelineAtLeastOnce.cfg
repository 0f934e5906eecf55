SPECIFICATION Spec
CONSTANTS
    d1 = d1
    w1 = w1
    p1 = p1
    Delivery = {d1}
    Worker = {w1}
    Publisher = {p1}
    MaxRetries = 2
    BatchSize = 2
    OutboxLimit = 2
    MaxReplays = 0
    MaxCrashes = 0
    MaxFaults = 1
    MaxTakeovers = 0
    MaxOverlap = 1
INVARIANTS
    AtLeastOnce
