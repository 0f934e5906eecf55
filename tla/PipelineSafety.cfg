SPECIFICATION Spec
CONSTANTS
    d1 = d1
    w1 = w1
    w2 = w2
    p1 = p1
    p2 = p2
    Delivery = {d1}
    Worker = {w1, w2}
    Publisher = {p1, p2}
    MaxRetries = 2
    BatchSize = 2
    OutboxLimit = 1
    MaxReplays = 1
    MaxCrashes = 0
    MaxFaults = 0
    MaxTakeovers = 1
    MaxOverlap = 1
SYMMETRY Symmetry
INVARIANTS
    TypeOK
    NoDeliveryLost
    RetryWithinBudget
    OnceWhenCalm
    DispatchInOrder
    NoSkippedAttempt
PROPERTIES
    OutcomesAreFinal
    KeepsContract
