SPECIFICATION FairSpec
CONSTANTS
    s1 = s1
    w1 = w1
    w2 = w2
    None = None
    Shard = {s1}
    Worker = {w1, w2}
    Name <- HostNames
    Ttl = 3
    MaxMissed = 2
    MaxCrashes = 1
INVARIANTS
    TypeOK
    OwnershipExclusive
    RunningDispatchExclusive
PROPERTIES
    ShardReattended
    OwnershipRepaired
