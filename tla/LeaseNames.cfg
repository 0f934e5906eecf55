SPECIFICATION FairSpec
CONSTANTS
    s1 = s1
    w1 = w1
    w2 = w2
    None = None
    Shard = {s1}
    Worker = {w1, w2}
    Name <- ContainerNames
    Ttl = 3
    MaxMissed = 2
    MaxCrashes = 0
PROPERTIES
    OwnershipRepaired
