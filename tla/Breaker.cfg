SPECIFICATION FairSpec
CONSTANTS
    c1 = c1
    c2 = c2
    c3 = c3
    Caller = {c1, c2, c3}
    Threshold = 2
    MaxAbandons = 1
    MaxCrashes = 1
    MaxFaults = 1
    MaxResets = 1
INVARIANTS
    TypeOK
    OneProbePerOpening
    ThresholdTrips
    ProbeUnderWay
PROPERTIES
    OpenIsProbed
    UndisturbedProbeResolves
