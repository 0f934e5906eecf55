SPECIFICATION FairSpec
CONSTANTS
    c1 = c1
    c2 = c2
    Caller = {c1, c2}
    Threshold = 2
    MaxAbandons = 1
    MaxCrashes = 0
    MaxFaults = 0
    MaxResets = 0
PROPERTIES
    ProbeResolves
