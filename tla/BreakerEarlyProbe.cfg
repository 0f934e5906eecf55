SPECIFICATION Spec
CONSTANTS
    c1 = c1
    c2 = c2
    c3 = c3
    Caller = {c1, c2, c3}
    Threshold = 2
    MaxAbandons = 0
    MaxCrashes = 0
    MaxFaults = 0
    MaxResets = 0
PROPERTIES
    ProbeAfterCooldown
