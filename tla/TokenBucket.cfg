SPECIFICATION Spec
CONSTANTS
    r1 = r1
    r2 = r2
    p1 = p1
    Shared = Shared
    Request = {r1, r2}
    Process = {p1}
    Capacity = 4
    Cost = 2
    Ttl = 10
    MaxAhead = 2
    MaxLate = 1
    MaxFaults = 2
SYMMETRY Symmetry
INVARIANTS
    TypeOK
    QuotaKept
    RefusedOnlyWhenSpent
