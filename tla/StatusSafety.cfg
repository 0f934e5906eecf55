SPECIFICATION Spec
CONSTANTS
    d1 = d1
    d2 = d2
    w1 = w1
    w2 = w2
    None = None
    Delivery = {d1, d2}
    Worker = {w1, w2}
    MaxThrows = 1
SYMMETRY Symmetry
INVARIANTS
    TypeOK
    FinalStatusRepaired
    FinishedIsExact
