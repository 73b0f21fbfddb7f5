SPECIFICATION Spec
CONSTANTS
    k1 = k1
    k2 = k2
    w1 = w1
    w2 = w2
    Keys = {k1, k2}
    Writers = {w1, w2}
    Keeper = keeper
    None = None
    MaxMishaps = 2
    MaxPasses = 1
SYMMETRY Symmetry
CHECK_DEADLOCK FALSE
INVARIANTS
    ReferencedBytesSafe
    Compensated

PROPERTY PassRepairs
