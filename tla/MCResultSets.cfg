CONSTANTS
    Cands = {c1, c2}
    MaxInactive = 1
    Batch = 1
    MaxSteps = 2
    MaxSets = 4
    MaxVersion = 2
SPECIFICATION SetsSpec
SYMMETRY Sym
CHECK_DEADLOCK FALSE
INVARIANTS LiveSetsKept
PROPERTIES PlansHold
