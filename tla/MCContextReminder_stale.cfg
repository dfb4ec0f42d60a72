SPECIFICATION Spec
CONSTANTS
    h1 = h1
    h2 = h2
    h3 = h3
    Hooks = {h1, h2}
    None = None
    Missing = Missing
    MAX_BYTES = 2
    MaxU64 = 5
    REMIND_AT = 2
    COMPACT_AT = 3
    Sizes = {2, 4}
    MaxCrossings = 2
    MaxLag = 1
SYMMETRY HookSymmetry
INVARIANTS AtMostOncePerCrossing
