CONSTANTS
    va = va
    vb = vb
    d1 = d1
    d2 = d2
    f1 = f1
    Nowhere = Nowhere
    Uncounted = Uncounted
    Volumes = {va, vb}
    Dirs = {d1, d2}
    Files = {f1}
    NamesOf <- NamesOf3
    ListLimit = 2
    MaxDepth = 2
    WalkLimit = 2
    Batch = 2
    MaxClosed = 1
    MaxWrites = 1
    MaxScans = 1
CHECK_DEADLOCK FALSE
SYMMETRY Symmetry
SPECIFICATION Spec
INVARIANT
    EmptyIsEmpty
