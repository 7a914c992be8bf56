CONSTANTS
    Procs = {p1, p2}
    Vols = {vol}
    Seconds = {1}
    Content = {written}
    Empty = Empty
    Mixed = Mixed
    Partial = Partial
    Rotten = Rotten
    NoFile = NoFile
    None = None
SPECIFICATION Spec
INVARIANTS
    ListedIsWhole
    ReliedCopiesEndure
    RestoreIsExact
PROPERTIES
    OperationsEnd
