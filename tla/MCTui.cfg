CONSTANTS
    con = con
    other = other
    vol = vol
    img = img
    db = db
    job = job
    repo = repo
    NoPlan = NoPlan
    AllNames = AllNames
    Items <- MCItems
    NameOf <- MCNameOf
    SizeOf <- MCSizeOf
    BlockersOf <- MCBlockersOf
    Waived = {vol}
    Plans <- MCPlans
    MaxJobs = 3
    MaxFound = 1
CHECK_DEADLOCK FALSE
SPECIFICATION Spec
INVARIANTS
    OneWorker
    TicksAreTheUsers
    ReachIsConsented
    ReceiptIsLast
    PromisedAreUnlocked
PROPERTIES
    BusyScreensEnd
