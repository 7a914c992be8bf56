CONSTANTS
    precious = precious
    net = net
    Absent = Absent
    Unseen = Unseen
    Empty = Empty
    Torn = Torn
    Kept = Kept
    None = None
    Res <- MCRes
    Order <- MCOrder
    Volumes <- MCVolumes
    Gone <- MCVolumes
    Facts <- MCFacts
    Holding = {"held"}
    TierOf <- MCTierOf
    NameOf <- MCNameOf
    Labelled <- MCVolumes
    Runs <- MCRuns
    CacheBytes = 1
    MaxWrites = 2
SPECIFICATION Spec
INVARIANTS
    TypeOK
    PreservedBeforeRemoved
    OnlyLateWritesAreLost
    ReceiptAccountsForRun
PROPERTIES
    StopsBetweenItems
    SafelyRemoves
    Terminates
CHECK_DEADLOCK FALSE
