CONSTANTS
    Options = {all, wrong}
    Valid = {all}
    Tiers = {free, orphan}
    Free = free
    Capacity = 1
    MaxWrites = 4
    MaxOps = 3
    Nothing = Nothing
CHECK_DEADLOCK FALSE
SPECIFICATION Spec
PROPERTY NamedIsReclaimed
