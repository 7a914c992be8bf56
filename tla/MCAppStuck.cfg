CONSTANTS
    Options = {all, wrong}
    Valid = {all}
    Tiers = {free}
    Free = free
    Capacity = 1
    MaxWrites = 4
    MaxOps = 2
    Nothing = Nothing
CHECK_DEADLOCK FALSE
SPECIFICATION Spec
PROPERTY StoppedHelpersEnd
