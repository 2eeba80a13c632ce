CONSTANTS
    None = None
    Stages = 2
    MaxWanted = 1
    AddTime = 1
    HoldTime = 2
    Cooldown = 3
    MaxTime = 2
    MaxRev = 12
    MaxFaults = 0
    Losable = FALSE
SPECIFICATION Spec
INVARIANTS SettlementEnds
CHECK_DEADLOCK FALSE
