CONSTANTS
    None = None
    Stages = 2
    MaxWanted = 1
    AddTime = 0
    HoldTime = 1
    Cooldown = 3
    MaxTime = 2
    MaxRev = 9
    MaxFaults = 1
    Losable = TRUE
SPECIFICATION Spec
INVARIANTS TypeOK LogLeads SavesAreTaken RefusesOnlyQuarantined FillsAreCounted
PROPERTIES OrdersAreRecorded
CHECK_DEADLOCK FALSE
