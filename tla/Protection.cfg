CONSTANTS
    Nothing = Nothing
    ReconcileAttempts = 3
    AmendAttempts = 2
SPECIFICATION FairSpec
INVARIANTS TypeOK
PROPERTIES GivesVerdict EnsureGoesForward EnsureEnds
CHECK_DEADLOCK FALSE
