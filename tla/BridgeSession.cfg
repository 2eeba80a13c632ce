CONSTANTS
    Robot = {r1, r2}
    Nobody = Nobody
    LeaseTime = 3
    AckWindow = 2
    HandshakeTime = 1
    MaxDelay = 1
    MaxAsked = 2
    r1 = r1
    r2 = r2
SPECIFICATION FairSpec
INVARIANTS TypeOK OneConnected ConnectedHolds
PROPERTIES TakesOver
CHECK_DEADLOCK FALSE
