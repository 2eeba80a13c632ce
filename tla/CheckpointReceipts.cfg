CONSTANTS
    Robot = {r1, r2}
    Nobody = Nobody
    LeaseTime = 2
    Data = {d1, d2}
    None = None
    MaxRevision = 3
    r1 = r1
    r2 = r2
    d1 = d1
    d2 = d2
SPECIFICATION Spec
INVARIANTS TypeOK RepliesAgree
PROPERTIES StoreIsRegister
CHECK_DEADLOCK FALSE
