\* Executors of both kinds: a worker refreshes, and the main thread before it or beside it.
SPECIFICATION Spec
CONSTANTS
    w1 = w1
    w2 = w2
    o1 = o1
    o2 = o2
    Main = Main
    Asked = Asked
    Nothing = Nothing
    Thread = {w1, w2}
    Operator = {o1, o2}
    MaxAge = 2
    ReadTime = 1
    MaxVersion = 4
    MaxTime = 5
SYMMETRY Alike
INVARIANTS
    TypeOK
    StopTakesEffect
PROPERTIES
    CacheMovesForward
    NoLostUpdate
