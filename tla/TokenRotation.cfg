CONSTANTS
    None = None
    Maintainer = {m}
    Sharing = {e1}
    Standalone = {r}
    Allowed = {e1}
    Tries = 3
    MaxPair = 2
SPECIFICATION Spec
INVARIANTS TypeOK PairIsKept
PROPERTIES RowMovesForward SparesGoodPairs
CHECK_DEADLOCK FALSE
