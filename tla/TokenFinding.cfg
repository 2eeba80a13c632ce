CONSTANTS
    None = None
    Maintainer = {}
    Sharing = {}
    Standalone = {r}
    Allowed = {}
    Tries = 2
    MaxPair = 2
SPECIFICATION Spec
INVARIANTS NextRunNotStranded
CHECK_DEADLOCK FALSE
