\* Two executors on one signals table: h1 keeps its state file over a
\* restart, h2 (an ephemeral runner) starts with an empty one.
SPECIFICATION Spec
CONSTANTS
    h1 = h1
    h2 = h2
    s1 = s1
    s2 = s2
    gold = gold
    euro = euro
    NoSignal = NoSignal
    Host = {h1, h2}
    Durable = {h1}
    Signal = {s1}
    Symbol = {gold, euro}
    SymbolOf <- OneOnGold
    MaxPositions = 2
    MaxAttempts = 3
    MaxFills = 2
    Switches = {}
INVARIANTS
    ClaimExclusive
    OpenOrderNotOffered
    AtMostOnceUnlessReoffered
