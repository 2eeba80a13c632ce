\* A signal whose fill could not be protected goes back on offer.
SPECIFICATION Spec
CONSTANTS
    h1 = h1
    h2 = h2
    s1 = s1
    s2 = s2
    gold = gold
    euro = euro
    NoSignal = NoSignal
    Host = {h1}
    Durable = {h1}
    Signal = {s1}
    Symbol = {gold, euro}
    SymbolOf <- OneOnGold
    MaxPositions = 2
    MaxAttempts = 3
    MaxFills = 2
    Switches = {}
PROPERTIES
    RequeueOnlyBeforeFill
