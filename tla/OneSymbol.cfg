\* Two signals on one symbol, room for two positions; every poll ends.
SPECIFICATION FairSpec
CONSTANTS
    h1 = h1
    h2 = h2
    s1 = s1
    s2 = s2
    gold = gold
    euro = euro
    NoSignal = NoSignal
    Host = {h1}
    Durable = {h1}
    Signal = {s1, s2}
    Symbol = {gold, euro}
    SymbolOf <- TwoOnGold
    MaxPositions = 2
    MaxAttempts = 3
    MaxFills = 2
    Switches = {"control"}
INVARIANTS
    StackingOnlyFromLate
PROPERTIES
    NoOrderOverBarePosition
    PollEnds
    PollGoesForward
