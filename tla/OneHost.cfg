\* One executor with a durable state file, two symbols, room for one position,
\* while both switches are thrown and released at any time.
SPECIFICATION Spec
CONSTANTS
    h1 = h1
    h2 = h2
    s1 = s1
    s2 = s2
    gold = gold
    euro = euro
    NoSignal = NoSignal
    Host = {h1}
    Durable = {h1}
    Signal = {s1, s2}
    Symbol = {gold, euro}
    SymbolOf <- OneOnEach
    MaxPositions = 1
    MaxAttempts = 2
    MaxFills = 2
    Switches = {"kill", "control"}
INVARIANTS
    TypeOK
    HostAtMostOnce
    JournalCoversOrders
    CapacityUnlessLate
    AtMostOneOrderAfterHalt
PROPERTIES
    LatchStopsOrders
