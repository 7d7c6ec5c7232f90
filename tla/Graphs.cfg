SPECIFICATION Spec
CONSTANTS
    g1 = g1
    g2 = g2
    p1 = p1
    p2 = p2
    a = a
    b = b
    c = c
    x = x
    Calls = {g1, g2}
    Processes = {p1, p2}
    Nodes = {a, b, c, x}
    Home <- MCHome
    Order <- MCOrder
    Needs <- MCNeeds
    Text <- MCText
    MaxEntries = 1
    CompletedAt <- MCCompletedAt
    Faulty = {p1}
    MaxCrashes = 1
    MaxMisses = 1
INVARIANTS
    ReusedWasDone
    BlockedForCause
    
    NewestKept
CHECK_DEADLOCK FALSE
PROPERTIES
    EveryGraphEnds
