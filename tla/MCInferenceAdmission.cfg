SPECIFICATION MCSpec
CONSTANTS
    Callers = {c1, c2, c3, c4, c5}
    MaxActive = 2
    MaxQueued = 2
    Requests = {r1, r2, r3, r4}
    Capacity = 1
    MaxWaiters = 2
INVARIANTS NoLostWaiter HelpersHoldSlots
PROPERTIES PoolSpec CallsEnd ParserPoolSpec
