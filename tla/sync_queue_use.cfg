SPECIFICATION FairSpec
CONSTANTS
    p1 = p1
    p2 = p2
    c1 = c1
    c2 = c2
    Threads <- ClientThreads
    Calls <- ClientCalls
    Pollers <- SolePoller
    Values = {v1, v2, v3, v4, v5}
    NoValue = NoValue
    NoThread = NoThread
    MaxSize = 2
INVARIANTS
    NoLostPushSignal
    PollerNeverBlocks
PROPERTIES
    FlowNeverStops
