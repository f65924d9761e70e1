SPECIFICATION Spec
CONSTANTS
    p1 = p1
    p2 = p2
    c1 = c1
    c2 = c2
    Threads <- AllThreads
    Calls <- AllCalls
    Pollers <- NoPollers
    Values = {v1, v2, v3, v4, v5}
    NoValue = NoValue
    NoThread = NoThread
    MaxSize = 2
SYMMETRY ValueSymmetry
INVARIANTS
    TypeOK
    SingleOwner
    NoLostPopSignal
PROPERTIES
    Implements
