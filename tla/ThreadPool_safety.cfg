SPECIFICATION Spec
CONSTANTS
    Workers = {w1, w2}
    SpareSlots = {s1, s2}
    Manager = manager
    Producers = {p1, p2}
    Destroyers = {}
    MaxQueue = 3
    MaxTasks = 5
    Spurious = TRUE
    NoThread = NoThread
    NoTask = NoTask
SYMMETRY Symmetry
INVARIANTS
    TypeOK
    LiveCount
    LiveBounds
    TakeFindsTask
    QueueRoom
    NoStrandedCaller
PROPERTIES
    KeepsPromise
