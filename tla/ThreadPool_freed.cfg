SPECIFICATION Spec
CONSTANTS
    Workers = {w1, w2}
    SpareSlots = {s1}
    Manager = manager
    Producers = {p1}
    Destroyers = {d}
    MaxQueue = 3
    MaxTasks = 4
    Spurious = FALSE
    NoThread = NoThread
    NoTask = NoTask
INVARIANTS
    FreedAfterWorkersLeft
CHECK_DEADLOCK FALSE
