SPECIFICATION FairSpec
CONSTANTS
    Workers = {w1, w2}
    SpareSlots = {s1}
    Manager = manager
    Producers = {p1}
    Destroyers = {d}
    MaxQueue = 3
    MaxTasks = 3
    Spurious = FALSE
    NoThread = NoThread
    NoTask = NoTask
INVARIANTS
    TaskPlaces
PROPERTIES
    
    AtMostOneTaskAfterShutdown
CHECK_DEADLOCK FALSE
