SPECIFICATION FairSpec
CONSTANTS
    Timers <- MCTimers
    Period <- MCPeriod
    Once <- MCOnce
    Restarts <- MCRestarts
    PollTimeout = 6
    MaxBusy = 2
INVARIANTS
    TypeOK
    Punctual
    
    LateByOnePoll
    OncePerStart
PROPERTIES
    Fires
CHECK_DEADLOCK FALSE
