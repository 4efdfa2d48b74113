SPECIFICATION FairSpec
CONSTANTS
    NL = NL
    Absent = Absent
    Threads = 2
    MaxQueue = 2
    MaxJobs = 3
    Objects <- MCObjects
    FileOf <- MCFileOf
    TextOf <- MCTextOf
    Chars <- MCChars
    OpsOf <- MCOpsOf
    Pipes = {"reader", "writer"}
    ReadFifo <- MCReadFifo
    WriteFifo <- MCWriteFifo
    InitFile <- MCInitFile
    Unwritable = {"none"}
    LineFiles = {"list"}
    LineTexts <- MCLineTexts
    MaxEdits = 2
    ReadMax = 2
    Mixed = Mixed
    Overrun = Overrun
    Idle = Idle
INVARIANTS
    LineCalls
PROPERTIES
    OneByOne
    
    
CHECK_DEADLOCK FALSE
