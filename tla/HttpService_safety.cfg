SPECIFICATION Spec
CONSTANTS
    get = get
    post = post
    silent = silent
    NoConn = NoConn
    NoFd = NoFd
    Conns = {get, post, silent}
    Segments <- MCSegments
    Line <- MCLine
    Method <- MCMethod
    Files = {get}
    Fds = {5, 6}
    ListenFd = 4
    RecvMax = 2
INVARIANTS
    TypeOK
    OwnEvents
    NeverBlocks
    NoLostEdge
    
CHECK_DEADLOCK FALSE
