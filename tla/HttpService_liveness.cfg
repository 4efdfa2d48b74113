SPECIFICATION FairSpec
CONSTANTS
    get = get
    post = post
    silent = silent
    NoConn = NoConn
    NoFd = NoFd
    Conns = {get, post}
    Segments <- MCSegments
    Line <- MCLine
    Method <- MCMethod
    Files = {get}
    Fds = {5, 6, 7}
    ListenFd = 4
    RecvMax = 2
PROPERTIES
    Accepted
    Served
CHECK_DEADLOCK FALSE
