SPECIFICATION FairSpec
CONSTANTS
    whole = whole
    torn = torn
    NoConn = NoConn
    NoFd = NoFd
    Conns = {whole, torn}
    Chars <- MCChars
    Names <- MCNames
    Segments <- MCSegments
    Cuts <- MCCuts
    Fds = {5, 6}
    ListenFd = 4
    RecvMax = 2
INVARIANTS
    TypeOK
    HonestAnswers

    
CHECK_DEADLOCK FALSE
