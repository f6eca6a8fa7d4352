SPECIFICATION FairSpec
CONSTANTS
    Hosts = {"h4", "h6"}
    Family <- MCFamily
    GetArgs <- MCGetArgs
    PutArgs <- MCPutArgs
    Words <- MCWords
    Blocks = 2
    MaxLate = 2
    Rexmts <- MCRexmts
    Timeouts <- MCTimeouts
INVARIANTS
    TypeOK
    CommandIsMeant
    PeerIsReady
    OwnServer
    AlarmHasTarget
PROPERTY
    CommandEnds
CHECK_DEADLOCK FALSE
