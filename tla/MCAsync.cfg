\* Fair handlers and timer; datagrams lost and repeated but in order, no wrap.
SPECIFICATION FairSpec
CONSTANTS
    SEGSIZE = 2
    N = 3
    LastSize = 1
    Servers = {srv}
    Server = srv
    Client = client
    Inetd = inetd
    BlockMod = 8
    ClientRexmt = 1
    ClientMax = 3
    Rexmt = 1
    MaxTimeout = 4
    Reorder = FALSE
    BigEndian = FALSE
CHECK_DEADLOCK FALSE
INVARIANTS
    TypeOK
    StoredIsPrefix
    RenamedIsWhole
    RenamedIsReturned
PROPERTIES
    ImplementsFileTransfer
    ServerReturns
