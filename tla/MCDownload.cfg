\* Fair timers, two tftpd processes, a file of two blocks.
SPECIFICATION FairSpec
CONSTANTS
    SEGSIZE = 2
    N = 2
    LastSize = 1
    Servers = {s1, s2}
    Client = client
    Inetd = inetd
    BlockMod = 3
    ClientRexmt = 1
    ClientMax = 2
    ServerRexmt = 1
    ServerMax = 2
INVARIANTS
    TypeOK
    ReceivedIsPrefix
    DoneIsWhole
    DataIsFaithful
    LockStep
PROPERTIES
    ImplementsFileTransfer
    ClientEnds
    ServersEnd
CHECK_DEADLOCK FALSE
