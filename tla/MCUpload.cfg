\* Fair timers, two tftpd processes, a file of two blocks, the last one short,
\* and block numbers that wrap at 2.
SPECIFICATION FairSpec
CONSTANTS
    SEGSIZE = 2
    N = 2
    LastSize = 1
    Servers = {s1, s2}
    Client = client
    Inetd = inetd
    BlockMod = 2
    ClientRexmt = 1
    ClientMax = 2
    ServerRexmt = 1
    ServerMax = 2
INVARIANTS
    TypeOK
    AckedIsAccepted
    LockStep
    DiskNeverWrong
    DoneIsStored
PROPERTIES
    ImplementsFileTransfer
    ClientEnds
    ServersEnd
CHECK_DEADLOCK FALSE
