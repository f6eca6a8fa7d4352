\* One tftpd, three blocks: does it resend its final ACK?
SPECIFICATION Spec
CONSTANTS
    SEGSIZE = 1
    N = 3
    LastSize = 0
    Servers = {s1}
    Client = client
    Inetd = inetd
    BlockMod = 4
    ClientRexmt = 1
    ClientMax = 3
    ServerRexmt = 1
    ServerMax = 3
INVARIANT
    FinalAckIsResent
CHECK_DEADLOCK FALSE
