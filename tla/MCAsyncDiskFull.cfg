\* Writes fail; the last block is empty.
SPECIFICATION Spec
CONSTANTS
    SEGSIZE = 2
    N = 2
    LastSize = 0
    Servers = {srv}
    Server = srv
    Client = client
    Inetd = inetd
    BlockMod = 8
    ClientRexmt = 1
    ClientMax = 2
    Rexmt = 1
    MaxTimeout = 3
    Reorder = FALSE
    BigEndian = FALSE
CHECK_DEADLOCK FALSE
INVARIANT
    DiskFullFails
