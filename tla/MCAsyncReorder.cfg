\* A block may arrive after later ones.
SPECIFICATION Spec
CONSTANTS
    SEGSIZE = 2
    N = 3
    LastSize = 1
    Servers = {srv}
    Server = srv
    Client = client
    Inetd = inetd
    BlockMod = 8
    ClientRexmt = 1
    ClientMax = 2
    Rexmt = 1
    MaxTimeout = 3
    Reorder = TRUE
    BigEndian = FALSE
CHECK_DEADLOCK FALSE
INVARIANT
    StoredIsPrefix
