\* A write request for a file that does not exist.
SPECIFICATION Spec
CONSTANTS
    Datagrams <- MCDatagrams
    Children = {p1}
    User = "nobody"
    MaxQueue = 1
    MaxArrivals = 1
    MaxAdmin = 0
PROPERTIES
    NeverCreates
CHECK_DEADLOCK FALSE
