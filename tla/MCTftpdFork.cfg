\* One request, and a fork that may fail again and again.
SPECIFICATION FairSpec
CONSTANTS
    Datagrams <- MCDatagrams
    Children = {p1}
    User = "nobody"
    MaxQueue = 1
    MaxArrivals = 1
    MaxAdmin = 0
PROPERTIES
    MainEnds
CHECK_DEADLOCK FALSE
