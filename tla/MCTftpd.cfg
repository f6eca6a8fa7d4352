\* Two children, three datagrams, started by root.
SPECIFICATION FairSpec
CONSTANTS
    Datagrams <- MCDatagrams
    Children = {p1, p2}
    User = "root"
    MaxQueue = 2
    MaxArrivals = 3
    MaxAdmin = 1
INVARIANTS
    TypeOK
    AnswersSender
PROPERTIES
    PrivateUntouched
    DatagramsRead
CHECK_DEADLOCK FALSE
