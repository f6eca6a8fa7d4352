\* Requests with up to two options, one after the other.
SPECIFICATION Spec
CONSTANTS
    Options <- MCOptions
    MaxOptions = 2
    OffMax = 536870912
INVARIANTS
    TypeOK
    InForceIsAcked
    BlksizeFits
    AcceptedIsOpen
PROPERTIES
    RefusedLeavesFiles
