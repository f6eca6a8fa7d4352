\* All files of up to five characters, blocks of three bytes.
SPECIFICATION NASpec
CONSTANTS
    SEGSIZE = 3
    MaxText = 5
INVARIANTS
    NATypeOK
    WireIsEncoding
    FileIsText
CHECK_DEADLOCK FALSE
