SPECIFICATION FairSpec
CONSTANTS
    EXIT = EXIT
    GARBAGE = GARBAGE
    MaxLines = 3
    Tokens <- AllTokens
    Scripts <- AllScripts
    Incoming = 3
    SOCKBUF = 2
    OUTBUF = 2
INVARIANTS
    TypeOK
    TextConserved
PROPERTIES
    ImplementsPeer
    KeepsReading
    EndsWithServer
CHECK_DEADLOCK FALSE
