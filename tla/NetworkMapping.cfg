SPECIFICATION MappingSpec
CONSTANTS
    PORTS = 4
    FREE_FDS = 2
    TRIES <- TriesOfKernel
    MAX_TTL = 4
    Distance = 3
    Others = {1, 3}
    MaxOthers = 2
    NoAnswer = NoAnswer
    H = 3
    MaxLen = 8
INVARIANTS
    OpenMeansAccepted
    SocketsReturned
    SocketsLeak
    NeverEarly
    WrongAfterSilence
    StopsAtDestination
    Verifies
    ZeroOnlyOfZero
PROPERTIES
    ScanEnds
    Terminates
CHECK_DEADLOCK FALSE
