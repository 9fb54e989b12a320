SPECIFICATION ScanSpec
CONSTANTS
    PORTS = 4
    FREE_FDS = 2
    TRIES <- TriesOfKernel
INVARIANTS
    UdpScansAllPorts
CHECK_DEADLOCK FALSE
