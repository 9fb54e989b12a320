SPECIFICATION FairSpec
CONSTANTS
    c1 = c1
    c2 = c2
    c3 = c3
    None = None
    Main = Main
    Conns = {c1, c2, c3}
    MAX_CLIENTS = 3
    MAX_FD = 3
    BACKLOG = 1
    SOCKBUF = 1
    Sends <- SendsStalled
    Leavers = {}
    SpawnMayFail = FALSE
    Stalled = {c2}
PROPERTIES
    EveryoneServed
CHECK_DEADLOCK FALSE
