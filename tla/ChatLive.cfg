SPECIFICATION FairSpec
CONSTANTS
    c1 = c1
    c2 = c2
    c3 = c3
    None = None
    Main = Main
    Conns = {c1, c2, c3}
    MAX_CLIENTS = 2
    MAX_FD = 3
    BACKLOG = 1
    SOCKBUF = 1
    Sends <- SendsLive
    Leavers = {c2}
    SpawnMayFail = FALSE
    Stalled = {}
INVARIANTS
    TypeOK
    SecondTableHasRoom
PROPERTIES
    MutexReleased
    DepartureNoticed
    EveryoneServed
CHECK_DEADLOCK FALSE
