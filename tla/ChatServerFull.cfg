SPECIFICATION Spec
CONSTANTS
    c1 = c1
    c2 = c2
    c3 = c3
    None = None
    Main = Main
    Conns = {c1, c2, c3}
    MAX_CLIENTS = 2
    MAX_FD = 3
    BACKLOG = 1
    SOCKBUF = 1
    Sends <- SendsTwo
    Leavers = {c1, c2, c3}
    SpawnMayFail = FALSE
    Stalled = {}
INVARIANTS
    RejectsOnlyWhenFull
CHECK_DEADLOCK FALSE
