SPECIFICATION Spec
CONSTANTS
    Handlers = {h1, h2, h3}
    None = None
    NAME = 3
    Addresses = {2}
    BUFFER = 4
    MESSAGE = 12
SYMMETRY AnyOrder
INVARIANTS
    TypeOK
    OwnName
    LineLost
    MixedWithLater
CHECK_DEADLOCK FALSE
