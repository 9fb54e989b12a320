SPECIFICATION NameSpec
CONSTANTS
    a = a
    b = b
    DOT = DOT
    JUNK = JUNK
    Letters = {a, b}
    Programs = {"nslookup"}
    MaxLen = 5
    Domains <- AllDomains
    MAX_LABEL = 3
    Size = 12
INVARIANTS
    NslookupReadable
CHECK_DEADLOCK FALSE
