SPECIFICATION FingerprintingSpec
CONSTANTS
    a = a
    b = b
    DOT = DOT
    JUNK = JUNK
    Letters = {a, b}
    Programs = {"dnsenum", "nslookup", "dig"}
    MaxLen = 5
    Domains <- AllDomains
    MAX_LABEL = 3
    Size = 12
    Names <- MCNames
    TTLs <- MCTTLs
    MaxRecords = 3
    BUF = 3
    MaxPieces = 2
    MaxCopies = 2
    MaxText = 5
INVARIANTS
    DnsenumReadable
    InnerLengths
    NslookupWalks
    
    AxfrDatagrams
    WhoisText
PROPERTIES
    EndsOrWaits
CHECK_DEADLOCK FALSE
