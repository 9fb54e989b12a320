SPECIFICATION TransferSpec
CONSTANTS
    Names <- MCNames
    TTLs <- MCTTLs
    MaxRecords = 1
    BUF = 3
    MaxPieces = 3
    MaxCopies = 1
    MaxText = 2
INVARIANTS
    AxfrQuestion
CHECK_DEADLOCK FALSE
