CONSTANTS
    AddrSpace = 5
    ByteBase = 2
    RegBytes = 3
    FetchBytes = 2
    Widths <- MCWidths
    NoByte = NoByte
    ImageAddrs <- LowImage
    GuestAddrs <- AllAddrs
    StoreValues <- MCValues
    ForbidChoices <- NoBlocks
SPECIFICATION Spec
INVARIANT StoredBytesPresent
CHECK_DEADLOCK FALSE
