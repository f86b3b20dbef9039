CONSTANTS
    AddrSpace = 5
    ByteBase = 2
    RegBytes = 3
    FetchBytes = 2
    Widths <- MCWidths
    NoByte = NoByte
    ImageAddrs <- LowImage
    GuestAddrs <- AllAddrs
    StoreValues <- MCValues
    ForbidChoices <- NarrowBlock
SPECIFICATION Spec
PROPERTY BlocksImmutable
CHECK_DEADLOCK FALSE
