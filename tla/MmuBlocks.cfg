CONSTANTS
    AddrSpace = 5
    ByteBase = 2
    RegBytes = 3
    FetchBytes = 2
    Widths <- MCWidths
    NoByte = NoByte
    ImageAddrs <- LowImage
    GuestAddrs <- AllAddrs
    StoreValues <- OneValue
    ForbidChoices <- WideBlocks
SPECIFICATION FairSpec
PROPERTIES WideBlocksImmutable EveryCallReturns
CHECK_DEADLOCK FALSE
