CONSTANTS
    AddrSpace = 9
    ByteBase = 2
    RegBytes = 3
    FetchBytes = 2
    Widths <- MCWidths
    NoByte = NoByte
    ImageAddrs <- HighImage
    GuestAddrs <- HighGuest
    StoreValues <- MCValues
    ForbidChoices <- OneBlock
SPECIFICATION Spec
INVARIANTS TypeOK StoredBytesPresent
PROPERTIES ImplementsByteStore LoadSeesStore
CHECK_DEADLOCK FALSE
