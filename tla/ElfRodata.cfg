CONSTANTS
    AddrSpace = 9
    ByteBase = 2
    RegBytes = 2
    FetchBytes = 2
    Widths <- MCWidths
    NoByte = NoByte
    Images <- MCImages
SPECIFICATION Spec
INVARIANT RodataProtected
CHECK_DEADLOCK FALSE
