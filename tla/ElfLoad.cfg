CONSTANTS
    AddrSpace = 9
    ByteBase = 2
    RegBytes = 2
    FetchBytes = 2
    Widths <- MCWidths
    NoByte = NoByte
    Images <- MCImages
SPECIFICATION Spec
INVARIANTS TypeOK SegmentsArrive OnlyFileBytes FirstCopyStays RodataAtTwoProtected ForbiddenAtMostOneMore
CHECK_DEADLOCK FALSE
