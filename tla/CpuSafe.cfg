CONSTANTS
    AddrSpace = 16
    ByteBase = 2
    RegBytes = 4
    FetchBytes = 4
    Widths <- MCWidths
    NoByte = NoByte
    Programs <- MCPrograms
    Entries <- MCEntries
    InitRegs <- MCRegs
    InitFRegs <- MCFRegs
    NXPR = 6
    SP_INIT = 12
    SP = 1
    A0 = 2
    A1 = 3
    A2 = 4
    A7 = 5
    Table <- MCTable
    Syscall <- MCSyscall
    Timevals <- MCTimevals
    Times <- MCTimes
    MaxIO = 2
    IntMod = 1
SPECIFICATION Spec
INVARIANTS TypeOK PcAligned FetchIsFresh SimReadInOrder
PROPERTIES ZeroRegisterFixed ForbiddenStays
CHECK_DEADLOCK FALSE
