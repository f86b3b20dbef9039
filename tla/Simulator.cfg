CONSTANTS
    AddrSpace = 16
    ByteBase = 2
    RegBytes = 4
    FetchBytes = 4
    Widths <- MCWidths
    NoByte = NoByte
    Programs <- NoPrograms
    Images <- MCImages
    Entries <- MCZero
    InitRegs <- SimulatorRegs
    InitFRegs <- MCFRegs
    NXPR = 6
    SP_INIT = 12
    SP = 1
    A0 = 2
    A1 = 3
    A2 = 4
    A7 = 5
    Table <- MCTable
    Syscall <- MCSyscall
    Timevals <- MCTimevals
    Times <- MCTimes
    MaxIO = 2
    IntMod = 2
SPECIFICATION FairProcess
INVARIANTS RodataKept CountsMatchSteps
PROPERTIES ProgramArrives StartsOrEnds IterationEnds
CHECK_DEADLOCK FALSE
