CONSTANTS
    H = 16
    XLEN = 8
    Rs2Field = 10
SPECIFICATION Spec
INVARIANTS SltuComparesRegisters
