-------------------------------- MODULE MCCpu --------------------------------
(* Programs of three instructions and a stack on sixteen addresses.  A byte *)
(* has two values, so an instruction word has four of them; each entry of   *)
(* MCTable gives the operands of the one instruction it stands for.         *)
EXTENDS Cpu

MCWidths == {1, 2, 4}
Bits(s) == [k \in Offsets |-> s[k + 1]]

Entry(bits, mask, kind, rd, rs1, rs2, imm, len) ==
    [match |-> Bits(bits), mask |-> mask, kind |-> kind, rd |-> rd, rs1 |-> rs1,
     rs2 |-> rs2, imm |-> imm, len |-> len]
All == 0..3

(* Registers 0 zero, 1 sp, 2 a0, 3 a1, 4 a2, 5 a7.                         *)
MCTable == <<
    Entry(<<1, 0, 0, 0>>, All, "addi", 2, 2, 0, 4, 1),
    Entry(<<0, 1, 0, 0>>, All, "write", 0, 2, 3, 0, 4),
    Entry(<<1, 1, 0, 0>>, All, "read_int", 3, 1, 0, 15, 2),
    Entry(<<0, 0, 1, 0>>, All, "jalr", 0, 3, 0, 1, 1),
    Entry(<<1, 0, 1, 0>>, All, "beq", 0, 2, 3, 8, 1),
    Entry(<<0, 1, 1, 0>>, All, "jal", 3, 0, 0, 10, 1),
    Entry(<<1, 1, 1, 0>>, All, "addi", 5, 5, 0, 1, 1),
    Entry(<<1, 0, 0, 1>>, All, "fence", 0, 0, 0, 0, 1),
    Entry(<<0, 1, 0, 1>>, All, "blt", 0, 2, 4, 14, 1),
    Entry(<<1, 1, 0, 1>>, All, "auipc", 2, 0, 0, 2, 1),
    Entry(<<0, 1, 1, 1>>, All, "flw", 0, 2, 0, 2, 2),
    Entry(<<1, 0, 1, 1>>, All, "fmv_x_d", 3, 0, 0, 0, 1),
    Entry(<<1, 1, 1, 1>>, All, "fwrite", 0, 2, 0, 14, 4),
    Entry(<<0, 0, 0, 1>>, {0, 1, 3}, "scall", 0, 0, 0, 0, 1),
    Entry(<<0, 0, 0, 0>>, {}, "illegal", 0, 0, 0, 0, 1) >>

MCSyscall == [v \in Addr |->
    IF v < 9 THEN <<"read", "write", "gettimeofday", "time", "fstat", "brk",
                    "lseek", "close", "exit">>[v + 1]
             ELSE "unknown"]

Codes == {MCTable[d].match : d \in 1..14} \cup {Bits(<<0, 0, 0, 0>>)}
Layout(c) == [a \in Addr |-> IF a < 12 THEN c[a \div 4][a % 4] ELSE NoByte]
Hole(c) == [a \in Addr |-> IF a \in 4..11 THEN c[a \div 4][a % 4] ELSE NoByte]

(* Execution begins at 4, where every word is tried.  At 0 stands a call or a *)
(* word that is no instruction, at 8 one of these, an addi or a jalr; only    *)
(* the call is tried with a forbidden block or with a hole.                   *)
FewCodes == {MCTable[14].match, Bits(<<0, 0, 0, 0>>)}
LastCodes == FewCodes \cup {MCTable[d].match : d \in {1, 4}}
Choices == {c \in [0..2 -> Codes] : c[0] \in FewCodes /\ c[2] \in LastCodes}
Calling0 == {c \in Choices : c[0] = MCTable[14].match}

FullPrograms == {[mem |-> Layout(c), forbid |-> {}] : c \in Choices}
GuardedPrograms == {[mem |-> Layout(c), forbid |-> {<<4, 6>>}] : c \in Calling0}
HolePrograms == {[mem |-> Hole(c), forbid |-> {}] : c \in Calling0}
MCPrograms == FullPrograms \cup GuardedPrograms \cup HolePrograms

MCTimevals == {Bits(<<1, 0, 0, 0>>), Bits(<<0, 1, 0, 0>>)}
MCTimes == {1, 4}
MCEntries == {4}

(* a0, a1, a2 and a7 at construction.                                      *)
File(a0, a1, a2, a7) == [r \in 0..5 |-> <<0, 0, a0, a1, a2, a7>>[r + 1]]
MCRegs == {File(8, 5, 2, 0), File(4, 0, 1, 1), File(0, 6, 2, 2), File(8, 0, 2, 3), File(5, 3, 1, 7)}
MCFRegs == {[r \in 0..5 |-> IF r = 0 THEN 9 ELSE 0]}
=============================================================================
