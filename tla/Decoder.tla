-------------------------------- MODULE Decoder --------------------------------
(***************************************************************************)
(* Decoding: the words of encoding.h, the instructions that insn_list.h     *)
(* registers, the search of decode_insn (cpu.h), and the operand fields     *)
(* that insn_t (structs.h) takes from a word.                               *)
(*                                                                         *)
(* load_insn sign-extends the 32 bits of an instruction into the 64 of      *)
(* insn_bits_t, so word is int64_t(b): a number of 32 bits with its sign.   *)
(***************************************************************************)
EXTENDS Integers, Sequences

CONSTANT Words      \* the instructions considered

ASSUME WordsAssumption ==
    \A w \in Words : w \in Int /\ w \div 2^30 \in -2..1

(* The powers of two that the fields are counted in, which a prover takes   *)
(* as they are.                                                             *)
ASSUME PowersAssumption ==
    /\ 2^0 = 1 /\ 2^1 = 2 /\ 2^4 = 16 /\ 2^5 = 32 /\ 2^6 = 64 /\ 2^7 = 128 /\ 2^8 = 256
    /\ 2^10 = 1024 /\ 2^11 = 2048 /\ 2^12 = 4096 /\ 2^15 = 32768 /\ 2^19 = 524288
    /\ 2^20 = 1048576 /\ 2^21 = 2097152 /\ 2^25 = 33554432 /\ 2^30 = 1073741824

VARIABLE word
vars == <<word>>

Init == word \in Words
Next == UNCHANGED vars
Spec == Init /\ [][Next]_vars

(***************************************************************************)
(* insn_t                                                                   *)
(***************************************************************************)
(* x(lo, len), and xs(lo, len), which extends the sign of the field.       *)
x(lo, len) == (word \div 2^lo) % 2^len
xs(lo, len) == IF x(lo, len) >= 2^(len - 1) THEN x(lo, len) - 2^len ELSE x(lo, len)
imm_sign == IF word < 0 THEN -1 ELSE 0

i_imm == word \div 2^20
s_imm == x(7, 5) + xs(25, 7) * 2^5
sb_imm_SixBits == x(7, 5) + x(25, 6) * 2^5 + x(7, 1) * 2^11 + imm_sign * 2^12
sb_imm == x(8, 4) * 2 + x(25, 6) * 2^5 + x(7, 1) * 2^11 + imm_sign * 2^12
u_imm == (word \div 2^12) * 2^12
uj_imm == x(21, 10) * 2 + x(20, 1) * 2^11 + x(12, 8) * 2^12 + imm_sign * 2^20

SHAMT == i_imm % 2^6

(* The fields that the masks of encoding.h keep, each as a whole.           *)
field == [op  |-> x(0, 7),  rd  |-> x(7, 5),  f3 |-> x(12, 3), rs1 |-> x(15, 5),
          rs2 |-> x(20, 5), f2  |-> x(25, 2), f6 |-> x(26, 6), f5  |-> x(27, 5),
          f7  |-> x(25, 7)]

(***************************************************************************)
(* encoding.h.  An entry's mask is the domain of its match.                 *)
(***************************************************************************)
Entry(name, match) == [name |-> name, match |-> match]

(* Instructions of one opcode that differ in funct3, in funct3 for a funct7, *)
(* in rs2 for a funct7, or in funct7.                                       *)
ByF3(op, f3) == {Entry(n, [op |-> op, f3 |-> f3[n]]) : n \in DOMAIN f3}
ByF3F7(op, f7, f3) ==
    {Entry(n, [op |-> op, f3 |-> f3[n], f7 |-> f7]) : n \in DOMAIN f3}
ByRs2F7(f7, rs2) ==
    {Entry(n, [op |-> \h53, rs2 |-> rs2[n], f7 |-> f7]) : n \in DOMAIN rs2}
ByF7(f7) == {Entry(n, [op |-> \h53, f7 |-> f7[n]]) : n \in DOMAIN f7}

Whole(name, f7, rs2) ==
    Entry(name, [op |-> \h73, rd |-> 0, f3 |-> 0, rs1 |-> 0, rs2 |-> rs2, f7 |-> f7])

Branches ==
    ByF3(\h63, [beq |-> 0, bne |-> 1, blt |-> 4, bge |-> 5, bltu |-> 6, bgeu |-> 7])
Loads == ByF3(\h03, [lb |-> 0, lh |-> 1, lw |-> 2, ld |-> 3, lbu |-> 4, lhu |-> 5, lwu |-> 6])
Stores == ByF3(\h23, [sb |-> 0, sh |-> 1, sw |-> 2, sd |-> 3])
FloatMemory == ByF3(\h07, [flw |-> 2, fld |-> 3]) \cup ByF3(\h27, [fsw |-> 2, fsd |-> 3])
UpperAndJumps ==
    {Entry("lui", [op |-> \h37]), Entry("auipc", [op |-> \h17]), Entry("jal", [op |-> \h6f])}
        \cup ByF3(\h67, [jalr |-> 0])

ShiftImm_Rv32 ==
    {Entry("slli", [op |-> \h13, f3 |-> 1, f7 |-> 0]),
     Entry("srli", [op |-> \h13, f3 |-> 5, f7 |-> 0]),
     Entry("srai", [op |-> \h13, f3 |-> 5, f7 |-> 32])}
ShiftImm ==
    {Entry("slli", [op |-> \h13, f3 |-> 1, f6 |-> 0]),
     Entry("srli", [op |-> \h13, f3 |-> 5, f6 |-> 0]),
     Entry("srai", [op |-> \h13, f3 |-> 5, f6 |-> 16])}
Immediate ==
    ByF3(\h13, [addi |-> 0, slti |-> 2, sltiu |-> 3, xori |-> 4, ori |-> 6, andi |-> 7])
        \cup ShiftImm \cup ByF3(\h1b, [addiw |-> 0])
        \cup ByF3F7(\h1b, 0, [slliw |-> 1, srliw |-> 5]) \cup ByF3F7(\h1b, 32, [sraiw |-> 5])

Registers_SraIsSrl ==
    ByF3F7(\h33, 0, [add |-> 0, sll |-> 1, slt |-> 2, sltu |-> 3,
                     xor |-> 4, srl |-> 5, or |-> 6, and |-> 7])
        \cup ByF3F7(\h33, 32, [sub |-> 0]) \cup ByF3F7(\h33, 0, [sra |-> 5])
        \cup ByF3F7(\h33, 1, [mul |-> 0, mulh |-> 1, mulhsu |-> 2, mulhu |-> 3,
                              div |-> 4, divu |-> 5, rem |-> 6, remu |-> 7])
        \cup ByF3F7(\h3b, 0, [addw |-> 0, sllw |-> 1, srlw |-> 5])
        \cup ByF3F7(\h3b, 32, [subw |-> 0, sraw |-> 5])
        \cup ByF3F7(\h3b, 1, [mulw |-> 0, divw |-> 4, divuw |-> 5, remw |-> 6, remuw |-> 7])
Registers ==
    ByF3F7(\h33, 0, [add |-> 0, sll |-> 1, slt |-> 2, sltu |-> 3,
                     xor |-> 4, srl |-> 5, or |-> 6, and |-> 7])
        \cup ByF3F7(\h33, 32, [sub |-> 0, sra |-> 5])
        \cup ByF3F7(\h33, 1, [mul |-> 0, mulh |-> 1, mulhsu |-> 2, mulhu |-> 3,
                              div |-> 4, divu |-> 5, rem |-> 6, remu |-> 7])
        \cup ByF3F7(\h3b, 0, [addw |-> 0, sllw |-> 1, srlw |-> 5])
        \cup ByF3F7(\h3b, 32, [subw |-> 0, sraw |-> 5])
        \cup ByF3F7(\h3b, 1, [mulw |-> 0, divw |-> 4, divuw |-> 5, remw |-> 6, remuw |-> 7])

(* funct7 carries the format in its low bits: 0 for single, 1 for double.  *)
FloatArithmetic ==
    ByF7([fadd_s |-> 0, fsub_s |-> 4, fmul_s |-> 8, fdiv_s |-> 12,
          fadd_d |-> 1, fsub_d |-> 5, fmul_d |-> 9, fdiv_d |-> 13])
        \cup ByRs2F7(44, [fsqrt_s |-> 0]) \cup ByRs2F7(45, [fsqrt_d |-> 0])
FloatFused ==
    {Entry("fmadd_s", [op |-> \h43, f2 |-> 0]), Entry("fmadd_d", [op |-> \h43, f2 |-> 1]),
     Entry("fmsub_s", [op |-> \h47, f2 |-> 0]), Entry("fmsub_d", [op |-> \h47, f2 |-> 1]),
     Entry("fnmsub_s", [op |-> \h4b, f2 |-> 0]), Entry("fnmsub_d", [op |-> \h4b, f2 |-> 1]),
     Entry("fnmadd_s", [op |-> \h4f, f2 |-> 0]), Entry("fnmadd_d", [op |-> \h4f, f2 |-> 1])}
FloatSigns ==
    ByF3F7(\h53, 16, [fsgnj_s |-> 0, fsgnjn_s |-> 1, fsgnjx_s |-> 2])
        \cup ByF3F7(\h53, 17, [fsgnj_d |-> 0, fsgnjn_d |-> 1, fsgnjx_d |-> 2])
        \cup ByF3F7(\h53, 20, [fmin_s |-> 0, fmax_s |-> 1])
        \cup ByF3F7(\h53, 21, [fmin_d |-> 0, fmax_d |-> 1])
        \cup ByF3F7(\h53, 80, [fle_s |-> 0, flt_s |-> 1, feq_s |-> 2])
        \cup ByF3F7(\h53, 81, [fle_d |-> 0, flt_d |-> 1, feq_d |-> 2])
FloatConversions ==
    ByRs2F7(32, [fcvt_s_d |-> 1]) \cup ByRs2F7(33, [fcvt_d_s |-> 0])
        \cup ByRs2F7(96, [fcvt_w_s |-> 0, fcvt_wu_s |-> 1, fcvt_l_s |-> 2, fcvt_lu_s |-> 3])
        \cup ByRs2F7(97, [fcvt_w_d |-> 0, fcvt_wu_d |-> 1, fcvt_l_d |-> 2, fcvt_lu_d |-> 3])
        \cup ByRs2F7(104, [fcvt_s_w |-> 0, fcvt_s_wu |-> 1, fcvt_s_l |-> 2, fcvt_s_lu |-> 3])
        \cup ByRs2F7(105, [fcvt_d_w |-> 0, fcvt_d_wu |-> 1, fcvt_d_l |-> 2, fcvt_d_lu |-> 3])
FloatMoves ==
    {Entry(t[1], [op |-> \h53, f3 |-> t[2], rs2 |-> 0, f7 |-> t[3]]) :
        t \in {<<"fmv_x_s", 0, 112>>, <<"fclass_s", 1, 112>>, <<"fmv_s_x", 0, 120>>,
               <<"fmv_x_d", 0, 113>>, <<"fclass_d", 1, 113>>, <<"fmv_d_x", 0, 121>>}}

Atomics ==
    {Entry("lr_w", [op |-> \h2f, f3 |-> 2, f5 |-> 2, rs2 |-> 0]),
     Entry("lr_d", [op |-> \h2f, f3 |-> 3, f5 |-> 2, rs2 |-> 0]),
     Entry("sc_w", [op |-> \h2f, f3 |-> 2, f5 |-> 3]),
     Entry("sc_d", [op |-> \h2f, f3 |-> 3, f5 |-> 3])}
System ==
    {Whole("scall", 0, 0), Whole("sbreak", 0, 1), Whole("sret", 8, 0), Whole("wfi", 8, 2),
     Whole("mrth", 24, 6), Whole("mrts", 24, 5), Whole("hrts", 16, 5),
     Entry("sfence_vm", [op |-> \h73, rd |-> 0, f3 |-> 0, rs2 |-> 1, f7 |-> 8])}
        \cup ByF3(\h73, [csrrw |-> 1, csrrs |-> 2, csrrc |-> 3,
                         csrrwi |-> 5, csrrsi |-> 6, csrrci |-> 7])
        \cup ByF3(\h0f, [fence |-> 0, fence_i |-> 1])

Declared ==
    Branches \cup Loads \cup Stores \cup FloatMemory \cup UpperAndJumps \cup Immediate
        \cup Registers \cup FloatArithmetic \cup FloatFused \cup FloatSigns
        \cup FloatConversions \cup FloatMoves \cup Atomics \cup System

(***************************************************************************)
(* insn_list.h, in its order, and register_instructions.                    *)
(***************************************************************************)
insn_list == <<
    "addi", "lw", "ld", "sw", "sd", "jal", "bne", "add", "addiw", "lui",
    "sub", "sll", "slt", "sltu", "xor", "srl", "sra", "or",
    "and", "slli", "slti", "sltiu", "xori", "srli", "srai", "ori", "andi",
    "beq", "blt", "bge", "bltu", "bgeu",
    "lb", "lh", "lbu", "lhu", "lwu", "sb", "sh", "jalr", "auipc",
    "addw", "subw", "sllw", "srlw", "sraw", "slliw", "srliw", "sraiw",
    "mul", "mulw", "mulh", "mulhu", "mulhsu",
    "div", "divu", "divw", "divuw", "rem", "remu", "remw", "remuw",
    "scall", "fence", "fld", "flw", "fsd", "fsw", "fmv_s_x",
    "fmul_d", "fdiv_d", "fmul_s", "fdiv_s", "fadd_d", "fsub_d", "fadd_s", "fsub_s",
    "fmv_x_d", "fmv_d_x", "fcvt_l_d", "fcvt_s_l", "fcvt_s_w", "fcvt_s_d", "fcvt_d_s",
    "fcvt_d_w", "fcvt_d_l", "fcvt_w_d", "fcvt_wu_d",
    "fsgnj_d", "feq_d", "fle_d", "flt_d", "fmadd_d" >>

Registered == {insn_list[d] : d \in DOMAIN insn_list}
illegal == Entry("illegal", <<>>)
instructions ==
    Append([d \in DOMAIN insn_list |-> CHOOSE e \in Declared : e.name = insn_list[d]],
           illegal)

(* (bits & mask) == match                                                  *)
Matches(e, bits) == \A f \in DOMAIN e.match : bits[f] = e.match[f]

(* decode_insn: the first entry that matches.                              *)
decode ==
    LET bits == field
        d == CHOOSE k \in DOMAIN instructions :
                 /\ Matches(instructions[k], bits)
                 /\ \A j \in 1..(k - 1) : ~Matches(instructions[j], bits)
    IN  instructions[d].name

(***************************************************************************)
(* Properties.                                                              *)
(***************************************************************************)
(* A word of a registered instruction is a word of no other, and decoded as *)
(* that one, whatever the order of insn_list.h; any other word is illegal:  *)
(* no handler ever runs on the word of an instruction that is not its own.  *)
DecodesAsDeclared ==
    LET bits == field
        declared == {e.name : e \in {e \in Declared : Matches(e, bits)}}
    IN  IF declared \cap Registered # {} THEN declared = {decode} ELSE decode = "illegal"

(* A branch or jump offset is even, as Cpu assumes of its table.            *)
OffsetsEven == sb_imm % 2 = 0 /\ uj_imm % 2 = 0

(* The bits of an immediate v, from lo on.                                 *)
part(v, lo, len) == (v \div 2^lo) % 2^len

(* The compiler can reach each even offset and each value of 12 bits, in    *)
(* one way: an immediate is in its range, and its bits put back where an    *)
(* instruction keeps them are those of the word.                            *)
ImmediatesInvertible ==
    /\ OffsetsEven
    /\ i_imm \in -(2^11)..(2^11 - 1) /\ part(i_imm, 0, 12) = x(20, 12)
    /\ s_imm \in -(2^11)..(2^11 - 1)
    /\ part(s_imm, 0, 5) = x(7, 5) /\ part(s_imm, 5, 7) = x(25, 7)
    /\ sb_imm \in -(2^12)..(2^12 - 1)
    /\ part(sb_imm, 1, 4) = x(8, 4) /\ part(sb_imm, 5, 6) = x(25, 6)
    /\ part(sb_imm, 11, 1) = x(7, 1) /\ part(sb_imm, 12, 1) = -imm_sign
    /\ u_imm \div 2^12 = xs(12, 20)
    /\ uj_imm \in -(2^20)..(2^20 - 1)
    /\ part(uj_imm, 1, 10) = x(21, 10) /\ part(uj_imm, 11, 1) = x(20, 1)
    /\ part(uj_imm, 12, 8) = x(12, 8) /\ part(uj_imm, 20, 1) = -imm_sign

(* The shifts by an immediate take six bits on a register, none of which    *)
(* tells the instruction, and five on a word: the handlers of both read     *)
(* SHAMT, and only the masks keep the sixth bit from slliw.                 *)
ShiftAmounts ==
    /\ decode \in {"slliw", "srliw", "sraiw"} => SHAMT < 32
    /\ field.op = \h13 /\ field.f3 = 1 /\ field.f6 = 0 =>
          decode = "slli" /\ SHAMT = x(20, 6)
=============================================================================
