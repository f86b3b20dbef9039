---------------------------- MODULE DecoderProofs ----------------------------
(***************************************************************************)
(* The immediates of every instruction of 32 bits, and what decode_insn     *)
(* makes of it.                                                             *)
(*                                                                         *)
(* The search of decode_insn is followed for any fields, not for those of   *)
(* a list of words: InRow(n, b) says by name and numbers which fields b     *)
(* tell instruction n, an entry of encoding.h matches exactly the words of  *)
(* its row (DeclaredRows), no two rows have a word in common (OneName), and *)
(* the search stops, at the illegal entry at the latest (FirstMatch).       *)
(***************************************************************************)
EXTENDS Decoder, SumProofs, TLAPS

WordOK == word \in Int /\ word \div 2^30 \in -2..1

(* The fields are in the ranges of their lengths.                          *)
LEMMA Fields ==
    WordOK =>
           /\ x(7, 5) \in 0..31 /\ x(8, 4) \in 0..15 /\ x(25, 6) \in 0..63
           /\ x(7, 1) \in 0..1 /\ x(21, 10) \in 0..1023 /\ x(20, 1) \in 0..1
           /\ x(12, 8) \in 0..255 /\ x(25, 7) \in 0..127 /\ xs(25, 7) \in -64..63
           /\ (xs(25, 7) = x(25, 7) \/ xs(25, 7) = x(25, 7) - 128)
           /\ imm_sign \in {-1, 0}
<1> HAVE WordOK
<1>1. word \in Int
  BY DEF WordOK
<1>2. /\ x(7, 5) \in 0..31 /\ x(7, 1) \in 0..1
      /\ x(8, 4) \in 0..15 /\ x(12, 8) \in 0..255
  BY <1>1, PowersAssumption, SMT DEF x
<1>3. x(20, 1) \in 0..1 /\ x(21, 10) \in 0..1023
  BY <1>1, PowersAssumption, SMT DEF x
<1>4. x(25, 6) \in 0..63 /\ x(25, 7) \in 0..127
  BY <1>1, PowersAssumption, SMT DEF x
<1>5. /\ xs(25, 7) \in -64..63
      /\ xs(25, 7) = x(25, 7) \/ xs(25, 7) = x(25, 7) - 128
  <2>1. 7 - 1 = 6
    OBVIOUS
  <2> HIDE DEF x
  <2> QED BY <1>4, <2>1, PowersAssumption DEF xs
<1>6. imm_sign \in {-1, 0}
  BY DEF imm_sign
<1> QED BY <1>2, <1>3, <1>4, <1>5, <1>6

(* The same without the ranges: the SMT backend fails on products of wide   *)
(* intervals by large numbers.                                              *)
LEMMA FieldsInt ==
    WordOK =>
        /\ x(7, 5) \in Int /\ x(8, 4) \in Int /\ x(25, 6) \in Int /\ x(7, 1) \in Int
        /\ x(21, 10) \in Int /\ x(20, 1) \in Int /\ x(12, 8) \in Int /\ imm_sign \in Int
BY Fields

LEMMA EvenOffsets == WordOK => OffsetsEven
<1> SUFFICES ASSUME WordOK PROVE OffsetsEven
  OBVIOUS
<1>1. \E k \in Int : sb_imm = 2 * k
  <2>1. sb_imm = 2 * (x(8, 4) + x(25, 6) * 16 + x(7, 1) * 1024 + imm_sign * 2048)
    BY FieldsInt, PowersAssumption, SMT DEF sb_imm
  <2>2. x(8, 4) + x(25, 6) * 16 + x(7, 1) * 1024 + imm_sign * 2048 \in Int
    BY FieldsInt, SMT
  <2> QED BY <2>1, <2>2
<1>2. \E k \in Int : uj_imm = 2 * k
  <2>1. uj_imm = 2 * (x(21, 10) + x(20, 1) * 1024 + x(12, 8) * 2048 + imm_sign * 524288)
    BY FieldsInt, PowersAssumption, SMT DEF uj_imm
  <2>2. x(21, 10) + x(20, 1) * 1024 + x(12, 8) * 2048 + imm_sign * 524288 \in Int
    BY FieldsInt, SMT
  <2> QED BY <2>1, <2>2
<1> QED BY <1>1, <1>2 DEF OffsetsEven

(* An interval around zero, whatever its width.                            *)
LEMMA InInterval ==
    ASSUME NEW m \in Int, NEW v \in Int, -m <= v, v <= m - 1
    PROVE  v \in (-m)..(m - 1)
OBVIOUS

(* The form of s_imm.                                                      *)
StoreForm(v, p, q, s) == v = p + q * 32 - s * 4096

LEMMA StoreParts ==
    ASSUME NEW p \in Int, 0 <= p, p <= 31, NEW q \in Int, 0 <= q, q <= 127,
           NEW s \in Int, s = (IF q >= 64 THEN 1 ELSE 0),
           NEW v, StoreForm(v, p, q, s)
    PROVE  /\ v \in Int /\ -2048 <= v /\ v <= 2047
           /\ v % 32 = p /\ (v \div 32) % 128 = q
BY SMT DEF StoreForm

(* The form of sb_imm: four parts put side by side below a sign.           *)
BranchForm(v, p, q, r, s) == v = p * 2 + q * 32 + r * 2048 + s * 4096

LEMMA BranchParts ==
    ASSUME NEW p \in Int, 0 <= p, p <= 15, NEW q \in Int, 0 <= q, q <= 63,
           NEW r \in Int, r = 0 \/ r = 1, NEW s \in Int, s = -1 \/ s = 0,
           NEW v, BranchForm(v, p, q, r, s)
    PROVE  /\ v \in Int /\ -4096 <= v /\ v <= 4095
           /\ (v \div 2) % 16 = p /\ (v \div 32) % 64 = q
           /\ (v \div 2048) % 2 = r /\ (v \div 4096) % 2 = -s
BY SMT DEF BranchForm

(* The form of uj_imm.                                                     *)
JumpForm(v, p, q, r, s) == v = p * 2 + q * 2048 + r * 4096 + s * 1048576

LEMMA JumpParts ==
    ASSUME NEW p \in Int, 0 <= p, p <= 1023, NEW q \in Int, q = 0 \/ q = 1,
           NEW r \in Int, 0 <= r, r <= 255, NEW s \in Int, s = -1 \/ s = 0,
           NEW v, JumpForm(v, p, q, r, s)
    PROVE  /\ v \in Int /\ -1048576 <= v /\ v <= 1048575
           /\ (v \div 2) % 1024 = p /\ (v \div 2048) % 2 = q
           /\ (v \div 4096) % 256 = r /\ (v \div 1048576) % 2 = -s
<1> USE DEF JumpForm
<1>1. v \in Int /\ -1048576 <= v /\ v <= 1048575
  BY SMT
<1>2. (v \div 2) % 1024 = p
  <2>1. v = p * 2 + (q + r * 2 + s * 512) * 2048 /\ q + r * 2 + s * 512 \in Int
    BY SMT
  <2> QED BY <1>1, <2>1, SMT
<1>3. (v \div 2048) % 2 = q
  <2>1. v = p * 2 + (q + (r + s * 256) * 2) * 2048 /\ r + s * 256 \in Int
    BY SMT
  <2> QED BY <1>1, <2>1, SMT
<1>4. (v \div 4096) % 256 = r
  BY SMT
<1>5. (v \div 1048576) % 2 = -s
  BY SMT
<1> QED BY <1>1, <1>2, <1>3, <1>4, <1>5, SMT

LEMMA InvertibleImmediates == WordOK => ImmediatesInvertible
<1> SUFFICES ASSUME WordOK PROVE ImmediatesInvertible
  OBVIOUS
<1>0. word \in Int /\ -2147483648 <= word /\ word <= 2147483647
  BY PowersAssumption, SMT DEF WordOK
<1>1. i_imm \in -(2^11)..(2^11 - 1) /\ part(i_imm, 0, 12) = x(20, 12)
  <2>1. i_imm \in Int /\ -2048 <= i_imm /\ i_imm <= 2047
    BY <1>0, PowersAssumption, SMT DEF i_imm
  <2>2. part(i_imm, 0, 12) = x(20, 12)
    <3>1. i_imm \div 1 = i_imm
      BY <2>1, SMT
    <3> QED BY <3>1, PowersAssumption DEF part, x, i_imm
  <2> HIDE DEF i_imm
  <2> QED BY <2>1, <2>2, PowersAssumption, SMT
<1>2. /\ s_imm \in -(2^11)..(2^11 - 1)
      /\ part(s_imm, 0, 5) = x(7, 5) /\ part(s_imm, 5, 7) = x(25, 7)
  <2> DEFINE sign == IF x(25, 7) >= 64 THEN 1 ELSE 0
  <2>0. 7 - 1 = 6 /\ sign \in 0..1
    BY SMT
  <2>1. StoreForm(s_imm, x(7, 5), x(25, 7), sign)
    BY <2>0, Fields, PowersAssumption, SMT DEF s_imm, xs, StoreForm
  <2> HIDE DEF s_imm
  <2>2. /\ s_imm \in Int /\ -2048 <= s_imm /\ s_imm <= 2047
        /\ s_imm % 32 = x(7, 5) /\ (s_imm \div 32) % 128 = x(25, 7)
    <3>1. /\ x(7, 5) \in Int /\ 0 <= x(7, 5) /\ x(7, 5) <= 31
          /\ x(25, 7) \in Int /\ 0 <= x(25, 7) /\ x(25, 7) <= 127 /\ sign \in Int
      BY <2>0, Fields, SMT
    <3>2. sign = (IF x(25, 7) >= 64 THEN 1 ELSE 0)
      OBVIOUS
    <3> HIDE DEF sign
    <3> QED BY <2>1, <3>1, <3>2, StoreParts, SMT
  <2>3. s_imm \div 1 = s_imm
    BY <2>2, SMT
  <2> QED BY <2>2, <2>3, PowersAssumption, SMT DEF part
<1>3. /\ sb_imm \in -(2^12)..(2^12 - 1)
      /\ part(sb_imm, 1, 4) = x(8, 4) /\ part(sb_imm, 5, 6) = x(25, 6)
      /\ part(sb_imm, 11, 1) = x(7, 1) /\ part(sb_imm, 12, 1) = -imm_sign
  <2>1. BranchForm(sb_imm, x(8, 4), x(25, 6), x(7, 1), imm_sign)
    BY PowersAssumption DEF sb_imm, BranchForm
  <2> HIDE DEF sb_imm
  <2>2. /\ sb_imm \in Int /\ -4096 <= sb_imm /\ sb_imm <= 4095
        /\ (sb_imm \div 2) % 16 = x(8, 4) /\ (sb_imm \div 32) % 64 = x(25, 6)
        /\ (sb_imm \div 2048) % 2 = x(7, 1) /\ (sb_imm \div 4096) % 2 = -imm_sign
    <3>1. /\ x(8, 4) \in Int /\ 0 <= x(8, 4) /\ x(8, 4) <= 15
          /\ x(25, 6) \in Int /\ 0 <= x(25, 6) /\ x(25, 6) <= 63
          /\ x(7, 1) \in Int /\ (x(7, 1) = 0 \/ x(7, 1) = 1)
          /\ imm_sign \in Int /\ (imm_sign = -1 \/ imm_sign = 0)
      BY Fields, SMT
    <3> QED BY <2>1, <3>1, BranchParts, SMT
  <2> QED BY <2>2, PowersAssumption, SMT DEF part
<1>4. u_imm \div 2^12 = xs(12, 20)
  <2>1. 20 - 1 = 19
    BY SMT
  <2>2. u_imm \div 2^12 = word \div 4096
    BY <1>0, PowersAssumption, SMT DEF u_imm
  <2>3. x(12, 20) = (word \div 4096) % 1048576
    BY PowersAssumption DEF x
  <2> DEFINE w == word \div 4096
  <2>4. w \in Int /\ -524288 <= w /\ w <= 524287
    BY <1>0, SMT
  <2> HIDE DEF w
  <2>5. (IF w % 1048576 >= 524288 THEN (w % 1048576) - 1048576 ELSE w % 1048576) = w
    BY <2>4, SMT
  <2> QED BY <2>1, <2>2, <2>3, <2>5, PowersAssumption, SMT DEF w, xs
<1>5. /\ uj_imm \in -(2^20)..(2^20 - 1)
      /\ part(uj_imm, 1, 10) = x(21, 10) /\ part(uj_imm, 11, 1) = x(20, 1)
      /\ part(uj_imm, 12, 8) = x(12, 8) /\ part(uj_imm, 20, 1) = -imm_sign
  <2>1. JumpForm(uj_imm, x(21, 10), x(20, 1), x(12, 8), imm_sign)
    BY PowersAssumption DEF uj_imm, JumpForm
  <2> HIDE DEF uj_imm
  <2>2. /\ uj_imm \in Int /\ -1048576 <= uj_imm /\ uj_imm <= 1048575
        /\ (uj_imm \div 2) % 1024 = x(21, 10) /\ (uj_imm \div 2048) % 2 = x(20, 1)
        /\ (uj_imm \div 4096) % 256 = x(12, 8)
        /\ (uj_imm \div 1048576) % 2 = -imm_sign
    <3>1. /\ x(21, 10) \in Int /\ 0 <= x(21, 10) /\ x(21, 10) <= 1023
          /\ x(20, 1) \in Int /\ (x(20, 1) = 0 \/ x(20, 1) = 1)
          /\ x(12, 8) \in Int /\ 0 <= x(12, 8) /\ x(12, 8) <= 255
          /\ imm_sign \in Int /\ (imm_sign = -1 \/ imm_sign = 0)
      BY Fields, SMT
    <3> QED BY <2>1, <3>1, JumpParts, SMT
  <2>3. uj_imm \in -(2^20)..(2^20 - 1)
    <3> DEFINE m == 2^20
    <3>1. m \in Int /\ -m <= uj_imm /\ uj_imm <= m - 1
      BY <2>2, PowersAssumption, SMT
    <3> HIDE DEF m
    <3>2. uj_imm \in (-m)..(m - 1)
      BY <2>2, <3>1, InInterval
    <3> QED BY <3>2 DEF m
  <2> QED BY <2>2, <2>3, PowersAssumption, SMT DEF part
<1>6. OffsetsEven
  BY EvenOffsets
<1> QED BY <1>1, <1>2, <1>3, <1>4, <1>5, <1>6 DEF ImmediatesInvertible

-----------------------------------------------------------------------------
(* Decoding.  A row is a name of encoding.h with the fields that tell its   *)
(* words: InRow(n, b) says that b is the field of a word of n.               *)

BranchRow(n, b) ==
    /\ b.op = \h63
    /\ <<n, b.f3>> \in {<<"beq", 0>>, <<"bne", 1>>, <<"blt", 4>>, <<"bge", 5>>,
                        <<"bltu", 6>>, <<"bgeu", 7>>}
MemoryRow(n, b) ==
    \/ /\ b.op = \h03
       /\ <<n, b.f3>> \in {<<"lb", 0>>, <<"lh", 1>>, <<"lw", 2>>, <<"ld", 3>>,
                           <<"lbu", 4>>, <<"lhu", 5>>, <<"lwu", 6>>}
    \/ /\ b.op = \h23
       /\ <<n, b.f3>> \in {<<"sb", 0>>, <<"sh", 1>>, <<"sw", 2>>, <<"sd", 3>>}
    \/ b.op = \h07 /\ <<n, b.f3>> \in {<<"flw", 2>>, <<"fld", 3>>}
    \/ b.op = \h27 /\ <<n, b.f3>> \in {<<"fsw", 2>>, <<"fsd", 3>>}
JumpRow(n, b) ==
    \/ <<n, b.op>> \in {<<"lui", \h37>>, <<"auipc", \h17>>, <<"jal", \h6f>>}
    \/ b.op = \h67 /\ n = "jalr" /\ b.f3 = 0
ImmediateRow(n, b) ==
    \/ /\ b.op = \h13
       /\ \/ <<n, b.f3>> \in {<<"addi", 0>>, <<"slti", 2>>, <<"sltiu", 3>>,
                              <<"xori", 4>>, <<"ori", 6>>, <<"andi", 7>>}
          \/ <<n, b.f3, b.f6>> \in {<<"slli", 1, 0>>, <<"srli", 5, 0>>, <<"srai", 5, 16>>}
    \/ /\ b.op = \h1b
       /\ \/ n = "addiw" /\ b.f3 = 0
          \/ <<n, b.f3, b.f7>> \in
                {<<"slliw", 1, 0>>, <<"srliw", 5, 0>>, <<"sraiw", 5, 32>>}
RegisterRow(n, b) ==
    \/ /\ b.op = \h33
       /\ <<n, b.f7, b.f3>> \in
             {<<"add", 0, 0>>, <<"sll", 0, 1>>, <<"slt", 0, 2>>, <<"sltu", 0, 3>>,
              <<"xor", 0, 4>>, <<"srl", 0, 5>>, <<"or", 0, 6>>, <<"and", 0, 7>>,
              <<"sub", 32, 0>>, <<"sra", 32, 5>>,
              <<"mul", 1, 0>>, <<"mulh", 1, 1>>, <<"mulhsu", 1, 2>>, <<"mulhu", 1, 3>>,
              <<"div", 1, 4>>, <<"divu", 1, 5>>, <<"rem", 1, 6>>, <<"remu", 1, 7>>}
    \/ /\ b.op = \h3b
       /\ <<n, b.f7, b.f3>> \in
             {<<"addw", 0, 0>>, <<"sllw", 0, 1>>, <<"srlw", 0, 5>>,
              <<"subw", 32, 0>>, <<"sraw", 32, 5>>, <<"mulw", 1, 0>>, <<"divw", 1, 4>>,
              <<"divuw", 1, 5>>, <<"remw", 1, 6>>, <<"remuw", 1, 7>>}
FloatRow(n, b) ==
    /\ b.op = \h53
    /\ \/ <<n, b.f7>> \in
             {<<"fadd_s", 0>>, <<"fsub_s", 4>>, <<"fmul_s", 8>>, <<"fdiv_s", 12>>,
              <<"fadd_d", 1>>, <<"fsub_d", 5>>, <<"fmul_d", 9>>, <<"fdiv_d", 13>>}
       \/ <<n, b.f7, b.f3>> \in
             {<<"fsgnj_s", 16, 0>>, <<"fsgnjn_s", 16, 1>>, <<"fsgnjx_s", 16, 2>>,
              <<"fsgnj_d", 17, 0>>, <<"fsgnjn_d", 17, 1>>, <<"fsgnjx_d", 17, 2>>,
              <<"fmin_s", 20, 0>>, <<"fmax_s", 20, 1>>,
              <<"fmin_d", 21, 0>>, <<"fmax_d", 21, 1>>,
              <<"fle_s", 80, 0>>, <<"flt_s", 80, 1>>, <<"feq_s", 80, 2>>,
              <<"fle_d", 81, 0>>, <<"flt_d", 81, 1>>, <<"feq_d", 81, 2>>}
       \/ <<n, b.f7, b.rs2>> \in
             {<<"fsqrt_s", 44, 0>>, <<"fsqrt_d", 45, 0>>,
              <<"fcvt_s_d", 32, 1>>, <<"fcvt_d_s", 33, 0>>,
              <<"fcvt_w_s", 96, 0>>, <<"fcvt_wu_s", 96, 1>>,
              <<"fcvt_l_s", 96, 2>>, <<"fcvt_lu_s", 96, 3>>,
              <<"fcvt_w_d", 97, 0>>, <<"fcvt_wu_d", 97, 1>>,
              <<"fcvt_l_d", 97, 2>>, <<"fcvt_lu_d", 97, 3>>,
              <<"fcvt_s_w", 104, 0>>, <<"fcvt_s_wu", 104, 1>>,
              <<"fcvt_s_l", 104, 2>>, <<"fcvt_s_lu", 104, 3>>,
              <<"fcvt_d_w", 105, 0>>, <<"fcvt_d_wu", 105, 1>>,
              <<"fcvt_d_l", 105, 2>>, <<"fcvt_d_lu", 105, 3>>}
       \/ /\ b.rs2 = 0
          /\ <<n, b.f3, b.f7>> \in
                {<<"fmv_x_s", 0, 112>>, <<"fclass_s", 1, 112>>, <<"fmv_s_x", 0, 120>>,
                 <<"fmv_x_d", 0, 113>>, <<"fclass_d", 1, 113>>, <<"fmv_d_x", 0, 121>>}
FusedRow(n, b) ==
    <<n, b.op, b.f2>> \in
       {<<"fmadd_s", \h43, 0>>, <<"fmadd_d", \h43, 1>>, <<"fmsub_s", \h47, 0>>,
        <<"fmsub_d", \h47, 1>>, <<"fnmsub_s", \h4b, 0>>, <<"fnmsub_d", \h4b, 1>>,
        <<"fnmadd_s", \h4f, 0>>, <<"fnmadd_d", \h4f, 1>>}
SystemRow(n, b) ==
    \/ /\ b.op = \h2f
       /\ \/ <<n, b.f3, b.f5, b.rs2>> \in {<<"lr_w", 2, 2, 0>>, <<"lr_d", 3, 2, 0>>}
          \/ <<n, b.f3, b.f5>> \in {<<"sc_w", 2, 3>>, <<"sc_d", 3, 3>>}
    \/ /\ b.op = \h73 /\ b.f3 = 0 /\ b.rd = 0
       /\ \/ /\ b.rs1 = 0
             /\ <<n, b.f7, b.rs2>> \in
                   {<<"scall", 0, 0>>, <<"sbreak", 0, 1>>, <<"sret", 8, 0>>, <<"wfi", 8, 2>>,
                    <<"mrth", 24, 6>>, <<"mrts", 24, 5>>, <<"hrts", 16, 5>>}
          \/ n = "sfence_vm" /\ b.f7 = 8 /\ b.rs2 = 1
    \/ /\ b.op = \h73
       /\ <<n, b.f3>> \in {<<"csrrw", 1>>, <<"csrrs", 2>>, <<"csrrc", 3>>,
                           <<"csrrwi", 5>>, <<"csrrsi", 6>>, <<"csrrci", 7>>}
    \/ b.op = \h0f /\ <<n, b.f3>> \in {<<"fence", 0>>, <<"fence_i", 1>>}

InRow(n, b) ==
    \/ BranchRow(n, b)   \/ MemoryRow(n, b) \/ JumpRow(n, b)  \/ ImmediateRow(n, b)
    \/ RegisterRow(n, b) \/ FloatRow(n, b)  \/ FusedRow(n, b) \/ SystemRow(n, b)

(* A word has at most one name, registered or not.                         *)
LEMMA OneName == \A b, n, m : InRow(n, b) /\ InRow(m, b) => n = m
BY DEF InRow, BranchRow, MemoryRow, JumpRow, ImmediateRow, RegisterRow, FloatRow,
       FusedRow, SystemRow

LEMMA EntryFields == \A n, m : Entry(n, m).name = n /\ Entry(n, m).match = m
BY DEF Entry

(* What the entries of a table match.                                      *)
LEMMA InF3 ==
    \A op, f3 : \A e \in ByF3(op, f3) :
        \E n \in DOMAIN f3 :
            e.name = n /\ \A b : Matches(e, b) <=> b.op = op /\ b.f3 = f3[n]
<1> SUFFICES ASSUME NEW op, NEW f3, NEW e \in ByF3(op, f3)
             PROVE  \E n \in DOMAIN f3 :
                        e.name = n /\ \A b : Matches(e, b) <=> b.op = op /\ b.f3 = f3[n]
  OBVIOUS
<1>1. PICK n \in DOMAIN f3 : e = Entry(n, [op |-> op, f3 |-> f3[n]])
  BY DEF ByF3
<1>2. e.name = n /\ e.match = [op |-> op, f3 |-> f3[n]]
  BY <1>1, EntryFields
<1> QED BY <1>2 DEF Matches

LEMMA InF3F7 ==
    \A op, f7, f3 : \A e \in ByF3F7(op, f7, f3) :
        \E n \in DOMAIN f3 :
            /\ e.name = n
            /\ \A b : Matches(e, b) <=> b.op = op /\ b.f7 = f7 /\ b.f3 = f3[n]
<1> SUFFICES ASSUME NEW op, NEW f7, NEW f3, NEW e \in ByF3F7(op, f7, f3)
             PROVE  \E n \in DOMAIN f3 :
                        /\ e.name = n
                        /\ \A b : Matches(e, b) <=> b.op = op /\ b.f7 = f7 /\ b.f3 = f3[n]
  OBVIOUS
<1>1. PICK n \in DOMAIN f3 : e = Entry(n, [op |-> op, f3 |-> f3[n], f7 |-> f7])
  BY DEF ByF3F7
<1>2. e.name = n /\ e.match = [op |-> op, f3 |-> f3[n], f7 |-> f7]
  BY <1>1, EntryFields
<1> QED BY <1>2 DEF Matches

LEMMA InRs2F7 ==
    \A f7, rs2 : \A e \in ByRs2F7(f7, rs2) :
        \E n \in DOMAIN rs2 :
            /\ e.name = n
            /\ \A b : Matches(e, b) <=> b.op = \h53 /\ b.f7 = f7 /\ b.rs2 = rs2[n]
<1> SUFFICES ASSUME NEW f7, NEW rs2, NEW e \in ByRs2F7(f7, rs2)
             PROVE  \E n \in DOMAIN rs2 :
                        /\ e.name = n
                        /\ \A b : Matches(e, b) <=>
                                      b.op = \h53 /\ b.f7 = f7 /\ b.rs2 = rs2[n]
  OBVIOUS
<1>1. PICK n \in DOMAIN rs2 : e = Entry(n, [op |-> \h53, rs2 |-> rs2[n], f7 |-> f7])
  BY DEF ByRs2F7
<1>2. e.name = n /\ e.match = [op |-> \h53, rs2 |-> rs2[n], f7 |-> f7]
  BY <1>1, EntryFields
<1> QED BY <1>2 DEF Matches

LEMMA InF7 ==
    \A f7 : \A e \in ByF7(f7) :
        \E n \in DOMAIN f7 :
            e.name = n /\ \A b : Matches(e, b) <=> b.op = \h53 /\ b.f7 = f7[n]
<1> SUFFICES ASSUME NEW f7, NEW e \in ByF7(f7)
             PROVE  \E n \in DOMAIN f7 :
                        e.name = n /\ \A b : Matches(e, b) <=> b.op = \h53 /\ b.f7 = f7[n]
  OBVIOUS
<1>1. PICK n \in DOMAIN f7 : e = Entry(n, [op |-> \h53, f7 |-> f7[n]])
  BY DEF ByF7
<1>2. e.name = n /\ e.match = [op |-> \h53, f7 |-> f7[n]]
  BY <1>1, EntryFields
<1> QED BY <1>2 DEF Matches

LEMMA BranchRows == \A e \in Branches : \A b : Matches(e, b) <=> BranchRow(e.name, b)
BY InF3 DEF Branches, BranchRow

LEMMA MemoryRows ==
    \A e \in Loads \cup Stores \cup FloatMemory : \A b : Matches(e, b) <=> MemoryRow(e.name, b)
<1>1. \A e \in Loads : \A b : Matches(e, b) <=> MemoryRow(e.name, b)
  BY InF3 DEF Loads, MemoryRow
<1>2. \A e \in Stores : \A b : Matches(e, b) <=> MemoryRow(e.name, b)
  BY InF3 DEF Stores, MemoryRow
<1>3. \A e \in FloatMemory : \A b : Matches(e, b) <=> MemoryRow(e.name, b)
  BY InF3 DEF FloatMemory, MemoryRow
<1> QED BY <1>1, <1>2, <1>3

LEMMA JumpRows == \A e \in UpperAndJumps : \A b : Matches(e, b) <=> JumpRow(e.name, b)
BY InF3, EntryFields DEF UpperAndJumps, JumpRow, Matches

LEMMA ImmediateRows == \A e \in Immediate : \A b : Matches(e, b) <=> ImmediateRow(e.name, b)
<1>1. \A e \in ShiftImm : \A b : Matches(e, b) <=> ImmediateRow(e.name, b)
  BY EntryFields DEF ShiftImm, ImmediateRow, Matches
<1>2. \A e \in Immediate \ ShiftImm : \A b : Matches(e, b) <=> ImmediateRow(e.name, b)
  BY InF3, InF3F7 DEF Immediate, ImmediateRow
<1> QED BY <1>1, <1>2

LEMMA RegisterRows == \A e \in Registers : \A b : Matches(e, b) <=> RegisterRow(e.name, b)
BY InF3F7 DEF Registers, RegisterRow

LEMMA FloatRows ==
    \A e \in FloatArithmetic \cup FloatSigns \cup FloatConversions \cup FloatMoves :
        \A b : Matches(e, b) <=> FloatRow(e.name, b)
<1>1. \A e \in FloatArithmetic : \A b : Matches(e, b) <=> FloatRow(e.name, b)
  BY InF7, InRs2F7 DEF FloatArithmetic, FloatRow
<1>2. \A e \in FloatSigns : \A b : Matches(e, b) <=> FloatRow(e.name, b)
  BY InF3F7 DEF FloatSigns, FloatRow
<1>3. \A e \in FloatConversions : \A b : Matches(e, b) <=> FloatRow(e.name, b)
  BY InRs2F7 DEF FloatConversions, FloatRow
<1>4. \A e \in FloatMoves : \A b : Matches(e, b) <=> FloatRow(e.name, b)
  BY EntryFields DEF FloatMoves, FloatRow, Matches
<1> QED BY <1>1, <1>2, <1>3, <1>4

LEMMA FusedRows == \A e \in FloatFused : \A b : Matches(e, b) <=> FusedRow(e.name, b)
BY EntryFields DEF FloatFused, FusedRow, Matches

LEMMA SystemRows == \A e \in Atomics \cup System : \A b : Matches(e, b) <=> SystemRow(e.name, b)
<1>1. \A e \in Atomics : \A b : Matches(e, b) <=> SystemRow(e.name, b)
  BY EntryFields DEF Atomics, SystemRow, Matches
<1>2. \A e \in System : \A b : Matches(e, b) <=> SystemRow(e.name, b)
  BY EntryFields, InF3 DEF System, Whole, SystemRow, Matches
<1> QED BY <1>1, <1>2

(* An entry matches its own match, so that it is in the row of its name.   *)
LEMMA MatchesItself == \A e : Matches(e, e.match)
BY DEF Matches

(* A name is in the rows of one group only.                                *)
LEMMA OneGroup ==
    \A n, b, c : InRow(n, b) =>
        /\ BranchRow(n, c) => BranchRow(n, b)
        /\ MemoryRow(n, c) => MemoryRow(n, b)
        /\ JumpRow(n, c) => JumpRow(n, b)
        /\ ImmediateRow(n, c) => ImmediateRow(n, b)
        /\ RegisterRow(n, c) => RegisterRow(n, b)
        /\ FloatRow(n, c) => FloatRow(n, b)
        /\ FusedRow(n, c) => FusedRow(n, b)
        /\ SystemRow(n, c) => SystemRow(n, b)
<1> SUFFICES ASSUME NEW n, NEW b, NEW c, InRow(n, b)
             PROVE  /\ BranchRow(n, c) => BranchRow(n, b)
                    /\ MemoryRow(n, c) => MemoryRow(n, b)
                    /\ JumpRow(n, c) => JumpRow(n, b)
                    /\ ImmediateRow(n, c) => ImmediateRow(n, b)
                    /\ RegisterRow(n, c) => RegisterRow(n, b)
                    /\ FloatRow(n, c) => FloatRow(n, b)
                    /\ FusedRow(n, c) => FusedRow(n, b)
                    /\ SystemRow(n, c) => SystemRow(n, b)
  OBVIOUS
<1> USE DEF BranchRow, MemoryRow, JumpRow, ImmediateRow, RegisterRow, FloatRow,
            FusedRow, SystemRow
<1>1. BranchRow(n, c) => BranchRow(n, b)
  BY DEF InRow
<1>2. MemoryRow(n, c) => MemoryRow(n, b)
  BY DEF InRow
<1>3. JumpRow(n, c) => JumpRow(n, b)
  BY DEF InRow
<1>4. ImmediateRow(n, c) => ImmediateRow(n, b)
  BY DEF InRow
<1>5. RegisterRow(n, c) => RegisterRow(n, b)
  BY DEF InRow
<1>6. FloatRow(n, c) => FloatRow(n, b)
  BY DEF InRow
<1>7. FusedRow(n, c) => FusedRow(n, b)
  BY DEF InRow
<1>8. SystemRow(n, c) => SystemRow(n, b)
  BY DEF InRow
<1> HIDE DEF BranchRow, MemoryRow, JumpRow, ImmediateRow, RegisterRow, FloatRow,
             FusedRow, SystemRow
<1> QED BY <1>1, <1>2, <1>3, <1>4, <1>5, <1>6, <1>7, <1>8

(* What an entry matches depends on its name.                              *)
LEMMA DeclaredRows == \A e \in Declared : \A b : Matches(e, b) <=> InRow(e.name, b)
<1> SUFFICES ASSUME NEW e \in Declared, NEW b PROVE Matches(e, b) <=> InRow(e.name, b)
  OBVIOUS
<1>1. e \in Branches => (Matches(e, b) <=> InRow(e.name, b))
  BY BranchRows, MatchesItself, OneGroup DEF InRow
<1>2. e \in Loads \cup Stores \cup FloatMemory => (Matches(e, b) <=> InRow(e.name, b))
  BY MemoryRows, MatchesItself, OneGroup DEF InRow
<1>3. e \in UpperAndJumps => (Matches(e, b) <=> InRow(e.name, b))
  BY JumpRows, MatchesItself, OneGroup DEF InRow
<1>4. e \in Immediate => (Matches(e, b) <=> InRow(e.name, b))
  BY ImmediateRows, MatchesItself, OneGroup DEF InRow
<1>5. e \in Registers => (Matches(e, b) <=> InRow(e.name, b))
  BY RegisterRows, MatchesItself, OneGroup DEF InRow
<1>6. e \in FloatArithmetic \cup FloatSigns \cup FloatConversions \cup FloatMoves =>
          (Matches(e, b) <=> InRow(e.name, b))
  BY FloatRows, MatchesItself, OneGroup DEF InRow
<1>7. e \in FloatFused => (Matches(e, b) <=> InRow(e.name, b))
  BY FusedRows, MatchesItself, OneGroup DEF InRow
<1>8. e \in Atomics \cup System => (Matches(e, b) <=> InRow(e.name, b))
  BY SystemRows, MatchesItself, OneGroup DEF InRow
<1> QED BY <1>1, <1>2, <1>3, <1>4, <1>5, <1>6, <1>7, <1>8 DEF Declared

(* Every registered name is declared: the names of a table are among those  *)
(* of any set of entries that holds it.                                     *)
NamesOf(T) == {e.name : e \in T}

LEMMA NamesOfOne == \A T, n, m : Entry(n, m) \in T => n \in NamesOf(T)
BY EntryFields DEF NamesOf

LEMMA NamesOfF3 ==
    \A T, op, f3 : ByF3(op, f3) \subseteq T => DOMAIN f3 \subseteq NamesOf(T)
<1> SUFFICES ASSUME NEW T, NEW op, NEW f3, ByF3(op, f3) \subseteq T, NEW n \in DOMAIN f3
             PROVE  n \in NamesOf(T)
  OBVIOUS
<1>1. Entry(n, [op |-> op, f3 |-> f3[n]]) \in ByF3(op, f3)
  BY DEF ByF3
<1> QED BY <1>1, NamesOfOne

LEMMA NamesOfF3F7 ==
    \A T, op, f7, f3 : ByF3F7(op, f7, f3) \subseteq T => DOMAIN f3 \subseteq NamesOf(T)
<1> SUFFICES ASSUME NEW T, NEW op, NEW f7, NEW f3, ByF3F7(op, f7, f3) \subseteq T,
                    NEW n \in DOMAIN f3
             PROVE  n \in NamesOf(T)
  OBVIOUS
<1>1. Entry(n, [op |-> op, f3 |-> f3[n], f7 |-> f7]) \in ByF3F7(op, f7, f3)
  BY DEF ByF3F7
<1> QED BY <1>1, NamesOfOne

LEMMA NamesOfRs2F7 ==
    \A T, f7, rs2 : ByRs2F7(f7, rs2) \subseteq T => DOMAIN rs2 \subseteq NamesOf(T)
<1> SUFFICES ASSUME NEW T, NEW f7, NEW rs2, ByRs2F7(f7, rs2) \subseteq T,
                    NEW n \in DOMAIN rs2
             PROVE  n \in NamesOf(T)
  OBVIOUS
<1>1. Entry(n, [op |-> \h53, rs2 |-> rs2[n], f7 |-> f7]) \in ByRs2F7(f7, rs2)
  BY DEF ByRs2F7
<1> QED BY <1>1, NamesOfOne

LEMMA NamesOfF7 == \A T, f7 : ByF7(f7) \subseteq T => DOMAIN f7 \subseteq NamesOf(T)
<1> SUFFICES ASSUME NEW T, NEW f7, ByF7(f7) \subseteq T, NEW n \in DOMAIN f7
             PROVE  n \in NamesOf(T)
  OBVIOUS
<1>1. Entry(n, [op |-> \h53, f7 |-> f7[n]]) \in ByF7(f7)
  BY DEF ByF7
<1> QED BY <1>1, NamesOfOne

LEMMA IntegerNames ==
    /\ {"beq", "bne", "blt", "bge", "bltu", "bgeu"} \subseteq NamesOf(Branches)
    /\ {"lb", "lh", "lw", "ld", "lbu", "lhu", "lwu"} \subseteq NamesOf(Loads)
    /\ {"sb", "sh", "sw", "sd"} \subseteq NamesOf(Stores)
    /\ {"lui", "auipc", "jal", "jalr"} \subseteq NamesOf(UpperAndJumps)
    /\ {"addi", "slti", "sltiu", "xori", "ori", "andi", "slli", "srli", "srai",
        "addiw", "slliw", "srliw", "sraiw"} \subseteq NamesOf(Immediate)
    /\ {"add", "sll", "slt", "sltu", "xor", "srl", "or", "and", "sub", "sra",
        "mul", "mulh", "mulhsu", "mulhu", "div", "divu", "rem", "remu",
        "addw", "sllw", "srlw", "subw", "sraw", "mulw", "divw", "divuw", "remw",
        "remuw"} \subseteq NamesOf(Registers)
    /\ {"scall", "fence"} \subseteq NamesOf(System)
<1>1. {"beq", "bne", "blt", "bge", "bltu", "bgeu"} \subseteq NamesOf(Branches)
  BY NamesOfF3 DEF Branches
<1>2. {"lb", "lh", "lw", "ld", "lbu", "lhu", "lwu"} \subseteq NamesOf(Loads)
  BY NamesOfF3 DEF Loads
<1>3. {"sb", "sh", "sw", "sd"} \subseteq NamesOf(Stores)
  BY NamesOfF3 DEF Stores
<1>4. {"lui", "auipc", "jal", "jalr"} \subseteq NamesOf(UpperAndJumps)
  BY NamesOfOne, NamesOfF3 DEF UpperAndJumps
<1>5. {"addi", "slti", "sltiu", "xori", "ori", "andi", "slli", "srli", "srai",
       "addiw", "slliw", "srliw", "sraiw"} \subseteq NamesOf(Immediate)
  <2>1. {"slli", "srli", "srai"} \subseteq NamesOf(Immediate)
    <3>1. ShiftImm \subseteq Immediate
      BY DEF Immediate
    <3> QED BY <3>1, NamesOfOne DEF ShiftImm
  <2>2. {"addi", "slti", "sltiu", "xori", "ori", "andi", "addiw", "slliw", "srliw",
         "sraiw"} \subseteq NamesOf(Immediate)
    BY NamesOfF3, NamesOfF3F7 DEF Immediate
  <2> QED BY <2>1, <2>2
<1>6. {"add", "sll", "slt", "sltu", "xor", "srl", "or", "and", "sub", "sra",
       "mul", "mulh", "mulhsu", "mulhu", "div", "divu", "rem", "remu",
       "addw", "sllw", "srlw", "subw", "sraw", "mulw", "divw", "divuw", "remw",
       "remuw"} \subseteq NamesOf(Registers)
  BY NamesOfF3F7 DEF Registers
<1>7. {"scall", "fence"} \subseteq NamesOf(System)
  <2>1. Whole("scall", 0, 0) \in System
    BY DEF System
  <2>2. "scall" \in NamesOf(System)
    BY <2>1, NamesOfOne DEF Whole
  <2>3. "fence" \in NamesOf(System)
    BY NamesOfF3 DEF System
  <2> QED BY <2>2, <2>3
<1> QED BY <1>1, <1>2, <1>3, <1>4, <1>5, <1>6, <1>7

LEMMA FloatNames ==
    /\ {"flw", "fld", "fsw", "fsd"} \subseteq NamesOf(FloatMemory)
    /\ {"fadd_s", "fsub_s", "fmul_s", "fdiv_s", "fadd_d", "fsub_d", "fmul_d",
        "fdiv_d"} \subseteq NamesOf(FloatArithmetic)
    /\ {"fsgnj_d", "feq_d", "fle_d", "flt_d"} \subseteq NamesOf(FloatSigns)
    /\ {"fmadd_d"} \subseteq NamesOf(FloatFused)
    /\ {"fcvt_l_d", "fcvt_s_l", "fcvt_s_w", "fcvt_s_d", "fcvt_d_s", "fcvt_d_w",
        "fcvt_d_l", "fcvt_w_d", "fcvt_wu_d"} \subseteq NamesOf(FloatConversions)
    /\ {"fmv_s_x", "fmv_x_d", "fmv_d_x"} \subseteq NamesOf(FloatMoves)
<1>1. {"flw", "fld", "fsw", "fsd"} \subseteq NamesOf(FloatMemory)
  BY NamesOfF3 DEF FloatMemory
<1>2. {"fadd_s", "fsub_s", "fmul_s", "fdiv_s", "fadd_d", "fsub_d", "fmul_d",
       "fdiv_d"} \subseteq NamesOf(FloatArithmetic)
  BY NamesOfF7 DEF FloatArithmetic
<1>3. {"fsgnj_d", "feq_d", "fle_d", "flt_d"} \subseteq NamesOf(FloatSigns)
  BY NamesOfF3F7 DEF FloatSigns
<1>4. {"fmadd_d"} \subseteq NamesOf(FloatFused)
  BY NamesOfOne DEF FloatFused
<1>5. {"fcvt_l_d", "fcvt_s_l", "fcvt_s_w", "fcvt_s_d", "fcvt_d_s", "fcvt_d_w",
       "fcvt_d_l", "fcvt_w_d", "fcvt_wu_d"} \subseteq NamesOf(FloatConversions)
  BY NamesOfRs2F7 DEF FloatConversions
<1>6. {"fmv_s_x", "fmv_x_d", "fmv_d_x"} \subseteq NamesOf(FloatMoves)
  <2> DEFINE move(n, f3, f7) == Entry(n, [op |-> \h53, f3 |-> f3, rs2 |-> 0, f7 |-> f7])
  <2>1. /\ move("fmv_s_x", 0, 120) \in FloatMoves
        /\ move("fmv_x_d", 0, 113) \in FloatMoves
        /\ move("fmv_d_x", 0, 121) \in FloatMoves
    BY DEF FloatMoves
  <2> QED BY <2>1, NamesOfOne
<1> QED BY <1>1, <1>2, <1>3, <1>4, <1>5, <1>6

LEMMA NamesOfGroups ==
    /\ NamesOf(Branches) \subseteq NamesOf(Declared)
    /\ NamesOf(Loads) \subseteq NamesOf(Declared)
    /\ NamesOf(Stores) \subseteq NamesOf(Declared)
    /\ NamesOf(FloatMemory) \subseteq NamesOf(Declared)
    /\ NamesOf(UpperAndJumps) \subseteq NamesOf(Declared)
    /\ NamesOf(Immediate) \subseteq NamesOf(Declared)
    /\ NamesOf(Registers) \subseteq NamesOf(Declared)
    /\ NamesOf(FloatArithmetic) \subseteq NamesOf(Declared)
    /\ NamesOf(FloatFused) \subseteq NamesOf(Declared)
    /\ NamesOf(FloatSigns) \subseteq NamesOf(Declared)
    /\ NamesOf(FloatConversions) \subseteq NamesOf(Declared)
    /\ NamesOf(FloatMoves) \subseteq NamesOf(Declared)
    /\ NamesOf(System) \subseteq NamesOf(Declared)
BY DEF NamesOf, Declared

LEMMA ListIsDeclared == insn_list \in Seq(NamesOf(Declared))
BY IntegerNames, FloatNames, NamesOfGroups DEF insn_list

-----------------------------------------------------------------------------
(* What decode_insn searches: an entry of Declared for each name of the     *)
(* list, and the illegal one, that every word matches, at the end.          *)
Listed == 1..Len(insn_list)

LEMMA IllegalMatches == illegal.name = "illegal" /\ \A b : Matches(illegal, b)
BY EntryFields DEF illegal, Matches

LEMMA Instructions ==
    /\ DOMAIN insn_list = Listed /\ Len(insn_list) \in Nat
    /\ DOMAIN instructions = 1..(Len(insn_list) + 1)
    /\ \A k \in Listed : instructions[k] \in Declared /\ instructions[k].name = insn_list[k]
    /\ instructions[Len(insn_list) + 1] = illegal
<1> DEFINE list == [d \in DOMAIN insn_list |-> CHOOSE e \in Declared : e.name = insn_list[d]]
<1>1. DOMAIN insn_list = Listed /\ Len(insn_list) \in Nat
  BY ListIsDeclared DEF Listed
<1>2. \A k \in Listed : list[k] \in Declared /\ list[k].name = insn_list[k]
  <2> SUFFICES ASSUME NEW k \in Listed
               PROVE  list[k] \in Declared /\ list[k].name = insn_list[k]
    OBVIOUS
  <2>1. insn_list[k] \in NamesOf(Declared)
    BY <1>1, ListIsDeclared DEF Listed
  <2>2. \E e \in Declared : e.name = insn_list[k]
    BY <2>1 DEF NamesOf
  <2> QED BY <1>1, <2>2
<1>3. list \in Seq(Declared) /\ Len(list) = Len(insn_list)
  BY <1>1, <1>2 DEF Listed
<1> HIDE DEF list
<1>4. instructions = Append(list, illegal)
  BY DEF instructions, list
<1> QED BY <1>1, <1>2, <1>3, <1>4 DEF Listed

(* Of the numbers up to n that a set holds there is a least.                *)
LEMMA LeastOf ==
    \A S : S # {} /\ S \subseteq Nat => \E k \in S : \A j \in S : k <= j
<1> SUFFICES ASSUME NEW S, S # {}, S \subseteq Nat
             PROVE  \E k \in S : \A j \in S : k <= j
  OBVIOUS
<1>1. PICK k \in S : \A j \in S : ~(<<j, k>> \in Below)
  BY BelowWellFounded, WFMin
<1>2. \A j \in S : ~(j < k)
  BY <1>1 DEF Below
<1> QED BY <1>2

(* decode_insn finds the first entry that matches.                         *)
LEMMA FirstMatch ==
    \E k \in DOMAIN instructions :
        /\ Matches(instructions[k], field)
        /\ \A j \in 1..(k - 1) : ~Matches(instructions[j], field)
        /\ decode = instructions[k].name
<1> DEFINE found == {k \in DOMAIN instructions : Matches(instructions[k], field)}
           first(k) == /\ Matches(instructions[k], field)
                       /\ \A j \in 1..(k - 1) : ~Matches(instructions[j], field)
<1>1. Len(insn_list) + 1 \in found
  BY Instructions, IllegalMatches
<1>2. PICK k \in found : \A j \in found : k <= j
  <2>1. found # {} /\ found \subseteq Nat
    BY <1>1, Instructions
  <2> QED BY <2>1, LeastOf
<1>3. k \in DOMAIN instructions /\ first(k)
  BY <1>2, Instructions
<1>4. \E d \in DOMAIN instructions : first(d) /\ decode = instructions[d].name
  BY <1>3 DEF decode
<1> QED BY <1>4

(* What is decoded is listed and has the word in its row, or is illegal.    *)
LEMMA DecodedRow ==
    decode # "illegal" => InRow(decode, field) /\ decode \in Registered
<1>1. PICK k \in DOMAIN instructions :
          Matches(instructions[k], field) /\ decode = instructions[k].name
  BY FirstMatch
<1>2. CASE k = Len(insn_list) + 1
  BY <1>1, <1>2, Instructions, IllegalMatches
<1>3. CASE k # Len(insn_list) + 1
  <2>1. k \in Listed
    BY <1>3, Instructions DEF Listed
  <2>2. instructions[k] \in Declared /\ decode = insn_list[k]
    BY <1>1, <2>1, Instructions
  <2> QED BY <1>1, <2>1, <2>2, DeclaredRows, Instructions DEF Registered
<1> QED BY <1>2, <1>3

(* A word in the row of a listed instruction is decoded as that one.       *)
LEMMA RowDecoded ==
    \A e \in Declared : Matches(e, field) /\ e.name \in Registered => decode = e.name
<1> SUFFICES ASSUME NEW e \in Declared, Matches(e, field), e.name \in Registered
             PROVE  decode = e.name
  OBVIOUS
<1>1. PICK k \in DOMAIN instructions :
          /\ Matches(instructions[k], field)
          /\ \A j \in 1..(k - 1) : ~Matches(instructions[j], field)
          /\ decode = instructions[k].name
  BY FirstMatch
<1>2. PICK d \in Listed : insn_list[d] = e.name
  BY Instructions DEF Registered
<1>3. instructions[d] \in Declared /\ instructions[d].name = e.name
  BY <1>2, Instructions
<1>4. Matches(instructions[d], field)
  BY <1>3, DeclaredRows
<1>5. k \in Listed
  BY <1>1, <1>4, Instructions DEF Listed
<1>6. instructions[k] \in Declared
  BY <1>5, Instructions
<1> QED BY <1>1, <1>6, DeclaredRows, OneName

LEMMA Decoded == DecodesAsDeclared
<1> DEFINE declared == {e.name : e \in {e \in Declared : Matches(e, field)}}
<1>1. CASE declared \cap Registered # {}
  <2>1. PICK e \in Declared : Matches(e, field) /\ e.name \in Registered
    BY <1>1
  <2>2. decode = e.name
    BY <2>1, RowDecoded
  <2>3. \A n \in declared : n = e.name
    BY <2>1, DeclaredRows, OneName
  <2> QED BY <1>1, <2>1, <2>2, <2>3 DEF DecodesAsDeclared
<1>2. CASE declared \cap Registered = {}
  <2>1. PICK k \in DOMAIN instructions :
            Matches(instructions[k], field) /\ decode = instructions[k].name
    BY FirstMatch
  <2>2. k \notin Listed
    BY <1>2, <2>1, Instructions DEF Registered
  <2>3. decode = "illegal"
    BY <2>1, <2>2, Instructions, IllegalMatches DEF Listed
  <2> QED BY <1>2, <2>3 DEF DecodesAsDeclared
<1> QED BY <1>1, <1>2

(* The funct7 of a shift of a word leaves the sixth bit of the amount zero. *)
LEMMA AmountOfWord ==
    WordOK /\ (field.f7 = 0 \/ field.f7 = 32) => SHAMT < 32
<1> SUFFICES ASSUME WordOK, field.f7 = 0 \/ field.f7 = 32 PROVE SHAMT < 32
  OBVIOUS
<1> DEFINE v == word \div 1048576
<1>1. v \in Int /\ SHAMT = v % 64
  BY PowersAssumption DEF WordOK, SHAMT, i_imm
<1>2. word \div 33554432 = v \div 32
  BY DEF WordOK
<1>3. (v \div 32) % 128 = 0 \/ (v \div 32) % 128 = 32
  BY <1>2, PowersAssumption DEF field, x
<1> HIDE DEF v
<1> QED BY <1>1, <1>3

LEMMA ShiftsTaken == WordOK => ShiftAmounts
<1> SUFFICES ASSUME WordOK PROVE ShiftAmounts
  OBVIOUS
<1>1. decode \in {"slliw", "srliw", "sraiw"} => SHAMT < 32
  <2> HAVE decode \in {"slliw", "srliw", "sraiw"}
  <2>1. ImmediateRow(decode, field)
    BY DecodedRow
       DEF InRow, BranchRow, MemoryRow, JumpRow, RegisterRow, FloatRow, FusedRow, SystemRow
  <2>2. field.f7 = 0 \/ field.f7 = 32
    BY <2>1 DEF ImmediateRow
  <2> QED BY <2>2, AmountOfWord
<1>2. field.op = \h13 /\ field.f3 = 1 /\ field.f6 = 0 => decode = "slli"
  <2> HAVE field.op = \h13 /\ field.f3 = 1 /\ field.f6 = 0
  <2> DEFINE e == Entry("slli", [op |-> \h13, f3 |-> 1, f6 |-> 0])
  <2>1. e \in Declared
    BY DEF Declared, Immediate, ShiftImm
  <2>2. e.name = "slli" /\ Matches(e, field)
    BY EntryFields DEF Matches
  <2>3. "slli" \in Registered
    BY DEF Registered, insn_list
  <2> QED BY <2>1, <2>2, <2>3, RowDecoded
<1>3. SHAMT = x(20, 6)
  BY DEF SHAMT, i_imm, x
<1> QED BY <1>1, <1>2, <1>3 DEF ShiftAmounts

-----------------------------------------------------------------------------
(* The theorems: a word keeps its 32 bits.                                 *)
LEMMA WordKept == Spec => []WordOK
<1>1. Init => WordOK
  BY WordsAssumption DEF Init, WordOK
<1>2. WordOK /\ [Next]_vars => WordOK'
  BY DEF WordOK, Next, vars
<1> QED BY <1>1, <1>2, PTL DEF Spec

(* The offsets that sb_imm and uj_imm take from any 32 bits are even.       *)
THEOREM OffsetsAreEven == Spec => []OffsetsEven
BY WordKept, EvenOffsets, PTL

(* The immediates of any 32 bits are in range, and give their bits back.    *)
THEOREM ImmediatesAreInvertible == Spec => []ImmediatesInvertible
BY WordKept, InvertibleImmediates, PTL

(* A word of a registered instruction is decoded as that one and as no      *)
(* other, any other word as illegal, whatever the 32 bits are.              *)
THEOREM DecodesAlways == Spec => []DecodesAsDeclared
BY Decoded, PTL

(* The handlers of the shifts of a word read an amount below 32, that of    *)
(* slli the whole six bits.                                                 *)
THEOREM ShiftAmountsAlways == Spec => []ShiftAmounts
BY WordKept, ShiftsTaken, PTL
=============================================================================
