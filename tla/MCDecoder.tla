------------------------------ MODULE MCDecoder ------------------------------
(* Words for Decoder: each combination of the fields by which encoding.h    *)
(* tells instructions apart, with operands of zeros or of ones; and every   *)
(* word with at most two bits set above the opcode, or at most two clear.   *)
EXTENDS Decoder

Opcodes == {e.match.op : e \in Declared}
Funct7s == {0, 1, 2, 4, 5, 8, 9, 12, 13, 16, 17, 20, 21, 24, 32, 33, 34, 44, 45,
            80, 81, 96, 97, 104, 105, 112, 113, 120, 121, 127}

Assembled ==
    {op + r * (2^7 + 2^15) + f3 * 2^12 + rs2 * 2^20
        + (IF f7 >= 64 THEN f7 - 128 ELSE f7) * 2^25 :
        op \in Opcodes \cup {0, 127}, f3 \in 0..7, f7 \in Funct7s,
        rs2 \in {0, 1, 2, 3, 5, 6, 31}, r \in {0, 31}}

BitValue(k) == IF k = 31 THEN (-(2^30)) * 2 ELSE 2^k
FewBits == {IF j = k THEN BitValue(j) ELSE BitValue(j) + BitValue(k) : j, k \in 7..31}
MCWords == Assembled \cup FewBits \cup {-1 - w : w \in FewBits} \cup {0, -1}
=============================================================================
