------------------------------ MODULE MemoryOps ------------------------------
(***************************************************************************)
(* The guest memory of the simulator as a value: mmu_t keeps a             *)
(* std::map<uint64_t, uint8_t> from address to byte (mmu.h, mmu.cpp), so an *)
(* address is mapped to a byte or absent.  This module holds the operators *)
(* that the modules about memory share; a 64-bit register is the function   *)
(* from offset to byte of its little-endian layout.                         *)
(*                                                                         *)
(* In every module, a definition Name_Variant written before Name is Name  *)
(* with a plausible slip in it.  No specification uses it: it serves to see *)
(* that a property notices the slip.                                        *)
(***************************************************************************)
EXTENDS Naturals, FiniteSets

CONSTANTS
    AddrSpace,    \* number of addresses, 2^64 in the code; uint64_t wraps here
    ByteBase,     \* number of values of a byte, 256 in the code
    RegBytes,     \* bytes of a register, 8 in the code
    FetchBytes,   \* bytes of an instruction, 4 in the code
    Widths,       \* lengths of loads and stores, {1, 2, 4, 8} in the code
    NoByte        \* stands for an address that is not a key of mmu_t::mem

ASSUME MemoryAssumption ==
    /\ AddrSpace \in Nat /\ ByteBase \in Nat /\ RegBytes \in Nat
    /\ FetchBytes \in Nat
    /\ 2 <= ByteBase
    /\ 1 <= FetchBytes /\ FetchBytes <= RegBytes /\ RegBytes <= AddrSpace
    /\ Widths \subseteq 1..RegBytes
    /\ RegBytes \in Widths
    /\ NoByte \notin 0..(ByteBase - 1)

Addr == 0..(AddrSpace - 1)
Byte == 0..(ByteBase - 1)
Offsets == 0..(RegBytes - 1)

(* The bytes of a register, least significant first.                       *)
Word == [Offsets -> Byte]
Zero == [k \in Offsets |-> 0]

(* mmu_t::mem                                                              *)
MemMap == [Addr -> Byte \cup {NoByte}]
Mapped(m) == {a \in Addr : m[a] # NoByte}

(* cur_addr after k increments of the uint64_t a.                          *)
At(a, k) == IF a + k < AddrSpace THEN a + k ELSE (a + k) - AddrSpace
Touched(a, len) == {At(a, k) : k \in 0..(len - 1)}

(* A pair of forbid, read as the closed interval [first, second].          *)
Block(b) == {a \in Addr : b[1] <= a /\ a <= b[2]}

(* mmu_t::ban, and the test that guards both loops that store: only the    *)
(* first and the last byte of the store are looked up.                     *)
ban(forbid, a) == \E b \in forbid : b[1] <= a /\ a <= b[2]
WriteDenied_FirstOnly(forbid, a, len) == ban(forbid, a)
WriteDenied(forbid, a, len) == ban(forbid, a) \/ ban(forbid, At(a, len - 1))

(* A block that a store cannot reach around.                               *)
Wide(b) == b[2] - b[1] >= RegBytes - 2

(* std::map::insert never replaces a byte that is already there.           *)
Insert_Replaces(m, a, byte) == [m EXCEPT ![a] = byte]
Insert(m, a, byte) == IF m[a] = NoByte THEN [m EXCEPT ![a] = byte] ELSE m

(* Sign extension from the top byte of the len low ones.  For a whole      *)
(* register it changes nothing, like the default case of read's switch.    *)
SignExtend(w, len) ==
    IF 2 * w[len - 1] >= ByteBase
    THEN [k \in Offsets |-> IF k < len THEN w[k] ELSE ByteBase - 1]
    ELSE w

(* What read(a, sign, len) assembles: it skips the bytes that are not      *)
(* mapped without advancing shift, so the k-th byte of the result is the   *)
(* k-th mapped byte of the range, and the rest is zero.                    *)
MappedBelow(m, a, k) == {j \in 0..(k - 1) : m[At(a, j)] # NoByte}
LoadBytes(m, a, len) ==
    [k \in Offsets |->
        IF \E j \in MappedBelow(m, a, len) : Cardinality(MappedBelow(m, a, j)) = k
        THEN m[At(a, CHOOSE j \in MappedBelow(m, a, len) :
                        Cardinality(MappedBelow(m, a, j)) = k)]
        ELSE 0]

(* The value of read_int<len> and of read_uint<len>.                       *)
LoadValue(m, a, len, op) ==
    IF op = "read_int" THEN SignExtend(LoadBytes(m, a, len), len)
                       ELSE LoadBytes(m, a, len)

(* Memory once the bytes from.., len - 1 of val have been stored at a.     *)
StoreFrom(m, a, len, val, from) ==
    [b \in Addr |->
        IF \E k \in from..(len - 1) : At(a, k) = b
        THEN val[CHOOSE k \in from..(len - 1) : At(a, k) = b]
        ELSE m[b]]
StoreBytes(m, a, len, val) == StoreFrom(m, a, len, val, 0)

(* load_insn: the shift promotes each byte to int, so the 32-bit word is   *)
(* sign extended into insn_bits_t when its last byte is or-ed in.          *)
FetchFaults(m, a) == \E k \in 0..(FetchBytes - 1) : m[At(a, k)] = NoByte
FetchValue(m, a) ==
    SignExtend([k \in Offsets |-> IF k < FetchBytes THEN m[At(a, k)] ELSE 0],
               FetchBytes)

(* A call of mmu_t with its operands; a reply carries its result in val.   *)
(* read_int and read_uint stand for the signed and the unsigned wrappers.  *)
Exceptions == {"no_permission", "invalid_address"}
Ops == {"none", "read_int", "read_uint", "write", "fetch"}
Call == [op : Ops \cup Exceptions, addr : Addr, len : 1..RegBytes, val : Word]
NoCall == [op |-> "none", addr |-> 0, len |-> 1, val |-> Zero]
=============================================================================
