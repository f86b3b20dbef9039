------------------------------ MODULE MmuProofs ------------------------------
(* Theorems about Mmu for every address space, byte, register and image.   *)
EXTENDS Mmu, MemoryOpsProofs, FiniteSetTheorems, TLAPS

USE MemoryAssumption, GuestAssumption

-----------------------------------------------------------------------------
(* The idle value of call is a call, so that its fields have their types.   *)
LEMMA NoCallType == NoCall \in Call
BY ZeroType DEF NoCall, Call, Addr, Ops

-----------------------------------------------------------------------------
(* The two ways a call can start: its loop is entered, or it throws at once. *)
LEMMA BeginCases ==
    ASSUME Begin
    PROVE  \/ \E c \in Call :
                 /\ Enter(c) /\ c.op \in {"read_int", "read_uint", "write", "fetch"}
                 /\ InReach(c.addr, c.len)
                 /\ c.op = "write" => ~WriteDenied(forbid, c.addr, c.len)
           \/ \E r \in Call : Return(r) /\ r.op = "no_permission"
<1> DEFINE Entered == \E c \in Call :
                 /\ Enter(c) /\ c.op \in {"read_int", "read_uint", "write", "fetch"}
                 /\ InReach(c.addr, c.len)
                 /\ c.op = "write" => ~WriteDenied(forbid, c.addr, c.len)
<1> DEFINE Thrown == \E r \in Call : Return(r) /\ r.op = "no_permission"
<1>1. ASSUME NEW a \in GuestAddrs, NEW len \in 1..RegBytes, NEW val \in Word,
             NEW op \in Ops \cup Exceptions
      PROVE  [op |-> op, addr |-> a, len |-> len, val |-> val] \in Call
  BY <1>1 DEF Call
<1>2. ASSUME NEW a \in GuestAddrs, NEW len \in Widths, InReach(a, len),
             NEW op \in Reads, BeginRead(op, a, len)
      PROVE  Entered
  <2> DEFINE c == [op |-> op, addr |-> a, len |-> len, val |-> Zero]
  <2>1. c \in Call /\ Enter(c)
    BY <1>1, <1>2, ZeroType DEF Reads, Ops, BeginRead
  <2>2. c.op \in {"read_int", "read_uint"} /\ c.addr = a /\ c.len = len
    BY DEF Reads
  <2> HIDE DEF c
  <2> QED BY <1>2, <2>1, <2>2
<1>3. ASSUME NEW a \in GuestAddrs, NEW len \in Widths, InReach(a, len),
             NEW val \in StoreValues, BeginWrite(a, len, val)
      PROVE  Entered
  <2> DEFINE c == [op |-> "write", addr |-> a, len |-> len, val |-> val]
  <2>1. c \in Call /\ Enter(c) /\ ~WriteDenied(forbid, a, len)
    BY <1>1, <1>3 DEF Ops, BeginWrite
  <2>2. c.op = "write" /\ c.addr = a /\ c.len = len
    OBVIOUS
  <2> HIDE DEF c
  <2> QED BY <1>3, <2>1, <2>2
<1>4. ASSUME NEW a \in GuestAddrs, NEW len \in Widths,
             NEW val \in StoreValues, DenyWrite(a, len, val)
      PROVE  Thrown
  BY <1>1, <1>4 DEF Exceptions, DenyWrite
<1>5. ASSUME NEW a \in GuestAddrs, InReach(a, FetchBytes), BeginFetch(a) PROVE Entered
  <2> DEFINE c == [op |-> "fetch", addr |-> a, len |-> FetchBytes, val |-> Zero]
  <2>1. c \in Call /\ Enter(c)
    BY <1>1, <1>5, ZeroType DEF Ops, BeginFetch
  <2>2. c.op = "fetch" /\ c.addr = a /\ c.len = FetchBytes
    OBVIOUS
  <2> HIDE DEF c
  <2> QED BY <1>5, <2>1, <2>2
<1> HIDE DEF Entered, Thrown
<1>6. Entered \/ Thrown
  BY <1>2, <1>3, <1>4, <1>5 DEF Begin, BeginWriteBare, DenyWriteBare
<1> QED BY <1>6 DEF Entered, Thrown

-----------------------------------------------------------------------------
(* Type correctness of the loops.                                          *)
THEOREM TypeCorrect == Spec => []TypeOK
<1> USE DEF TypeOK
<1>1. Init => TypeOK
  <2> SUFFICES ASSUME Init PROVE TypeOK
    OBVIOUS
  <2>1. mem \in MemMap
    <3>1. PICK image \in [ImageAddrs -> Byte] :
             mem = [a \in Addr |-> IF a \in ImageAddrs THEN image[a] ELSE NoByte]
      BY DEF Init
    <3> QED BY <3>1 DEF MemMap
  <2>2. call \in Call /\ call.op \in Ops /\ reply \in Call
    BY NoCallType DEF Init, NoCall, Ops
  <2>3. i \in 0..call.len /\ shift \in 0..i /\ retval \in Word
    BY ZeroType DEF Init, NoCall
  <2> QED BY <2>1, <2>2, <2>3 DEF Init
<1>2. TypeOK /\ [Next]_vars => TypeOK'
  <2> SUFFICES ASSUME TypeOK, [Next]_vars PROVE TypeOK'
    OBVIOUS
  <2>0. ASSUME NEW c \in Call, c.op \in Ops, Enter(c) PROVE TypeOK'
    <3>1. c.len \in 1..RegBytes
      BY <2>0 DEF Call
    <3> QED BY <2>0, <3>1, ZeroType DEF Enter
  <2>1. ASSUME NEW r \in Call, Return(r) PROVE TypeOK'
    BY <2>1, ZeroType, NoCallType DEF Return, NoCall, Ops
  <2>3. CASE Begin
    BY <2>3, <2>0, <2>1, BeginCases DEF Ops
  <2> DEFINE Busy == call.addr \in Addr /\ call.len \in 1..RegBytes /\ call.val \in Word
  <2>4. Busy
    BY DEF Call
  <2>5. ASSUME NEW ops, InLoop(ops) PROVE i \in Offsets /\ shift \in Offsets /\ cur_addr \in Addr
    BY <2>4, <2>5, AtType DEF InLoop, Offsets, cur_addr
  <2>6. CASE ReadByte
    <3>1. mem[cur_addr] \in Byte \/ AtEnd(cur_addr)
      BY <2>6, <2>5 DEF ReadByte, Found, MemMap
    <3>2. retval' \in Word
      BY <2>6, <2>5, <3>1 DEF ReadByte, Word, AtEnd
    <3> QED BY <2>6, <2>4, <3>2 DEF ReadByte, InLoop
  <2>7. CASE SkipUnmapped
    BY <2>7, <2>4 DEF SkipUnmapped, InLoop
  <2>8. CASE EndRead
    <3> DEFINE v == IF call.op = "read_int" THEN SignExtend(retval, call.len) ELSE retval
    <3>1. v \in Word
      BY <2>4, SignExtendType
    <3>2. [call EXCEPT !.val = v] \in Call
      BY <3>1 DEF Call
    <3> QED BY <2>8, <2>1, <3>2 DEF EndRead
  <2>9. CASE StoreByte
    <3>1. call.val[i] \in Byte
      BY <2>9, <2>4, <2>5 DEF StoreByte, Word
    <3>2. mem' \in MemMap
      BY <2>9, <3>1 DEF StoreByte, MemMap
    <3> QED BY <2>9, <2>4, <3>2 DEF StoreByte, InLoop
  <2>10. CASE StoreAtEnd
    <3>1. call.val[i] \in Byte
      BY <2>10, <2>4, <2>5 DEF StoreAtEnd, Word
    <3> QED BY <2>10, <2>4, <3>1 DEF StoreAtEnd, InLoop
  <2>11. CASE EndWrite
    BY <2>11, <2>1 DEF EndWrite
  <2>12. CASE FetchByte
    <3> DEFINE word == [retval EXCEPT ![shift] = mem[cur_addr]]
    <3>1. word \in Word
      BY <2>12, <2>5 DEF FetchByte, Word, MemMap
    <3>2. retval' \in Word
      BY <2>12, <3>1, SignExtendType DEF FetchByte
    <3> HIDE DEF word
    <3> QED BY <2>12, <2>4, <3>2 DEF FetchByte, InLoop
  <2>13. CASE FetchFault
    BY <2>13, <2>1 DEF FetchFault, Call, Exceptions
  <2>14. CASE EndFetch
    BY <2>14, <2>1 DEF EndFetch, Call
  <2>15. CASE UNCHANGED vars
    BY <2>15 DEF vars
  <2> QED BY <2>3, <2>6, <2>7, <2>8, <2>9, <2>10, <2>11, <2>12, <2>13, <2>14, <2>15
          DEF Next, Progress
<1> QED BY <1>1, <1>2, PTL DEF Spec

-----------------------------------------------------------------------------
(* The permission test of write.                                           *)

(* A store whose loop runs passed the test.                                *)
WriteAllowed == call.op = "write" => ~WriteDenied(forbid, call.addr, call.len)

LEMMA WriteAllowedInvariant == Spec => []WriteAllowed
<1>1. Init => WriteAllowed
  BY DEF Init, WriteAllowed, NoCall
<1>2. WriteAllowed /\ [Next]_vars => WriteAllowed'
  <2> SUFFICES ASSUME WriteAllowed, [Next]_vars PROVE WriteAllowed'
    OBVIOUS
  <2> USE DEF WriteAllowed
  <2>1. ASSUME NEW r, Return(r) PROVE WriteAllowed'
    BY <2>1 DEF Return, NoCall
  <2>2. CASE Begin
    BY <2>2, <2>1, BeginCases DEF Enter
  <2>3. CASE ReadByte \/ SkipUnmapped \/ StoreByte \/ StoreAtEnd \/ FetchByte
    BY <2>3 DEF ReadByte, SkipUnmapped, StoreByte, StoreAtEnd, FetchByte
  <2>4. CASE EndRead \/ EndWrite \/ FetchFault \/ EndFetch
    BY <2>4, <2>1 DEF EndRead, EndWrite, FetchFault, EndFetch
  <2>5. CASE UNCHANGED vars
    BY <2>5 DEF vars
  <2> QED BY <2>2, <2>3, <2>4, <2>5 DEF Next, Progress
<1> QED BY <1>1, <1>2, PTL DEF Spec

(* No store of the program ever changes a byte of a wide forbidden block,  *)
(* although write looks up the first and last byte of the store only.       *)
THEOREM WideBlocksStay == Spec => WideBlocksImmutable
<1> DEFINE Safe == \A b \in forbid : Wide(b) => BlockUnchanged(b)
<1>1. TypeOK /\ WriteAllowed /\ [Next]_vars => [Safe]_vars
  <2> SUFFICES ASSUME TypeOK, WriteAllowed, [Next]_vars PROVE Safe
    OBVIOUS
  <2> SUFFICES ASSUME NEW b \in forbid, Wide(b), NEW a \in Block(b) PROVE mem'[a] = mem[a]
    BY DEF BlockUnchanged
  <2>1. CASE StoreByte
    <3>1. call.op = "write" /\ call.addr \in Addr /\ call.len \in 1..RegBytes
          /\ i \in 0..(call.len - 1) /\ b \in Addr \X Addr
      BY <2>1 DEF StoreByte, InLoop, TypeOK, Call
    <3>2. cur_addr \notin Block(b)
      BY <3>1, EndsGuardWideBlocks DEF WriteAllowed, WriteDenied, ban, cur_addr
    <3> QED BY <2>1, <3>2 DEF StoreByte, TypeOK, MemMap, Block
  <2>2. CASE Begin
    BY <2>2, BeginCases DEF Enter, Return
  <2>3. CASE Next /\ ~StoreByte /\ ~Begin
    BY <2>3 DEF Next, Progress, ReadByte, SkipUnmapped, EndRead, StoreAtEnd, EndWrite,
                FetchByte, FetchFault, EndFetch, Return
  <2>4. CASE UNCHANGED vars
    BY <2>4 DEF vars
  <2> QED BY <2>1, <2>2, <2>3, <2>4
<1> QED BY <1>1, TypeCorrect, WriteAllowedInvariant, PTL DEF Spec, WideBlocksImmutable

-----------------------------------------------------------------------------
(* Where Separated holds, no look-up meets end().                          *)

(* The bytes of the image stay mapped, and only the guest's are added.     *)
WithinReach ==
    /\ ImageAddrs \subseteq Mapped(mem)
    /\ Mapped(mem) \subseteq ImageAddrs \cup GuestAddrs
    /\ call.op # "none" => \A k \in 0..(call.len - 1) : At(call.addr, k) \in GuestAddrs

LEMMA WithinReachInvariant == Spec => []WithinReach
<1>1. Init => WithinReach
  <2> SUFFICES ASSUME Init PROVE WithinReach
    OBVIOUS
  <2>1. PICK image \in [ImageAddrs -> Byte] :
           mem = [a \in Addr |-> IF a \in ImageAddrs THEN image[a] ELSE NoByte]
    BY DEF Init
  <2>2. Mapped(mem) = ImageAddrs
    BY <2>1 DEF Mapped, Byte
  <2> QED BY <2>2 DEF Init, WithinReach, NoCall
<1>2. TypeOK /\ WithinReach /\ [Next]_vars => WithinReach'
  <2> SUFFICES ASSUME TypeOK, WithinReach, [Next]_vars PROVE WithinReach'
    OBVIOUS
  <2> USE DEF WithinReach
  <2>1. ASSUME NEW r, Return(r) PROVE WithinReach'
    BY <2>1 DEF Return, NoCall, Mapped
  <2>2. ASSUME NEW c, Enter(c), InReach(c.addr, c.len) PROVE WithinReach'
    BY <2>2 DEF Enter, InReach, Touched, Mapped
  <2>3. CASE Begin
    BY <2>3, <2>1, <2>2, BeginCases
  <2>4. CASE StoreByte
    <3>1. cur_addr \in GuestAddrs /\ call.val[i] \in Byte
      BY <2>4 DEF StoreByte, InLoop, cur_addr, TypeOK, Call, Word, Offsets
    <3>2. mem' = [mem EXCEPT ![cur_addr] = call.val[i]] /\ UNCHANGED call
      BY <2>4 DEF StoreByte
    <3>3. Mapped(mem)' = Mapped(mem) \cup {cur_addr}
      BY <3>1, <3>2 DEF TypeOK, MemMap, Mapped, Byte
    <3> QED BY <3>1, <3>2, <3>3
  <2>5. CASE ReadByte \/ SkipUnmapped \/ StoreAtEnd \/ FetchByte
    BY <2>5 DEF ReadByte, SkipUnmapped, StoreAtEnd, FetchByte, Mapped
  <2>6. CASE EndRead \/ EndWrite \/ FetchFault \/ EndFetch
    BY <2>6, <2>1 DEF EndRead, EndWrite, FetchFault, EndFetch
  <2>7. CASE UNCHANGED vars
    BY <2>7 DEF vars, Mapped
  <2> QED BY <2>3, <2>4, <2>5, <2>6, <2>7 DEF Next, Progress
<1> QED BY <1>1, <1>2, TypeCorrect, PTL DEF Spec

LEMMA NeverAtEnd ==
    ASSUME Separated, TypeOK, WithinReach, NEW a \in GuestAddrs
    PROVE  ~AtEnd(a)
<1>1. IsFiniteSet(Addr)
  BY FS_Interval DEF Addr
<1>2. IsFiniteSet(ImageAddrs \cup GuestAddrs) /\ IsFiniteSet(Mapped(mem))
  BY <1>1, FS_Subset DEF Mapped
<1>3. Cardinality(ImageAddrs) <= Cardinality(Mapped(mem))
  BY <1>2, FS_Subset DEF WithinReach
<1>4. Cardinality(Mapped(mem)) <= Cardinality(ImageAddrs \cup GuestAddrs)
  BY <1>2, FS_Subset DEF WithinReach
<1>5. /\ Cardinality(ImageAddrs) \in Nat
      /\ Cardinality(Mapped(mem)) \in Nat
      /\ Cardinality(ImageAddrs \cup GuestAddrs) \in Nat
  BY <1>1, <1>2, FS_Subset, FS_CardinalityType
<1> QED BY <1>3, <1>4, <1>5 DEF Separated, AtEnd, Addr

(* No byte of a store is lost when the guest keeps clear of mem.size().    *)
THEOREM StoresArrive == ASSUME Separated PROVE Spec => []StoredBytesPresent
<1>1. Init => StoredBytesPresent
  BY DEF Init, StoredBytesPresent, NoCall
<1>2. TypeOK /\ WithinReach /\ StoredBytesPresent /\ [Next]_vars => StoredBytesPresent'
  <2> SUFFICES ASSUME TypeOK, WithinReach, StoredBytesPresent, [Next]_vars
               PROVE  StoredBytesPresent'
    OBVIOUS
  <2> USE DEF StoredBytesPresent
  <2>1. ASSUME NEW r, Return(r) PROVE StoredBytesPresent'
    BY <2>1 DEF Return, NoCall
  <2>2. CASE Begin
    BY <2>2, <2>1, BeginCases DEF Enter
  <2>3. CASE StoreByte
    <3> SUFFICES ASSUME NEW k \in 0..i PROVE mem'[At(call.addr, k)] = call.val[k]
      BY <2>3 DEF StoreByte, TypeOK, Call
    <3>1. k \in Offsets /\ i \in Offsets /\ call.addr \in Addr /\ cur_addr \in Addr
      BY <2>3, AtType DEF StoreByte, InLoop, TypeOK, Call, Offsets, cur_addr
    <3>2. CASE k = i
      BY <2>3, <3>1, <3>2 DEF StoreByte, cur_addr, TypeOK, MemMap
    <3>3. CASE k # i
      <4>1. At(call.addr, k) # cur_addr /\ At(call.addr, k) \in Addr
        BY <3>1, <3>3, AtInjective, AtType DEF cur_addr, Offsets
      <4>2. mem[At(call.addr, k)] = call.val[k]
        BY <2>3, <3>1, <3>3 DEF StoreByte, InLoop, Offsets
      <4> QED BY <2>3, <4>1, <4>2 DEF StoreByte, TypeOK, MemMap
    <3> QED BY <3>2, <3>3
  <2>4. ~StoreAtEnd
    <3>1. InLoop({"write"}) => cur_addr \in GuestAddrs
      BY DEF InLoop, WithinReach, cur_addr, TypeOK, Call
    <3>2. cur_addr \in GuestAddrs => ~AtEnd(cur_addr)
      BY NeverAtEnd
    <3> QED BY <3>1, <3>2 DEF StoreAtEnd
  <2>5. CASE ReadByte \/ SkipUnmapped \/ FetchByte
    BY <2>5 DEF ReadByte, SkipUnmapped, FetchByte, InLoop, Reads
  <2>6. CASE EndRead \/ EndWrite \/ FetchFault \/ EndFetch
    BY <2>6, <2>1 DEF EndRead, EndWrite, FetchFault, EndFetch
  <2>7. CASE UNCHANGED vars
    BY <2>7 DEF vars
  <2> QED BY <2>2, <2>3, <2>4, <2>5, <2>6, <2>7 DEF Next, Progress
<1> QED BY <1>1, <1>2, TypeCorrect, WithinReachInvariant, PTL DEF Spec

-----------------------------------------------------------------------------
(* What read assembles.                                                    *)

LEMMA MappedBelowStep ==
    ASSUME NEW m, NEW a, NEW n \in Nat
    PROVE  MappedBelow(m, a, n + 1) =
               IF m[At(a, n)] # NoByte THEN MappedBelow(m, a, n) \cup {n}
                                       ELSE MappedBelow(m, a, n)
<1>1. \A j : j \in 0..((n + 1) - 1) <=> j \in 0..(n - 1) \/ j = n
  OBVIOUS
<1> QED BY <1>1 DEF MappedBelow

LEMMA MappedBelowFinite ==
    ASSUME NEW m, NEW a, NEW n \in Nat
    PROVE  /\ IsFiniteSet(MappedBelow(m, a, n)) /\ Cardinality(MappedBelow(m, a, n)) \in Nat
           /\ Cardinality(MappedBelow(m, a, n)) <= n
<1>1. IsFiniteSet(0..(n - 1)) /\ Cardinality(0..(n - 1)) = n
  BY FS_Interval
<1>2. MappedBelow(m, a, n) \subseteq 0..(n - 1)
  BY DEF MappedBelow
<1> QED BY <1>1, <1>2, FS_Subset, FS_CardinalityType

(* The number of mapped bytes before one tells it from the others.         *)
LEMMA MappedBelowGrows ==
    ASSUME NEW m, NEW a, NEW j \in Nat, NEW l \in Nat, j < l, m[At(a, j)] # NoByte
    PROVE  Cardinality(MappedBelow(m, a, j)) < Cardinality(MappedBelow(m, a, l))
<1>1. j \in MappedBelow(m, a, l) /\ j \notin MappedBelow(m, a, j)
  BY DEF MappedBelow
<1>2. MappedBelow(m, a, j) \subseteq MappedBelow(m, a, l)
  BY DEF MappedBelow
<1>3. /\ Cardinality(MappedBelow(m, a, j)) <= Cardinality(MappedBelow(m, a, l))
      /\ Cardinality(MappedBelow(m, a, j)) = Cardinality(MappedBelow(m, a, l)) =>
            MappedBelow(m, a, j) = MappedBelow(m, a, l)
  BY <1>2, MappedBelowFinite, FS_Subset
<1> QED BY <1>1, <1>3, MappedBelowFinite

Rank(m, a, j) == Cardinality(MappedBelow(m, a, j))

LEMMA RanksDiffer ==
    ASSUME NEW m, NEW a, NEW n \in Nat,
           NEW j \in MappedBelow(m, a, n), NEW l \in MappedBelow(m, a, n),
           Rank(m, a, j) = Rank(m, a, l)
    PROVE  j = l
<1>1. j \in Nat /\ l \in Nat /\ m[At(a, j)] # NoByte /\ m[At(a, l)] # NoByte
  BY DEF MappedBelow
<1>2. Rank(m, a, j) \in Nat /\ Rank(m, a, l) \in Nat
  BY <1>1, MappedBelowFinite DEF Rank
<1>3. ~(j < l) /\ ~(l < j)
  BY <1>1, <1>2, MappedBelowGrows DEF Rank
<1> QED BY <1>1, <1>3

LEMMA LoadBytesAt ==
    ASSUME NEW m, NEW a, NEW n \in Nat, NEW k \in Offsets
    PROVE  /\ \A j \in MappedBelow(m, a, n) :
                  Rank(m, a, j) = k => LoadBytes(m, a, n)[k] = m[At(a, j)]
           /\ (\A j \in MappedBelow(m, a, n) : Rank(m, a, j) # k) => LoadBytes(m, a, n)[k] = 0
<1> DEFINE c == CHOOSE j \in MappedBelow(m, a, n) : Rank(m, a, j) = k
<1>1. LoadBytes(m, a, n)[k] = IF \E j \in MappedBelow(m, a, n) : Rank(m, a, j) = k
                              THEN m[At(a, c)] ELSE 0
  BY DEF LoadBytes, Rank
<1>2. ASSUME NEW j \in MappedBelow(m, a, n), Rank(m, a, j) = k PROVE c = j
  <2>1. c \in MappedBelow(m, a, n) /\ Rank(m, a, c) = k
    BY <1>2
  <2> HIDE DEF c
  <2> QED BY <1>2, <2>1, RanksDiffer
<1> QED BY <1>1, <1>2

(* One byte more: it goes to the place after those before it.              *)
LEMMA LoadBytesStep ==
    ASSUME NEW m, NEW a, NEW n \in Nat, n < RegBytes, m[At(a, n)] # NoByte
    PROVE  /\ LoadBytes(m, a, n + 1) = [LoadBytes(m, a, n) EXCEPT ![Rank(m, a, n)] = m[At(a, n)]]
           /\ Rank(m, a, n + 1) = Rank(m, a, n) + 1
<1>1. MappedBelow(m, a, n + 1) = MappedBelow(m, a, n) \cup {n} /\ n \notin MappedBelow(m, a, n)
  BY MappedBelowStep DEF MappedBelow
<1>2. Rank(m, a, n) \in Offsets /\ Rank(m, a, n + 1) = Rank(m, a, n) + 1
  BY <1>1, MappedBelowFinite, FS_AddElement DEF Rank, Offsets
<1> DEFINE L == LoadBytes(m, a, n)  r == Rank(m, a, n)
<1>3. ASSUME NEW k \in Offsets
      PROVE  LoadBytes(m, a, n + 1)[k] = IF k = r THEN m[At(a, n)] ELSE L[k]
  <2>1. CASE k = r
    BY <1>1, <2>1, LoadBytesAt
  <2>2. CASE k # r /\ \E j \in MappedBelow(m, a, n) : Rank(m, a, j) = k
    <3>1. PICK j \in MappedBelow(m, a, n) : Rank(m, a, j) = k
      BY <2>2
    <3>2. L[k] = m[At(a, j)] /\ LoadBytes(m, a, n + 1)[k] = m[At(a, j)]
      BY <1>1, <3>1, LoadBytesAt
    <3> QED BY <2>2, <3>2
  <2>3. CASE k # r /\ \A j \in MappedBelow(m, a, n) : Rank(m, a, j) # k
    <3>1. \A j \in MappedBelow(m, a, n + 1) : Rank(m, a, j) # k
      BY <1>1, <2>3
    <3>2. L[k] = 0 /\ LoadBytes(m, a, n + 1)[k] = 0
      BY <2>3, <3>1, LoadBytesAt
    <3> QED BY <2>3, <3>2
  <2> QED BY <2>1, <2>2, <2>3
<1>4. /\ LoadBytes(m, a, n + 1) = [k \in Offsets |-> LoadBytes(m, a, n + 1)[k]]
      /\ L = [k \in Offsets |-> L[k]]
  BY DEF LoadBytes
<1> HIDE DEF L, r
<1>5. LoadBytes(m, a, n + 1) = [L EXCEPT ![r] = m[At(a, n)]]
  BY <1>3, <1>4
<1> QED BY <1>2, <1>5 DEF L, r

LEMMA LoadBytesSkip ==
    ASSUME NEW m, NEW a, NEW n \in Nat, m[At(a, n)] = NoByte
    PROVE  LoadBytes(m, a, n + 1) = LoadBytes(m, a, n) /\ Rank(m, a, n + 1) = Rank(m, a, n)
BY MappedBelowStep DEF LoadBytes, Rank

LEMMA LoadBytesNone ==
    \A m, a : LoadBytes(m, a, 0) = Zero /\ Rank(m, a, 0) = 0
<1> SUFFICES ASSUME NEW m, NEW a PROVE LoadBytes(m, a, 0) = Zero /\ Rank(m, a, 0) = 0
  OBVIOUS
<1>1. MappedBelow(m, a, 0) = {}
  BY DEF MappedBelow
<1> QED BY <1>1, FS_EmptySet DEF LoadBytes, Rank, Zero

(* Read holds what LoadBytes defines for the bytes it has passed, also when *)
(* some of them are not mapped.                                            *)
THEOREM ReadKeepsUp == ASSUME Separated PROVE Spec => []ReadSoFar
<1>1. Init => ReadSoFar
  BY DEF Init, ReadSoFar, NoCall, Reads
<1>2. TypeOK /\ WithinReach /\ ReadSoFar /\ [Next]_vars => ReadSoFar'
  <2> SUFFICES ASSUME TypeOK, WithinReach, ReadSoFar, [Next]_vars PROVE ReadSoFar'
    OBVIOUS
  <2>1. ASSUME NEW r, Return(r) PROVE ReadSoFar'
    BY <2>1 DEF Return, NoCall, ReadSoFar, Reads
  <2>2. CASE Begin
    <3>1. ASSUME NEW c, Enter(c) PROVE ReadSoFar'
      BY <3>1, LoadBytesNone DEF Enter, ReadSoFar, Rank
    <3> QED BY <2>2, <2>1, <3>1, BeginCases
  <2>3. ASSUME ReadByte \/ SkipUnmapped
        PROVE  /\ call.op \in Reads /\ i \in Nat /\ i < RegBytes /\ call.addr \in Addr
               /\ cur_addr \in GuestAddrs /\ ~AtEnd(cur_addr) /\ cur_addr = At(call.addr, i)
               /\ shift = Rank(mem, call.addr, i) /\ retval = LoadBytes(mem, call.addr, i)
    <3>1. call.op \in Reads /\ call.op # "none" /\ i < call.len
      BY <2>3 DEF ReadByte, SkipUnmapped, InLoop, Reads
    <3>2. i \in 0..(call.len - 1) /\ call.len \in 1..RegBytes /\ call.addr \in Addr
      BY <3>1 DEF TypeOK, Call
    <3>3. cur_addr \in GuestAddrs
      BY <3>1, <3>2 DEF WithinReach, cur_addr
    <3> QED BY <3>1, <3>2, <3>3, NeverAtEnd DEF ReadSoFar, Rank, cur_addr
  <2>4. CASE ReadByte
    <3>1. /\ mem[cur_addr] # NoByte
          /\ retval' = [retval EXCEPT ![shift] = mem[cur_addr]]
          /\ shift' = shift + 1 /\ i' = i + 1 /\ UNCHANGED <<mem, call>>
      BY <2>3, <2>4 DEF ReadByte, Found
    <3>2. /\ LoadBytes(mem, call.addr, i + 1) =
                 [LoadBytes(mem, call.addr, i) EXCEPT ![Rank(mem, call.addr, i)] = mem[cur_addr]]
          /\ Rank(mem, call.addr, i + 1) = Rank(mem, call.addr, i) + 1
      BY <2>3, <2>4, <3>1, LoadBytesStep
    <3> QED BY <2>3, <2>4, <3>1, <3>2 DEF ReadSoFar, Rank
  <2>5. CASE SkipUnmapped
    <3>1. mem[cur_addr] = NoByte /\ i' = i + 1 /\ UNCHANGED <<mem, call, shift, retval>>
      BY <2>5 DEF SkipUnmapped, Found
    <3>2. /\ LoadBytes(mem, call.addr, i + 1) = LoadBytes(mem, call.addr, i)
          /\ Rank(mem, call.addr, i + 1) = Rank(mem, call.addr, i)
      BY <2>3, <2>5, <3>1, LoadBytesSkip
    <3> QED BY <2>3, <2>5, <3>1, <3>2 DEF ReadSoFar, Rank
  <2>6. CASE StoreByte \/ StoreAtEnd \/ FetchByte
    BY <2>6 DEF StoreByte, StoreAtEnd, FetchByte, InLoop, ReadSoFar, Reads
  <2>7. CASE EndRead \/ EndWrite \/ FetchFault \/ EndFetch
    BY <2>7, <2>1 DEF EndRead, EndWrite, FetchFault, EndFetch
  <2>8. CASE UNCHANGED vars
    BY <2>8 DEF vars, ReadSoFar
  <2> QED BY <2>2, <2>4, <2>5, <2>6, <2>7, <2>8 DEF Next, Progress
<1> QED BY <1>1, <1>2, TypeCorrect, WithinReachInvariant, PTL DEF Spec

-----------------------------------------------------------------------------
(* The loops implement atomic operations.                                  *)

(* A call in progress is one the guest may make, and the process lives.    *)
Request(c) ==
    /\ c \in Call /\ c.addr \in GuestAddrs /\ InReach(c.addr, c.len)
    /\ \/ c.op \in Reads /\ c.len \in Widths
       \/ /\ c.op = "write" /\ c.len \in Widths /\ c.val \in StoreValues
          /\ ~WriteDenied(forbid, c.addr, c.len)
       \/ c.op = "fetch" /\ c.len = FetchBytes /\ c.val = Zero
Pending == call.op # "none" => Request(call) /\ reply.op \notin Exceptions

LEMMA RequestCases ==
    ASSUME Begin
    PROVE  /\ Idle
           /\ \/ \E c \in Call : Request(c) /\ Enter(c)
              \/ \E a \in GuestAddrs, len \in Widths, val \in StoreValues :
                    /\ InReach(a, len) /\ WriteDenied(forbid, a, len)
                    /\ Return([op |-> "no_permission", addr |-> a, len |-> len, val |-> val])
<1> DEFINE Entered == \E c \in Call : Request(c) /\ Enter(c)
           Thrown == \E a \in GuestAddrs, len \in Widths, val \in StoreValues :
                    /\ InReach(a, len) /\ WriteDenied(forbid, a, len)
                    /\ Return([op |-> "no_permission", addr |-> a, len |-> len, val |-> val])
<1>1. ASSUME NEW a \in GuestAddrs, NEW len \in 1..RegBytes, NEW val \in Word, NEW op \in Ops
      PROVE  [op |-> op, addr |-> a, len |-> len, val |-> val] \in Call
  BY DEF Call
<1>2. ASSUME NEW a \in GuestAddrs, NEW len \in Widths, InReach(a, len),
             NEW op \in Reads, BeginRead(op, a, len)
      PROVE  Entered
  <2> DEFINE c == [op |-> op, addr |-> a, len |-> len, val |-> Zero]
  <2>1. c \in Call /\ Enter(c)
    BY <1>1, <1>2, ZeroType DEF Reads, Ops, BeginRead
  <2>2. c.op \in Reads /\ c.addr = a /\ c.len = len
    OBVIOUS
  <2> HIDE DEF c
  <2> QED BY <1>2, <2>1, <2>2 DEF Request
<1>3. ASSUME NEW a \in GuestAddrs, NEW len \in Widths, InReach(a, len),
             NEW val \in StoreValues, BeginWrite(a, len, val)
      PROVE  Entered
  <2> DEFINE c == [op |-> "write", addr |-> a, len |-> len, val |-> val]
  <2>1. c \in Call /\ Enter(c) /\ ~WriteDenied(forbid, a, len)
    BY <1>1, <1>3 DEF Ops, BeginWrite
  <2>2. c.op = "write" /\ c.addr = a /\ c.len = len /\ c.val = val
    OBVIOUS
  <2> HIDE DEF c
  <2> QED BY <1>3, <2>1, <2>2 DEF Request
<1>4. ASSUME NEW a \in GuestAddrs, NEW len \in Widths, InReach(a, len),
             NEW val \in StoreValues, DenyWrite(a, len, val)
      PROVE  Thrown
  BY <1>4 DEF DenyWrite
<1>5. ASSUME NEW a \in GuestAddrs, InReach(a, FetchBytes), BeginFetch(a) PROVE Entered
  <2> DEFINE c == [op |-> "fetch", addr |-> a, len |-> FetchBytes, val |-> Zero]
  <2>0. FetchBytes \in 1..RegBytes /\ "fetch" \in Ops
    BY DEF Ops
  <2>1. c \in Call /\ Enter(c)
    BY <1>1, <1>5, <2>0, ZeroType DEF BeginFetch
  <2>2. c.op = "fetch" /\ c.addr = a /\ c.len = FetchBytes /\ c.val = Zero
    OBVIOUS
  <2> HIDE DEF c
  <2> QED BY <1>5, <2>1, <2>2 DEF Request
<1> HIDE DEF Entered, Thrown
<1>6. Entered \/ Thrown
  BY <1>2, <1>3, <1>4, <1>5 DEF Begin, BeginWriteBare, DenyWriteBare
<1>7. Idle
  BY DEF Begin, BeginRead, BeginWrite, DenyWrite, BeginWriteBare, DenyWriteBare, BeginFetch
<1> QED BY <1>6, <1>7 DEF Entered, Thrown

LEMMA PendingInvariant == Spec => []Pending
<1>1. Init => Pending
  BY DEF Init, Pending, NoCall
<1>2. Pending /\ [Next]_vars => Pending'
  <2> SUFFICES ASSUME Pending, [Next]_vars PROVE Pending'
    OBVIOUS
  <2>1. ASSUME NEW r, Return(r) PROVE Pending'
    BY <2>1 DEF Return, NoCall, Pending
  <2>2. CASE Begin
    <3>1. ASSUME NEW c \in Call, Request(c), Enter(c), Idle PROVE Pending'
      BY <3>1 DEF Enter, Pending, Request, Idle
    <3> QED BY <2>1, <2>2, <3>1, RequestCases
  <2>3. CASE ReadByte \/ SkipUnmapped \/ StoreByte \/ StoreAtEnd \/ FetchByte
    BY <2>3 DEF ReadByte, SkipUnmapped, StoreByte, StoreAtEnd, FetchByte, Pending, Request
  <2>4. CASE EndRead \/ EndWrite \/ FetchFault \/ EndFetch
    BY <2>4, <2>1 DEF EndRead, EndWrite, FetchFault, EndFetch
  <2>5. CASE UNCHANGED vars
    BY <2>5 DEF vars, Pending, Request
  <2> QED BY <2>2, <2>3, <2>4, <2>5 DEF Next, Progress
<1> QED BY <1>1, <1>2, PTL DEF Spec

(* What load_insn has assembled.                                           *)
FetchSoFar ==
    call.op = "fetch" =>
        /\ shift = i
        /\ \A k \in 0..(i - 1) : mem[At(call.addr, k)] # NoByte
        /\ retval = IF i = FetchBytes
                    THEN FetchValue(mem, call.addr)
                    ELSE [k \in Offsets |-> IF k < i THEN mem[At(call.addr, k)] ELSE 0]

LEMMA FetchSoFarInvariant == Spec => []FetchSoFar
<1>1. Init => FetchSoFar
  BY DEF Init, FetchSoFar, NoCall
<1>2. TypeOK /\ Pending /\ FetchSoFar /\ [Next]_vars => FetchSoFar'
  <2> SUFFICES ASSUME TypeOK, Pending, FetchSoFar, [Next]_vars PROVE FetchSoFar'
    OBVIOUS
  <2>1. ASSUME NEW r, Return(r) PROVE FetchSoFar'
    BY <2>1 DEF Return, NoCall, FetchSoFar
  <2>2. CASE Begin
    <3>1. ASSUME NEW c, Enter(c) PROVE FetchSoFar'
      BY <3>1 DEF Enter, FetchSoFar, Zero, Offsets
    <3> QED BY <2>1, <2>2, <3>1, RequestCases
  <2>3. CASE FetchByte
    <3>1. call.op = "fetch" /\ call.len = FetchBytes /\ i < FetchBytes /\ i \in Nat /\ shift = i
          /\ i' = i + 1 /\ shift' = shift + 1 /\ UNCHANGED <<mem, call>>
          /\ mem[At(call.addr, i)] # NoByte
      BY <2>3 DEF FetchByte, InLoop, Pending, Request, FetchSoFar, TypeOK, Reads, cur_addr
    <3> DEFINE w == [k \in Offsets |-> IF k < i THEN mem[At(call.addr, k)] ELSE 0]
               x == [k \in Offsets |-> IF k < i + 1 THEN mem[At(call.addr, k)] ELSE 0]
    <3>2. retval = w /\ i \in Offsets
      BY <3>1 DEF FetchSoFar, Offsets
    <3>3. [w EXCEPT ![i] = mem[At(call.addr, i)]] = x
      BY <3>1, <3>2 DEF Offsets
    <3> HIDE DEF w
    <3>4. retval' = IF i = FetchBytes - 1 THEN SignExtend(x, FetchBytes) ELSE x
      BY <2>3, <3>1, <3>2, <3>3 DEF FetchByte, cur_addr
    <3>5. \A k \in 0..i : mem[At(call.addr, k)] # NoByte
      BY <3>1 DEF FetchSoFar
    <3>6. CASE i = FetchBytes - 1
      BY <3>1, <3>4, <3>5, <3>6 DEF FetchSoFar, FetchValue
    <3>7. CASE i # FetchBytes - 1
      BY <3>1, <3>4, <3>5, <3>7 DEF FetchSoFar
    <3> QED BY <3>6, <3>7
  <2>4. CASE ReadByte \/ SkipUnmapped \/ StoreByte \/ StoreAtEnd
    BY <2>4 DEF ReadByte, SkipUnmapped, StoreByte, StoreAtEnd, InLoop, FetchSoFar, Reads
  <2>5. CASE EndRead \/ EndWrite \/ FetchFault \/ EndFetch
    BY <2>5, <2>1 DEF EndRead, EndWrite, FetchFault, EndFetch
  <2>6. CASE UNCHANGED vars
    BY <2>6 DEF vars, FetchSoFar
  <2> QED BY <2>2, <2>3, <2>4, <2>5, <2>6 DEF Next, Progress
<1> QED BY <1>1, <1>2, TypeCorrect, PendingInvariant, PTL DEF Spec

(* The operators of ByteStore, which extends MemoryOps too, are those of Mmu. *)
LEMMA PromiseOperators ==
    /\ \A a, len : Promise!InReach(a, len) <=> InReach(a, len)
    /\ \A blocks, a, len : Promise!WriteDenied(blocks, a, len) <=> WriteDenied(blocks, a, len)
    /\ \A m, a, len, val : Promise!StoreBytes(m, a, len, val) = StoreFrom(m, a, len, val, 0)
    /\ \A m, a, len, op : Promise!LoadValue(m, a, len, op) = LoadValue(m, a, len, op)
    /\ \A m, a : Promise!FetchFaults(m, a) <=> FetchFaults(m, a)
    /\ \A m, a : Promise!FetchValue(m, a) = FetchValue(m, a)
    /\ Promise!Exceptions = Exceptions /\ Promise!NoCall = NoCall /\ Promise!Zero = Zero
    /\ Promise!Addr = Addr /\ Promise!Byte = Byte
<1>1. /\ \A a, k : Promise!At(a, k) = At(a, k)
      /\ Promise!Addr = Addr /\ Promise!Byte = Byte /\ Promise!Offsets = Offsets
  BY DEF At, Promise!At, Addr, Promise!Addr, Byte, Promise!Byte, Offsets, Promise!Offsets
<1>2. Promise!Zero = Zero
  BY <1>1 DEF Zero, Promise!Zero
<1>3. Promise!Exceptions = Exceptions /\ Promise!NoCall = NoCall
  BY <1>2 DEF Exceptions, Promise!Exceptions, NoCall, Promise!NoCall
<1>4. \A w, len : Promise!SignExtend(w, len) = SignExtend(w, len)
  BY <1>1 DEF SignExtend, Promise!SignExtend
<1>5. \A m, a, k : Promise!MappedBelow(m, a, k) = MappedBelow(m, a, k)
  BY <1>1 DEF MappedBelow, Promise!MappedBelow
<1>6. \A m, a, len : Promise!LoadBytes(m, a, len) = LoadBytes(m, a, len)
  <2>1. \A S : Promise!Cardinality(S) = Cardinality(S)
    BY Zenon DEF Cardinality, Promise!Cardinality
  <2> SUFFICES ASSUME NEW m, NEW a, NEW len
               PROVE  Promise!LoadBytes(m, a, len) = LoadBytes(m, a, len)
    OBVIOUS
  <2> QED BY Zenon, <1>1, <1>5, <2>1 DEF LoadBytes, Promise!LoadBytes
<1>7. \A m, a, len, op : Promise!LoadValue(m, a, len, op) = LoadValue(m, a, len, op)
  BY <1>4, <1>6 DEF LoadValue, Promise!LoadValue
<1>8. \A a, len : Promise!InReach(a, len) <=> InReach(a, len)
  BY <1>1 DEF InReach, Touched, Promise!InReach, Promise!Touched
<1>9. \A blocks, a, len : Promise!WriteDenied(blocks, a, len) <=> WriteDenied(blocks, a, len)
  BY <1>1 DEF WriteDenied, ban, Promise!WriteDenied, Promise!ban
<1>10. \A m, a, len, val : Promise!StoreBytes(m, a, len, val) = StoreFrom(m, a, len, val, 0)
  <2> SUFFICES ASSUME NEW m, NEW a, NEW len, NEW val
               PROVE  Promise!StoreBytes(m, a, len, val) = StoreFrom(m, a, len, val, 0)
    OBVIOUS
  <2> QED BY Zenon, <1>1 DEF StoreFrom, Promise!StoreBytes, Promise!StoreFrom
<1>11. /\ \A m, a : Promise!FetchFaults(m, a) <=> FetchFaults(m, a)
       /\ \A m, a : Promise!FetchValue(m, a) = FetchValue(m, a)
  BY <1>1, <1>4 DEF FetchFaults, FetchValue, Promise!FetchFaults, Promise!FetchValue
<1> QED BY <1>1, <1>2, <1>3, <1>7, <1>8, <1>9, <1>10, <1>11

(* Memory after byte k of a store.                                         *)
AfterByte(m, a, k, val) == [m EXCEPT ![At(a, k)] = val[k]]

(* The bytes that a store has written need no longer be laid over mem.     *)
LEMMA StoreFromStep ==
    \A m \in MemMap, a \in Addr, len \in 1..RegBytes, val \in Word :
        \A k \in 0..(len - 1) :
            StoreFrom(AfterByte(m, a, k, val), a, len, val, k + 1) = StoreFrom(m, a, len, val, k)
<1> SUFFICES ASSUME NEW m \in MemMap, NEW a \in Addr, NEW len \in 1..RegBytes,
                    NEW val \in Word, NEW k \in 0..(len - 1)
             PROVE  StoreFrom([m EXCEPT ![At(a, k)] = val[k]], a, len, val, k + 1)
                        = StoreFrom(m, a, len, val, k)
  BY DEF AfterByte
<1> DEFINE n == [m EXCEPT ![At(a, k)] = val[k]]
<1>1. k \in Offsets /\ At(a, k) \in Addr
  BY AtType DEF Offsets
<1>2. ASSUME NEW b \in Addr
      PROVE  StoreFrom(n, a, len, val, k + 1)[b] = StoreFrom(m, a, len, val, k)[b]
  <2> DEFINE c(from) == CHOOSE j \in from..(len - 1) : At(a, j) = b
  <2>1. ASSUME NEW mm, NEW from
        PROVE  StoreFrom(mm, a, len, val, from)[b] =
                   IF \E j \in from..(len - 1) : At(a, j) = b THEN val[c(from)] ELSE mm[b]
    BY DEF StoreFrom
  <2>2. ASSUME NEW from \in 0..RegBytes, NEW j \in from..(len - 1), At(a, j) = b
        PROVE  c(from) = j
    <3>1. c(from) \in from..(len - 1) /\ At(a, c(from)) = b
      BY <2>2
    <3> HIDE DEF c
    <3> QED BY <2>2, <3>1, AtInjective DEF Offsets
  <2> HIDE DEF c
  <2>3. CASE \E j \in (k + 1)..(len - 1) : At(a, j) = b
    <3>1. PICK j \in (k + 1)..(len - 1) : At(a, j) = b
      BY <2>3
    <3>2. j \in k..(len - 1) /\ k \in 0..RegBytes /\ k + 1 \in 0..RegBytes
      OBVIOUS
    <3> QED BY <2>1, <2>2, <3>1, <3>2
  <2>4. CASE b = At(a, k)
    <3>1. k \in k..(len - 1) /\ k \in 0..RegBytes
      OBVIOUS
    <3>2. StoreFrom(m, a, len, val, k)[b] = val[k]
      BY <2>1, <2>2, <2>4, <3>1
    <3>3. \A j \in (k + 1)..(len - 1) : At(a, j) # b
      BY <1>1, <2>4, AtInjective DEF Offsets
    <3>4. n[b] = val[k]
      BY <2>4 DEF MemMap
    <3> QED BY <2>1, <3>2, <3>3, <3>4
  <2>5. CASE b # At(a, k) /\ \A j \in (k + 1)..(len - 1) : At(a, j) # b
    <3>1. \A j \in k..(len - 1) : At(a, j) # b
      BY <2>5
    <3>2. n[b] = m[b]
      BY <2>5 DEF MemMap
    <3> QED BY <2>1, <2>5, <3>1, <3>2
  <2> QED BY <2>3, <2>4, <2>5
<1> QED BY <1>2 DEF StoreFrom

LEMMA StoreFromEnd ==
    ASSUME NEW m \in MemMap, NEW a, NEW len \in Nat, NEW val
    PROVE  StoreFrom(m, a, len, val, len) = m
BY DEF StoreFrom, MemMap

(* Every step of the loops is a step of ByteStore, or none.                *)
PromiseInv ==
    TypeOK /\ WithinReach /\ ReadSoFar /\ Pending /\ FetchSoFar

LEMMA EntryImplements ==
    ASSUME PromiseInv, NEW c \in Call, Request(c), Enter(c), Idle
    PROVE  Promise!SNext \/ UNCHANGED <<storeOf, forbid, replyOf>>
<1>1. storeOf = mem /\ replyOf = reply /\ call' = c /\ i' = 0 /\ UNCHANGED <<mem, forbid, reply>>
  BY DEF Idle, Enter, storeOf, replyOf
<1>2. CASE c.op # "write"
  BY <1>1, <1>2 DEF storeOf, replyOf
<1>3. CASE c.op = "write"
  <2>1. /\ storeOf' = StoreFrom(mem, c.addr, c.len, c.val, 0)
        /\ replyOf' = c
    BY <1>1, <1>3 DEF storeOf, replyOf
  <2>2. c = [op |-> "write", addr |-> c.addr, len |-> c.len, val |-> c.val]
    BY <1>3 DEF Call
  <2>3. /\ c.addr \in GuestAddrs /\ c.len \in Widths /\ c.val \in StoreValues
        /\ InReach(c.addr, c.len) /\ ~WriteDenied(forbid, c.addr, c.len)
    BY <1>3 DEF Request, Reads
  <2>4. Promise!Running
    BY <1>1, PromiseOperators DEF Idle, Promise!Running
  <2>5. Promise!Store(c.addr, c.len, c.val)
    BY <1>1, <2>1, <2>2, <2>3, <2>4, PromiseOperators DEF Promise!Store
  <2> QED BY <2>3, <2>5, PromiseOperators DEF Promise!SNext
<1> QED BY <1>2, <1>3

LEMMA DenialImplements ==
    ASSUME Idle, NEW a \in GuestAddrs, NEW len \in Widths, NEW val \in StoreValues,
           InReach(a, len), WriteDenied(forbid, a, len),
           Return([op |-> "no_permission", addr |-> a, len |-> len, val |-> val])
    PROVE  Promise!SNext
<1>1. /\ storeOf = mem /\ storeOf' = mem /\ forbid' = forbid /\ replyOf = reply
      /\ replyOf' = [op |-> "no_permission", addr |-> a, len |-> len, val |-> val]
  BY DEF Idle, Return, NoCall, storeOf, replyOf
<1>2. Promise!Running
  BY <1>1, PromiseOperators DEF Idle, Promise!Running
<1>3. Promise!Refuse(a, len, val)
  BY <1>1, <1>2, PromiseOperators DEF Promise!Refuse
<1> QED BY <1>3, PromiseOperators DEF Promise!SNext

LEMMA LoadImplements ==
    ASSUME PromiseInv, EndRead
    PROVE  Promise!SNext
<1> DEFINE a == call.addr  len == call.len  op == call.op
<1>1. Request(call) /\ op \in Reads /\ i = len /\ call \in Call /\ reply.op \notin Exceptions
  BY DEF PromiseInv, TypeOK, EndRead, Pending, Reads
<1>2. /\ a \in GuestAddrs /\ len \in Widths /\ InReach(a, len)
      /\ retval = LoadBytes(mem, a, len)
  BY <1>1 DEF PromiseInv, Request, ReadSoFar, Reads
<1>3. storeOf = mem /\ storeOf' = mem /\ forbid' = forbid /\ replyOf = reply
  BY <1>1 DEF EndRead, Return, NoCall, storeOf, replyOf, Reads
<1>4. replyOf' = [op |-> op, addr |-> a, len |-> len, val |-> LoadValue(mem, a, len, op)]
  <2>1. replyOf' = [call EXCEPT !.val = LoadValue(mem, a, len, op)]
    BY <1>1, <1>2 DEF EndRead, Return, NoCall, replyOf, LoadValue
  <2> QED BY <1>1, <2>1 DEF Call
<1>5. Promise!Running
  BY <1>1, <1>3, PromiseOperators DEF Promise!Running
<1>6. Promise!Load(op, a, len)
  BY <1>3, <1>4, <1>5, PromiseOperators DEF Promise!Load
<1> QED BY <1>1, <1>2, <1>6, PromiseOperators DEF Promise!SNext, Reads

LEMMA FetchImplements ==
    ASSUME PromiseInv, EndFetch \/ FetchFault
    PROVE  Promise!SNext
<1> DEFINE a == call.addr
<1>1. Request(call) /\ call.op = "fetch" /\ call \in Call /\ reply.op \notin Exceptions
  BY DEF PromiseInv, TypeOK, EndFetch, FetchFault, InLoop, Pending
<1>2. a \in GuestAddrs /\ InReach(a, FetchBytes) /\ call.len = FetchBytes /\ call.val = Zero
  BY <1>1 DEF Request, Reads
<1>3. storeOf = mem /\ storeOf' = mem /\ forbid' = forbid /\ replyOf = reply
  BY <1>1 DEF EndFetch, FetchFault, Return, NoCall, storeOf, replyOf
<1>4. Promise!Running
  BY <1>1, <1>3, PromiseOperators DEF Promise!Running
<1>5. CASE EndFetch
  <2>1. i = FetchBytes
    BY <1>2, <1>5 DEF EndFetch
  <2>2. ~FetchFaults(mem, a) /\ retval = FetchValue(mem, a)
    BY <1>1, <2>1 DEF PromiseInv, FetchSoFar, FetchFaults
  <2>3. replyOf' = [op |-> "fetch", addr |-> a, len |-> FetchBytes, val |-> FetchValue(mem, a)]
    <3>1. replyOf' = [call EXCEPT !.val = FetchValue(mem, a)]
      BY <1>5, <2>2 DEF EndFetch, Return, NoCall, replyOf
    <3> QED BY <1>1, <1>2, <3>1 DEF Call
  <2>4. Promise!Fetch(a)
    BY <1>3, <1>4, <2>2, <2>3, PromiseOperators DEF Promise!Fetch
  <2> QED BY <1>2, <2>4, PromiseOperators DEF Promise!SNext
<1>6. CASE FetchFault
  <2>1. FetchFaults(mem, a)
    <3>1. i \in 0..(FetchBytes - 1) /\ mem[At(a, i)] = NoByte
      BY <1>2, <1>6 DEF FetchFault, InLoop, cur_addr, PromiseInv, TypeOK
    <3> QED BY <3>1 DEF FetchFaults
  <2>2. replyOf' = [op |-> "invalid_address", addr |-> a, len |-> FetchBytes, val |-> Zero]
    <3>1. replyOf' = [call EXCEPT !.op = "invalid_address"]
      BY <1>6 DEF FetchFault, Return, NoCall, replyOf
    <3> QED BY <1>1, <1>2, <3>1 DEF Call
  <2>3. Promise!Fault(a)
    BY <1>3, <1>4, <2>1, <2>2, PromiseOperators DEF Promise!Fault
  <2> QED BY <1>2, <2>3, PromiseOperators DEF Promise!SNext
<1> QED BY <1>5, <1>6

(* The iterations change nothing that ByteStore shows.                     *)
LEMMA LoopsHide ==
    ASSUME Separated, PromiseInv,
           ReadByte \/ SkipUnmapped \/ StoreByte \/ StoreAtEnd \/ FetchByte \/ EndWrite
    PROVE  UNCHANGED <<storeOf, forbid, replyOf>>
<1>1. CASE ReadByte \/ SkipUnmapped \/ FetchByte
  BY <1>1 DEF ReadByte, SkipUnmapped, FetchByte, InLoop, Reads, storeOf, replyOf
<1>2. ASSUME call.op = "write"
      PROVE  /\ mem \in MemMap /\ call.addr \in Addr /\ call.len \in 1..RegBytes
             /\ call.val \in Word
  BY DEF PromiseInv, TypeOK, Call
<1>3. CASE StoreByte
  <2>1. /\ call.op = "write" /\ i \in 0..(call.len - 1) /\ i' = i + 1
        /\ mem' = [mem EXCEPT ![At(call.addr, i)] = call.val[i]]
        /\ UNCHANGED <<call, forbid, reply>>
    BY <1>2, <1>3 DEF StoreByte, InLoop, cur_addr, PromiseInv, TypeOK
  <2>2. StoreFrom(mem', call.addr, call.len, call.val, i + 1)
            = StoreFrom(mem, call.addr, call.len, call.val, i)
    <3>1. /\ mem \in MemMap /\ call.addr \in Addr /\ call.len \in 1..RegBytes
          /\ call.val \in Word /\ i \in 0..(call.len - 1)
      BY <1>2, <2>1
    <3>2. mem' = AfterByte(mem, call.addr, i, call.val)
      BY <2>1 DEF AfterByte
    <3> QED BY <3>1, <3>2, StoreFromStep
  <2> QED BY <2>1, <2>2 DEF storeOf, replyOf
<1>4. CASE StoreAtEnd
  <2>1. cur_addr \in GuestAddrs /\ AtEnd(cur_addr)
    BY <1>4 DEF StoreAtEnd, InLoop, PromiseInv, WithinReach, TypeOK, Call, cur_addr
  <2> QED BY <2>1, NeverAtEnd DEF PromiseInv
<1>5. CASE EndWrite
  <2>1. StoreFrom(mem, call.addr, call.len, call.val, i) = mem
    BY <1>2, <1>5, StoreFromEnd DEF EndWrite
  <2> QED BY <1>5, <2>1 DEF EndWrite, Return, NoCall, storeOf, replyOf
<1> QED BY <1>1, <1>3, <1>4, <1>5

(* The loops of mmu_t, whatever the image, the blocks and the requests,    *)
(* implement a store of bytes with atomic loads, stores and fetches, where  *)
(* the guest keeps clear of mem.size().                                     *)
THEOREM LoopsImplementStore == ASSUME Separated PROVE Spec => ImplementsByteStore
<1>1. Init => Promise!SInit
  BY PromiseOperators DEF Init, NoCall, storeOf, replyOf, Promise!SInit
<1>2. PromiseInv /\ [Next]_vars => [Promise!SNext]_(Promise!svars)
  <2> SUFFICES ASSUME PromiseInv, [Next]_vars
               PROVE  Promise!SNext \/ UNCHANGED <<storeOf, forbid, replyOf>>
    BY DEF Promise!svars
  <2>1. CASE Begin
    BY <2>1, RequestCases, EntryImplements, DenialImplements
  <2>2. CASE EndRead \/ FetchFault \/ EndFetch
    BY <2>2, LoadImplements, FetchImplements
  <2>3. CASE ReadByte \/ SkipUnmapped \/ StoreByte \/ StoreAtEnd \/ FetchByte \/ EndWrite
    BY <2>3, LoopsHide
  <2>4. CASE UNCHANGED vars
    BY <2>4 DEF vars, storeOf, replyOf
  <2> QED BY <2>1, <2>2, <2>3, <2>4 DEF Next, Progress
<1>3. Spec => []PromiseInv
  BY TypeCorrect, WithinReachInvariant, ReadKeepsUp, PendingInvariant, FetchSoFarInvariant, PTL
     DEF PromiseInv
<1> QED BY <1>1, <1>2, <1>3, PTL DEF Spec, ImplementsByteStore, Promise!SSpec

-----------------------------------------------------------------------------
(* Loads after stores.                                                     *)

(* Between calls, and in the loops of loads and fetches, the bytes of the   *)
(* last store are in memory.                                               *)
LastStoreKept ==
    reply.op = "write" /\ call.op # "write" =>
        \A k \in 0..(reply.len - 1) : mem[At(reply.addr, k)] = reply.val[k]

LEMMA LastStoreInvariant == ASSUME Separated PROVE Spec => []LastStoreKept
<1>1. Init => LastStoreKept
  BY DEF Init, LastStoreKept, NoCall
<1>2. TypeOK /\ StoredBytesPresent /\ LastStoreKept /\ [Next]_vars => LastStoreKept'
  <2> SUFFICES ASSUME TypeOK, StoredBytesPresent, LastStoreKept, [Next]_vars PROVE LastStoreKept'
    OBVIOUS
  <2> USE DEF LastStoreKept
  <2>1. ASSUME NEW r, Return(r), r.op # "write" PROVE LastStoreKept'
    BY <2>1 DEF Return
  <2>2. CASE Begin
    <3>1. ASSUME NEW c, Enter(c), Idle PROVE LastStoreKept'
      BY <3>1 DEF Enter, Idle
    <3> QED BY <2>1, <2>2, <3>1, RequestCases
  <2>3. CASE ReadByte \/ SkipUnmapped \/ FetchByte
    BY <2>3 DEF ReadByte, SkipUnmapped, FetchByte
  <2>4. CASE StoreByte \/ StoreAtEnd
    BY <2>4 DEF StoreByte, StoreAtEnd, InLoop
  <2>5. CASE EndWrite
    BY <2>5 DEF EndWrite, Return, StoredBytesPresent
  <2>6. CASE EndRead
    BY <2>6, <2>1 DEF EndRead, Return, Reads
  <2>7. CASE FetchFault \/ EndFetch
    BY <2>7, <2>1 DEF FetchFault, EndFetch, InLoop, TypeOK, Call
  <2>8. CASE UNCHANGED vars
    BY <2>8 DEF vars
  <2> QED BY <2>2, <2>3, <2>4, <2>5, <2>6, <2>7, <2>8 DEF Next, Progress
<1> QED BY <1>1, <1>2, TypeCorrect, StoresArrive, PTL DEF Spec

(* A range whose bytes are all mapped is read byte for byte.               *)
LEMMA LoadBytesWhole ==
    ASSUME NEW m, NEW a, NEW len \in 1..RegBytes,
           \A k \in 0..(len - 1) : m[At(a, k)] # NoByte, NEW k \in 0..(len - 1)
    PROVE  LoadBytes(m, a, len)[k] = m[At(a, k)]
<1>1. MappedBelow(m, a, k) = 0..(k - 1) /\ k \in MappedBelow(m, a, len) /\ k \in Offsets
  BY DEF MappedBelow, Offsets
<1>2. Rank(m, a, k) = k
  BY <1>1, FS_Interval DEF Rank
<1> QED BY <1>1, <1>2, LoadBytesAt

(* A load of the range last stored gives back what was stored.             *)
THEOREM LoadsSeeStores == ASSUME Separated PROVE Spec => LoadSeesStore
<1> DEFINE Again == /\ reply.op = "write" /\ reply'.op = "read_uint"
                    /\ reply'.addr = reply.addr /\ reply'.len = reply.len
           Same == Again => \A k \in 0..(reply.len - 1) : reply'.val[k] = reply.val[k]
<1>1. TypeOK /\ ReadSoFar /\ LastStoreKept /\ [Next]_vars => [Same]_vars
  <2> SUFFICES ASSUME TypeOK, ReadSoFar, LastStoreKept, [Next]_vars, Again,
                      NEW k \in 0..(reply.len - 1)
               PROVE  reply'.val[k] = reply.val[k]
    OBVIOUS
  <2>1. EndRead
    <3>1. ~Begin
      BY RequestCases DEF Enter, Return
    <3>2. ~(ReadByte \/ SkipUnmapped \/ StoreByte \/ StoreAtEnd \/ FetchByte)
      BY DEF ReadByte, SkipUnmapped, StoreByte, StoreAtEnd, FetchByte
    <3>3. ~(EndWrite \/ FetchFault \/ EndFetch)
      BY DEF EndWrite, FetchFault, EndFetch, InLoop, Return, TypeOK, Call
    <3> QED BY <3>1, <3>2, <3>3 DEF Next, Progress, vars
  <2>2. /\ reply' = [call EXCEPT !.val = retval] /\ call.op = "read_uint"
        /\ call.addr = reply.addr /\ call.len = reply.len /\ i = call.len
    <3>1. call \in Call /\ call.op \in Reads /\ i = call.len
      BY <2>1 DEF EndRead, TypeOK
    <3>2. reply' = [call EXCEPT !.val = IF call.op = "read_int"
                                          THEN SignExtend(retval, call.len) ELSE retval]
      BY <2>1 DEF EndRead, Return
    <3> QED BY <3>1, <3>2 DEF Call, Reads
  <2>3. retval = LoadBytes(mem, reply.addr, reply.len)
    BY <2>2 DEF ReadSoFar, Reads
  <2>4. reply.val \in Word /\ reply.len \in 1..RegBytes
    BY DEF TypeOK, Call
  <2>5. \A j \in 0..(reply.len - 1) :
           mem[At(reply.addr, j)] = reply.val[j] /\ mem[At(reply.addr, j)] # NoByte
    BY <2>2, <2>4 DEF LastStoreKept, Word, Offsets, Byte
  <2>6. retval[k] = reply.val[k]
    <3>1. LoadBytes(mem, reply.addr, reply.len)[k] = mem[At(reply.addr, k)]
      BY <2>4, <2>5, LoadBytesWhole
    <3> QED BY <2>3, <2>5, <3>1
  <2>7. reply'.val = retval
    BY <2>2 DEF TypeOK, Call
  <2> QED BY <2>6, <2>7
<1> QED BY <1>1, TypeCorrect, ReadKeepsUp, LastStoreInvariant, PTL DEF Spec, LoadSeesStore
=============================================================================
