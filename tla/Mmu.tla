--------------------------------- MODULE Mmu ---------------------------------
(***************************************************************************)
(* mmu_t (mmu.h, mmu.cpp): the byte loops of read, write, write_bare and   *)
(* load_insn over the std::map mem, one step per iteration.                 *)
(*                                                                         *)
(* The look-up of the first three loops is                                  *)
(*     iter != mem.end() || iter->first == cur_addr                         *)
(* which dereferences end() for an absent address.  In the build the        *)
(* Makefile makes (GNU libstdc++) the place of end()->first is the node     *)
(* count of the map and end()->second is the uninitialised byte after it.   *)
(* So an absent address equal to mem.size() is found, and names that byte,  *)
(* here endByte.                                                            *)
(***************************************************************************)
EXTENDS MemoryOps

CONSTANTS ImageAddrs, ForbidChoices, StoreValues, GuestAddrs

VARIABLES
    mem,       \* mmu_t::mem
    endByte,   \* the byte at end()->second
    forbid,    \* mmu_t::forbid, a set of pairs <<first, second>>
    call,      \* the call in progress, or NoCall
    i, shift,  \* the locals of the loops; shift counts bytes here, bits there
    retval,    \* the local retval of read and load_insn
    reply      \* the last call that returned or threw

vars == <<mem, endByte, forbid, call, i, shift, retval, reply>>
locals == <<i, shift, retval>>

ASSUME GuestAssumption ==
    /\ ImageAddrs \subseteq Addr
    /\ GuestAddrs \subseteq Addr
    /\ StoreValues \subseteq Word
    /\ ForbidChoices \subseteq SUBSET (Addr \X Addr)

(* The guest's requests: whole ranges of addresses that it uses.          *)
InReach(a, len) == Touched(a, len) \subseteq GuestAddrs

cur_addr == At(call.addr, i)

(* iter != mem.end() || iter->first == cur_addr                            *)
AtEnd(a) == mem[a] = NoByte /\ a = Cardinality(Mapped(mem))
Found(a) == mem[a] # NoByte \/ AtEnd(a)

Init ==
    /\ \E image \in [ImageAddrs -> Byte] :
          mem = [a \in Addr |-> IF a \in ImageAddrs THEN image[a] ELSE NoByte]
    /\ endByte \in Byte
    /\ forbid \in ForbidChoices
    /\ call = NoCall /\ reply = NoCall
    /\ i = 0 /\ shift = 0 /\ retval = Zero

(***************************************************************************)
(* Calls.  An exception thrown earlier ended the process.                   *)
(***************************************************************************)
Idle == call.op = "none" /\ reply.op \notin Exceptions

Enter(c) ==
    /\ call' = c
    /\ i' = 0 /\ shift' = 0 /\ retval' = Zero
    /\ UNCHANGED <<mem, endByte, forbid, reply>>

Return(r) ==
    /\ reply' = r
    /\ call' = NoCall
    /\ i' = 0 /\ shift' = 0 /\ retval' = Zero
    /\ UNCHANGED <<mem, endByte, forbid>>

(* read, through read_int<len> and read_uint<len>.                         *)
BeginRead(op, a, len) ==
    /\ Idle
    /\ Enter([op |-> op, addr |-> a, len |-> len, val |-> Zero])

(* write, through write_<len>: the permission test, then the loop.         *)
BeginWrite(a, len, val) ==
    /\ Idle
    /\ ~WriteDenied(forbid, a, len)
    /\ Enter([op |-> "write", addr |-> a, len |-> len, val |-> val])

DenyWrite(a, len, val) ==
    /\ Idle
    /\ WriteDenied(forbid, a, len)
    /\ Return([op |-> "no_permission", addr |-> a, len |-> len, val |-> val])

(* write_bare takes its bytes from host memory.  Its loop is that of write *)
(* and its callers pass eight bytes.                                       *)
BeginWriteBare(a, chars) == BeginWrite(a, RegBytes, chars)
DenyWriteBare(a, chars) == DenyWrite(a, RegBytes, chars)

(* load_insn                                                               *)
BeginFetch(a) ==
    /\ Idle
    /\ Enter([op |-> "fetch", addr |-> a, len |-> FetchBytes, val |-> Zero])

(***************************************************************************)
(* The loop of read.                                                        *)
(***************************************************************************)
InLoop_Inclusive(ops) == call.op \in ops /\ i <= call.len
InLoop(ops) == call.op \in ops /\ i < call.len
Reads == {"read_int", "read_uint"}

ReadByte ==
    /\ InLoop(Reads)
    /\ Found(cur_addr)
    /\ retval' = [retval EXCEPT ![shift] =
                    IF AtEnd(cur_addr) THEN endByte ELSE mem[cur_addr]]
    /\ shift' = shift + 1
    /\ i' = i + 1
    /\ UNCHANGED <<mem, endByte, forbid, call, reply>>

SkipUnmapped_NoAdvance ==
    /\ InLoop(Reads)
    /\ ~Found(cur_addr)
    /\ UNCHANGED vars

(* continue: shift stays behind.                                           *)
SkipUnmapped ==
    /\ InLoop(Reads)
    /\ ~Found(cur_addr)
    /\ i' = i + 1
    /\ UNCHANGED <<mem, endByte, forbid, call, shift, retval, reply>>

EndRead_SignSwapped ==
    /\ call.op \in Reads /\ i = call.len
    /\ Return([call EXCEPT !.val = IF call.op = "read_int"
                                   THEN retval
                                   ELSE SignExtend(retval, call.len)])

EndRead ==
    /\ call.op \in Reads /\ i = call.len
    /\ Return([call EXCEPT !.val = IF call.op = "read_int"
                                   THEN SignExtend(retval, call.len)
                                   ELSE retval])

(***************************************************************************)
(* The loop of write and write_bare.                                        *)
(***************************************************************************)
StoreByte_InsertOnly ==
    /\ InLoop({"write"})
    /\ ~AtEnd(cur_addr)
    /\ mem' = Insert(mem, cur_addr, call.val[i])
    /\ i' = i + 1
    /\ UNCHANGED <<endByte, forbid, call, shift, retval, reply>>

StoreByte_NoShift ==
    /\ InLoop({"write"})
    /\ ~AtEnd(cur_addr)
    /\ mem' = [mem EXCEPT ![cur_addr] = call.val[0]]
    /\ i' = i + 1
    /\ UNCHANGED <<endByte, forbid, call, shift, retval, reply>>

(* The byte is found in the map, or inserted.                              *)
StoreByte ==
    /\ InLoop({"write"})
    /\ ~AtEnd(cur_addr)
    /\ mem' = [mem EXCEPT ![cur_addr] = call.val[i]]
    /\ i' = i + 1
    /\ UNCHANGED <<endByte, forbid, call, shift, retval, reply>>

(* The byte is "found" at end(): nothing is inserted.                      *)
StoreAtEnd ==
    /\ InLoop({"write"})
    /\ AtEnd(cur_addr)
    /\ endByte' = call.val[i]
    /\ i' = i + 1
    /\ UNCHANGED <<mem, forbid, call, shift, retval, reply>>

EndWrite ==
    /\ call.op = "write" /\ i = call.len
    /\ Return(call)

(***************************************************************************)
(* The loop of load_insn, whose look-up does not touch end().               *)
(***************************************************************************)
FetchByte ==
    /\ InLoop({"fetch"})
    /\ mem[cur_addr] # NoByte
    /\ LET word == [retval EXCEPT ![shift] = mem[cur_addr]]
       IN  retval' = IF shift = FetchBytes - 1 THEN SignExtend(word, FetchBytes)
                                               ELSE word
    /\ shift' = shift + 1
    /\ i' = i + 1
    /\ UNCHANGED <<mem, endByte, forbid, call, reply>>

FetchFault ==
    /\ InLoop({"fetch"})
    /\ mem[cur_addr] = NoByte
    /\ Return([call EXCEPT !.op = "invalid_address"])

EndFetch ==
    /\ call.op = "fetch" /\ i = call.len
    /\ Return([call EXCEPT !.val = retval])

Begin ==
    \E a \in GuestAddrs :
        \/ \E len \in Widths :
              /\ InReach(a, len)
              /\ \/ \E op \in Reads : BeginRead(op, a, len)
                 \/ \E val \in StoreValues : BeginWrite(a, len, val)
                 \/ \E val \in StoreValues : DenyWrite(a, len, val)
        \/ /\ InReach(a, RegBytes)
           /\ \E chars \in StoreValues : BeginWriteBare(a, chars) \/ DenyWriteBare(a, chars)
        \/ InReach(a, FetchBytes) /\ BeginFetch(a)

Progress ==
    \/ ReadByte \/ SkipUnmapped \/ EndRead
    \/ StoreByte \/ StoreAtEnd \/ EndWrite
    \/ FetchByte \/ FetchFault \/ EndFetch

Next == Begin \/ Progress
Spec == Init /\ [][Next]_vars

(* The simulator is one thread that nothing preempts: a loop goes on.      *)
FairSpec == Spec /\ WF_vars(Progress)

(***************************************************************************)
(* The refinement of ByteStore.  A store takes effect when its loop starts: *)
(* the bytes that it has not reached yet are laid over mem.                 *)
(***************************************************************************)
storeOf == IF call.op = "write"
           THEN StoreFrom(mem, call.addr, call.len, call.val, i)
           ELSE mem
replyOf == IF call.op = "write" THEN call ELSE reply

Promise == INSTANCE ByteStore WITH store <- storeOf, blocks <- forbid,
                                   reply <- replyOf

(***************************************************************************)
(* Properties.                                                              *)
(***************************************************************************)
(* Every variable keeps its type, and the loop indices stay in range.      *)
TypeOK ==
    /\ mem \in MemMap
    /\ endByte \in Byte
    /\ forbid \in ForbidChoices
    /\ call \in Call /\ call.op \in Ops
    /\ reply \in Call
    /\ i \in 0..call.len /\ shift \in 0..i
    /\ retval \in Word

(* The addresses of the guest never meet mem.size(): each one is below the *)
(* number of bytes of the image, or above the number that can ever be       *)
(* mapped.  Where it fails, a look-up can hit end().                        *)
Separated ==
    \A a \in GuestAddrs :
        \/ a < Cardinality(ImageAddrs)
        \/ a > Cardinality(ImageAddrs \cup GuestAddrs)

(* While write runs, each byte it has passed is in the map and has the      *)
(* value stored, as the debug line of the loop takes for granted when it    *)
(* prints mem.find(cur_addr)->second (mmu.cpp:301).                         *)
StoredBytesPresent ==
    call.op = "write" =>
        \A k \in 0..(i - 1) : mem[At(call.addr, k)] = call.val[k]

(* After i iterations, read holds what LoadBytes defines for i bytes, and  *)
(* shift counts the mapped ones among them.                                 *)
ReadSoFar ==
    call.op \in Reads =>
        /\ shift = Cardinality(MappedBelow(mem, call.addr, i))
        /\ retval = LoadBytes(mem, call.addr, i)

(* mmu_t's loops implement the store of bytes with atomic operations.      *)
ImplementsByteStore == Promise!SSpec

(* A load that directly follows a store of the same range returns the bytes *)
(* stored.                                                                  *)
LoadSeesStore ==
    [][ (/\ reply.op = "write" /\ reply'.op = "read_uint"
         /\ reply'.addr = reply.addr /\ reply'.len = reply.len) =>
        \A k \in 0..(reply.len - 1) : reply'.val[k] = reply.val[k] ]_vars

(* No store changes a byte of a forbidden block, "[a,b] is forbidden block" *)
(* (mmu.h:82), of which the guest has "no right to write" (mmu.h:110).      *)
BlockUnchanged(b) == \A a \in Block(b) : mem'[a] = mem[a]
BlocksImmutable == [][\A b \in forbid : BlockUnchanged(b)]_vars

(* Because write looks up only the two ends of a store, the code keeps that *)
(* for the blocks a store cannot reach around: those of RegBytes - 1 bytes  *)
(* or more.                                                                 *)
WideBlocksImmutable == [][\A b \in forbid : Wide(b) => BlockUnchanged(b)]_vars

(* Every call returns or throws.                                           *)
EveryCallReturns == (call.op # "none") ~> (call.op = "none")
=============================================================================
