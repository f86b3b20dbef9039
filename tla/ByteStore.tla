------------------------------ MODULE ByteStore ------------------------------
(***************************************************************************)
(* What mmu_t promises to the instructions: a store of bytes in which every *)
(* load, store and instruction fetch happens in one step.  The loops over   *)
(* bytes of mmu.cpp, and their look-ups, are hidden; module Mmu has them    *)
(* and is checked to implement this module.                                 *)
(***************************************************************************)
EXTENDS MemoryOps

CONSTANTS
    ImageAddrs,     \* the addresses the loader mapped
    ForbidChoices,  \* the values forbid may have after loading
    StoreValues,    \* the register values that are stored
    GuestAddrs      \* the addresses the guest reads, writes and fetches from

VARIABLES
    store,    \* the bytes
    blocks,   \* the forbidden blocks
    reply     \* the last operation that returned or threw, and its value

svars == <<store, blocks, reply>>

(* The requests the guest makes: whole ranges of addresses that it uses.   *)
InReach(a, len) == Touched(a, len) \subseteq GuestAddrs

(* No exception is caught: after one the process is gone.                  *)
Running == reply.op \notin Exceptions

SInit ==
    /\ \E image \in [ImageAddrs -> Byte] :
          store = [a \in Addr |-> IF a \in ImageAddrs THEN image[a] ELSE NoByte]
    /\ blocks \in ForbidChoices
    /\ reply = NoCall

Load(op, a, len) ==
    /\ Running
    /\ reply' = [op |-> op, addr |-> a, len |-> len,
                 val |-> LoadValue(store, a, len, op)]
    /\ UNCHANGED <<store, blocks>>

Store(a, len, val) ==
    /\ Running
    /\ ~WriteDenied(blocks, a, len)
    /\ store' = StoreBytes(store, a, len, val)
    /\ reply' = [op |-> "write", addr |-> a, len |-> len, val |-> val]
    /\ UNCHANGED blocks

Refuse(a, len, val) ==
    /\ Running
    /\ WriteDenied(blocks, a, len)
    /\ reply' = [op |-> "no_permission", addr |-> a, len |-> len, val |-> val]
    /\ UNCHANGED <<store, blocks>>

Fetch(a) ==
    /\ Running
    /\ ~FetchFaults(store, a)
    /\ reply' = [op |-> "fetch", addr |-> a, len |-> FetchBytes,
                 val |-> FetchValue(store, a)]
    /\ UNCHANGED <<store, blocks>>

Fault(a) ==
    /\ Running
    /\ FetchFaults(store, a)
    /\ reply' = [op |-> "invalid_address", addr |-> a, len |-> FetchBytes,
                 val |-> Zero]
    /\ UNCHANGED <<store, blocks>>

SNext ==
    \E a \in GuestAddrs :
        \/ \E len \in Widths :
              /\ InReach(a, len)
              /\ \/ \E op \in {"read_int", "read_uint"} : Load(op, a, len)
                 \/ \E val \in StoreValues : Store(a, len, val) \/ Refuse(a, len, val)
        \/ InReach(a, FetchBytes) /\ (Fetch(a) \/ Fault(a))

SSpec == SInit /\ [][SNext]_svars
=============================================================================
