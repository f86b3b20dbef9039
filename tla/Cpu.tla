--------------------------------- MODULE Cpu ---------------------------------
(***************************************************************************)
(* The interpreter loop: cpu_t (cpu.h) with the instruction handlers of    *)
(* func.h, over the memory whose operations module Mmu shows to act as if   *)
(* atomic.  One loop iteration of cpu_t::step is a fetch, a decode and an   *)
(* execute step; the loop of SIM_read takes one more step per byte.         *)
(*                                                                         *)
(* A register is its unsigned value, and the operand fields of an encoding  *)
(* belong to its entry of Table.  What the arithmetic handlers compute is   *)
(* the subject of modules Multi, Divide, Alu and Float; the few named here  *)
(* stand for all of them, as their handlers have one shape: read registers  *)
(* of either file, write rd.                                                *)
(***************************************************************************)
EXTENDS MemoryOps, Sequences, Functions

CONSTANTS
    Programs,      \* the pairs of mem and forbid that the loader may leave
    Entries,       \* values of elf_header.e_entry
    InitRegs,      \* integer registers at construction, which leaves them alone
    InitFRegs,     \* and the floating-point ones
    NXPR,          \* number of registers of each file (NFPR is the same)
    SP_INIT,       \* initial stack pointer
    SP, A0, A1, A2, A7,   \* registers 2, 10, 11, 12 and 17
    Table,         \* the vector instructions: match, mask, handler, operands
    Syscall,       \* from a register value to the name of the system call
    Timevals,      \* first eight bytes of a timeval that the host may return
    Times,         \* results of time of the host
    MaxIO,         \* bound on the bytes one system call transfers
    IntMod         \* values of an int, 2^32: step and insn_count wrap there

Regs == 0..(NXPR - 1)
RegFile == [Regs -> Addr]
PC_INC == FetchBytes

Places == 1..Len(Table)

ASSUME CpuAssumption ==
    /\ NXPR \in Nat /\ {0, SP, A0, A1, A2, A7} \subseteq Regs
    /\ InitRegs \subseteq RegFile /\ InitFRegs \subseteq RegFile
    /\ Timevals \subseteq Word /\ Times \subseteq Addr
    /\ SP_INIT \in Addr /\ Entries \subseteq Addr
    /\ Programs \subseteq [mem : MemMap, forbid : SUBSET (Addr \X Addr)]
    /\ IntMod \in Nat \ {0} /\ MaxIO \in Nat /\ MaxIO < AddrSpace

ASSUME TableAssumption ==
    /\ Len(Table) \in Nat \ {0} /\ DOMAIN Table = Places
    /\ \A d \in Places :
          /\ {Table[d].rd, Table[d].rs1, Table[d].rs2} \subseteq Regs
          /\ Table[d].imm \in Addr /\ Table[d].len \in 1..RegBytes
    /\ Table[Len(Table)].mask = {} /\ Table[Len(Table)].kind = "illegal"

VARIABLES
    pc, XPR, FPR,  \* state_t
    mem, forbid,   \* of the mmu
    stage,         \* "fetch", "decode", "execute", "sim_read" or "halted"
    c_insn,        \* the current instruction
    c_desc,        \* the place of its description in Table
    step,          \* the local of cpu_t::step
    insn_count,    \* executions per entry of Table
    sim,           \* the locals of SIM_read: addr, read_num, buf and i
    out,           \* the bytes that the last write to the host passed
    outcome        \* "running", "exit", or how the process ended

vars == <<pc, XPR, FPR, mem, forbid, stage, c_insn, c_desc, step, insn_count, sim, out, outcome>>
control == <<step, insn_count, c_insn, c_desc, forbid>>

NoBytes == [k \in 1..0 |-> 0]
NoSim == [addr |-> 0, read_num |-> 0, buf |-> NoBytes, i |-> 0]
(* The bytes of a register, and the register of some bytes.                *)
WordOf(v) == [k \in Offsets |-> (v \div (ByteBase ^ k)) % ByteBase]
ValueOf(w) == CHOOSE v \in Addr : WordOf(v) = w
OneByte(byte) == [Zero EXCEPT ![0] = byte]

(* The bytes of a register make an address, in digits of ByteBase.         *)
ASSUME LayoutAssumption ==
    /\ AddrSpace = ByteBase ^ RegBytes
    /\ ByteBase ^ 0 = 1
    /\ \A k \in Offsets : ByteBase ^ (k + 1) = ByteBase * (ByteBase ^ k)

(* Instructions have four bytes, and the immediates of the branches and of  *)
(* jal are even, as sb_imm and uj_imm assemble them.                        *)
Even(v) == v % 2 = 0
ASSUME AlignmentAssumption ==
    /\ FetchBytes = 4 /\ AddrSpace % 4 = 0
    /\ \A e \in Entries : e % 4 = 0
    /\ \A d \in Places :
          Table[d].kind \in {"beq", "bne", "blt", "bge", "bltu", "bgeu", "jal"} =>
              Even(Table[d].imm)

Plus_NoWrap(x, y) == x + y
Plus(x, y) == (x + y) % AddrSpace
MinusOne == AddrSpace - 1

(* regfile_t::write with zero_reg: register 0 cannot be modified.          *)
WriteReg_ZeroToo(r, v) == [XPR EXCEPT ![r] = v]
WriteReg(r, v) == IF r = 0 THEN XPR ELSE [XPR EXCEPT ![r] = v]

(* cpu_t::cpu_t after the mmu has loaded the program.                      *)
Init ==
    /\ \E p \in Programs :
          /\ ~WriteDenied(p.forbid, SP_INIT, RegBytes)
          /\ mem = StoreBytes(p.mem, SP_INIT, RegBytes, Zero)
          /\ forbid = p.forbid
    /\ \E regs \in InitRegs : XPR = [regs EXCEPT ![SP] = SP_INIT]
    /\ FPR \in InitFRegs
    /\ pc \in Entries
    /\ stage = "fetch"
    /\ c_insn = Zero /\ c_desc = 1
    /\ step = 0 /\ insn_count = [d \in Places |-> 0]
    /\ sim = NoSim /\ out = NoBytes /\ outcome = "running"

(***************************************************************************)
(* cpu_t::step                                                              *)
(***************************************************************************)
Increment(n) == (n + 1) % IntMod

(* No exception is caught, so one ends the process, as exit does.          *)
Stop(how) ==
    /\ outcome' = how
    /\ stage' = "halted"

LoadInsn ==
    /\ stage = "fetch"
    /\ ~FetchFaults(mem, pc)
    /\ c_insn' = FetchValue(mem, pc)
    /\ step' = Increment(step)
    /\ stage' = "decode"
    /\ UNCHANGED <<pc, XPR, FPR, mem, forbid, c_desc, insn_count, sim, out, outcome>>

LoadInsnFault ==
    /\ stage = "fetch"
    /\ FetchFaults(mem, pc)
    /\ step' = Increment(step)
    /\ Stop("invalid_address")
    /\ UNCHANGED <<pc, XPR, FPR, mem, forbid, c_insn, c_desc, insn_count, sim, out>>

(* (bits & mask) == match                                                  *)
Matches(word, d) == \A k \in Table[d].mask : word[k] = Table[d].match[k]

(* The first entry that matches; the last one matches everything.          *)
DecodeInsn_IllegalUncounted ==
    /\ stage = "decode"
    /\ \E d \in Places :
          /\ Matches(c_insn, d) /\ \A e \in 1..(d - 1) : ~Matches(c_insn, e)
          /\ c_desc' = d
          /\ insn_count' = IF d = Len(Table) THEN insn_count
                           ELSE [insn_count EXCEPT ![d] = Increment(@)]
    /\ stage' = "execute"
    /\ UNCHANGED <<pc, XPR, FPR, mem, forbid, c_insn, step, sim, out, outcome>>

DecodeInsn ==
    /\ stage = "decode"
    /\ \E d \in Places :
          /\ Matches(c_insn, d) /\ \A e \in 1..(d - 1) : ~Matches(c_insn, e)
          /\ c_desc' = d
          /\ insn_count' = [insn_count EXCEPT ![d] = Increment(@)]
    /\ stage' = "execute"
    /\ UNCHANGED <<pc, XPR, FPR, mem, forbid, c_insn, step, sim, out, outcome>>

(***************************************************************************)
(* Instruction handlers.                                                    *)
(***************************************************************************)
desc == Table[c_desc]
RS1 == XPR[desc.rs1]
RS2 == XPR[desc.rs2]
npc == Plus(pc, PC_INC)

Executing(kinds) == stage = "execute" /\ desc.kind \in kinds

(* The handler returns, and step assigns the result to pc; few handlers     *)
(* write a floating-point register.                                         *)
Return(target) ==
    /\ pc' = target
    /\ stage' = "fetch"
    /\ UNCHANGED <<control, outcome>>
ReturnTo(target) == Return(target) /\ UNCHANGED FPR

Throw(exception) ==
    /\ Stop(exception)
    /\ UNCHANGED <<control, pc, XPR, FPR, mem, sim, out>>

(* Handlers that compute rd from registers, the immediate and pc.          *)
Result == [add     |-> Plus(RS1, RS2),
           addi    |-> Plus(RS1, desc.imm),
           lui     |-> desc.imm,
           auipc   |-> Plus(pc, desc.imm),
           fmv_x_d |-> FPR[desc.rs1]]

ExecInteger ==
    /\ Executing(DOMAIN Result)
    /\ XPR' = WriteReg(desc.rd, Result[desc.kind])
    /\ ReturnTo(npc)
    /\ UNCHANGED <<mem, sim, out>>

ExecFence ==
    /\ Executing({"fence"})
    /\ ReturnTo(npc)
    /\ UNCHANGED <<XPR, mem, sim, out>>

(* set_pc throws for a target with bit 1 set.                              *)
Misaligned_OddOnly(target) == target % 2 = 1
Misaligned(target) == (target \div 2) % 2 = 1

(* sreg_t orders the register values by their two's complement reading.    *)
Biased(v) == Plus(v, AddrSpace \div 2)
Taken == [beq  |-> RS1 = RS2, bltu |-> RS1 < RS2,  blt |-> Biased(RS1) < Biased(RS2),
          bne  |-> RS1 # RS2, bgeu |-> RS1 >= RS2, bge |-> Biased(RS1) >= Biased(RS2)]
BranchTarget == Plus(pc, desc.imm)

ExecBranch ==
    /\ Executing(DOMAIN Taken)
    /\ Taken[desc.kind] => ~Misaligned(BranchTarget)
    /\ ReturnTo(IF Taken[desc.kind] THEN BranchTarget ELSE npc)
    /\ UNCHANGED <<XPR, mem, sim, out>>

BranchMisaligned ==
    /\ Executing(DOMAIN Taken)
    /\ Taken[desc.kind] /\ Misaligned(BranchTarget)
    /\ Throw("misaligned")

(* jalr clears bit 0 of its target; both write rd after set_pc.            *)
ClearBit0(v) == v - (v % 2)
JumpTarget == [jal |-> Plus(pc, desc.imm), jalr |-> ClearBit0(Plus(RS1, desc.imm))]

ExecJump ==
    /\ Executing(DOMAIN JumpTarget)
    /\ ~Misaligned(JumpTarget[desc.kind])
    /\ XPR' = WriteReg(desc.rd, npc)
    /\ ReturnTo(JumpTarget[desc.kind])
    /\ UNCHANGED <<mem, sim, out>>

JumpMisaligned ==
    /\ Executing(DOMAIN JumpTarget)
    /\ Misaligned(JumpTarget[desc.kind])
    /\ Throw("misaligned")

ExecLoad ==
    /\ Executing({"read_int", "read_uint"})
    /\ XPR' = WriteReg(desc.rd,
                       ValueOf(LoadValue(mem, Plus(RS1, desc.imm), desc.len, desc.kind)))
    /\ ReturnTo(npc)
    /\ UNCHANGED <<mem, sim, out>>

(* Handlers that write a floating-point register, whose register 0 is one   *)
(* like the others.  flw clears the upper half, and fld reads a whole register.      *)
SignBit == AddrSpace \div 2
Magnitude(v) == v % SignBit
FloatResult == [
    flw     |-> ValueOf(LoadValue(mem, Plus(RS1, desc.imm), desc.len, "read_uint")),
    fmv_d_x |-> RS1,
    fsgnj_d |-> Magnitude(FPR[desc.rs1]) + (FPR[desc.rs2] - Magnitude(FPR[desc.rs2]))]

ExecFloat ==
    /\ Executing(DOMAIN FloatResult)
    /\ FPR' = [FPR EXCEPT ![desc.rd] = FloatResult[desc.kind]]
    /\ Return(npc)
    /\ UNCHANGED <<XPR, mem, sim, out>>

(* The stores of either file; "fwrite" stands for fsd and fsw.             *)
Stores == {"write", "fwrite"}
Stored == WordOf(IF desc.kind = "write" THEN RS2 ELSE FPR[desc.rs2])
StoreAddress == Plus(RS1, desc.imm)

ExecStore_Prefetched ==
    /\ Executing(Stores)
    /\ ~WriteDenied(forbid, StoreAddress, desc.len)
    /\ ~FetchFaults(mem, npc)
    /\ c_insn' = FetchValue(mem, npc)
    /\ step' = Increment(step)
    /\ mem' = StoreBytes(mem, StoreAddress, desc.len, Stored)
    /\ pc' = npc
    /\ stage' = "decode"
    /\ UNCHANGED <<XPR, FPR, forbid, c_desc, insn_count, sim, out, outcome>>

ExecStore ==
    /\ Executing(Stores)
    /\ ~WriteDenied(forbid, StoreAddress, desc.len)
    /\ mem' = StoreBytes(mem, StoreAddress, desc.len, Stored)
    /\ ReturnTo(npc)
    /\ UNCHANGED <<XPR, sim, out>>

StoreDenied ==
    /\ Executing(Stores)
    /\ WriteDenied(forbid, StoreAddress, desc.len)
    /\ Throw("no_permission")

(* illegal_instruction returns 0: execution goes on at address 0.          *)
ExecIllegal ==
    /\ Executing({"illegal"})
    /\ ReturnTo(0)
    /\ UNCHANGED <<XPR, mem, sim, out>>

(***************************************************************************)
(* rv64_scall: the number is in A7, an address in A1, a length in A2.       *)
(***************************************************************************)
Calling(names) == Executing({"scall"}) /\ Syscall[XPR[A7]] \in names

(* read_uint8 of addr.. addr + n - 1, one byte at a time.                  *)
HostBytes(addr, n) ==
    [k \in 1..n |-> LoadBytes(mem, Plus(addr, k - 1), 1)[0]]

(* SIM_write: the host takes all the bytes, or a part, or fails.           *)
SysWrite ==
    /\ Calling({"write"})
    /\ XPR[A2] <= MaxIO
    /\ \/ /\ XPR' = WriteReg(A0, MinusOne)
          /\ UNCHANGED out
       \/ \E n \in 0..XPR[A2] :
             /\ out' = HostBytes(XPR[A1], n)
             /\ XPR' = WriteReg(A0, n)
    /\ ReturnTo(npc)
    /\ UNCHANGED <<mem, sim>>

(* SIM_read: the host delivers bytes into buf.                             *)
SysRead ==
    /\ Calling({"read"})
    /\ XPR[A2] <= MaxIO
    /\ \E n \in 0..XPR[A2] : \E buf \in [0..(n - 1) -> Byte] :
          sim' = [addr |-> XPR[A1], read_num |-> n, buf |-> buf, i |-> 0]
    /\ stage' = "sim_read"
    /\ UNCHANGED <<control, pc, XPR, FPR, mem, out, outcome>>

SysReadFails ==
    /\ Calling({"read"})
    /\ XPR' = WriteReg(A0, MinusOne)
    /\ ReturnTo(npc)
    /\ UNCHANGED <<mem, sim, out>>

SimAddr_Fixed == sim.addr
SimAddr == Plus(sim.addr, sim.i)

SimReadByte_NoAdvance ==
    /\ stage = "sim_read" /\ sim.i < sim.read_num
    /\ ~WriteDenied(forbid, SimAddr, 1)
    /\ mem' = StoreBytes(mem, SimAddr, 1, OneByte(sim.buf[sim.i]))
    /\ UNCHANGED <<control, pc, XPR, FPR, sim, stage, out, outcome>>

SimReadByte_Unchecked ==
    /\ stage = "sim_read" /\ sim.i < sim.read_num
    /\ mem' = StoreBytes(mem, SimAddr, 1, OneByte(sim.buf[sim.i]))
    /\ sim' = [sim EXCEPT !.i = @ + 1]
    /\ UNCHANGED <<control, pc, XPR, FPR, stage, out, outcome>>

SimReadByte ==
    /\ stage = "sim_read" /\ sim.i < sim.read_num
    /\ ~WriteDenied(forbid, SimAddr, 1)
    /\ mem' = StoreBytes(mem, SimAddr, 1, OneByte(sim.buf[sim.i]))
    /\ sim' = [sim EXCEPT !.i = @ + 1]
    /\ UNCHANGED <<control, pc, XPR, FPR, stage, out, outcome>>

SimReadDenied ==
    /\ stage = "sim_read" /\ sim.i < sim.read_num
    /\ WriteDenied(forbid, SimAddr, 1)
    /\ Throw("no_permission")

SimReadReturn ==
    /\ stage = "sim_read" /\ sim.i = sim.read_num
    /\ XPR' = WriteReg(A0, sim.read_num)
    /\ sim' = NoSim
    /\ ReturnTo(npc)
    /\ UNCHANGED <<mem, out>>

(* time gets the guest address A1 as a host pointer.                       *)
SysTime ==
    /\ Calling({"time"})
    /\ \/ /\ XPR[A1] = 0
          /\ \E now \in Times : XPR' = WriteReg(A0, now)
          /\ ReturnTo(npc)
          /\ UNCHANGED <<mem, sim, out>>
       \/ /\ XPR[A1] # 0
          /\ Throw("host_fault")

(* exit ignores the guest's status; an unknown number ends with status 1.  *)
SysExit ==
    /\ Calling({"exit", "unknown"})
    /\ Throw(IF Syscall[XPR[A7]] = "exit" THEN "exit" ELSE "unknown_call")

SysIgnored ==
    /\ Calling({"brk", "lseek", "close"})
    /\ ReturnTo(npc)
    /\ UNCHANGED <<XPR, mem, sim, out>>

(* fstat is called with a null buffer, and fails.                          *)
SysFstat ==
    /\ Calling({"fstat"})
    /\ XPR' = WriteReg(A0, MinusOne)
    /\ ReturnTo(npc)
    /\ UNCHANGED <<mem, sim, out>>

(* gettimeofday writes the host's result to A0, then eight bytes of the     *)
(* timeval (sizeof a pointer) to the address that was in A0.                *)
SysGettimeofday ==
    /\ Calling({"gettimeofday"})
    /\ XPR' = WriteReg(A0, 0)
    /\ \E tv \in Timevals :
          IF WriteDenied(forbid, XPR[A0], RegBytes)
          THEN /\ Stop("no_permission")
               /\ UNCHANGED <<control, pc, FPR, mem>>
          ELSE /\ mem' = StoreBytes(mem, XPR[A0], RegBytes, tv)
               /\ ReturnTo(npc)
    /\ UNCHANGED <<sim, out>>

Execute ==
    \/ ExecInteger \/ ExecFence \/ ExecBranch \/ BranchMisaligned
    \/ ExecJump \/ JumpMisaligned \/ ExecLoad \/ ExecFloat
    \/ ExecStore \/ StoreDenied \/ ExecIllegal
    \/ SysWrite \/ SysRead \/ SysReadFails \/ SimReadByte \/ SimReadDenied
    \/ SimReadReturn \/ SysTime \/ SysExit \/ SysIgnored \/ SysFstat
    \/ SysGettimeofday

Next == LoadInsn \/ LoadInsnFault \/ DecodeInsn \/ Execute
Spec == Init /\ [][Next]_vars

(***************************************************************************)
(* Properties.                                                              *)
(***************************************************************************)
Outcomes == {"running", "exit", "unknown_call", "invalid_address", "no_permission",
             "misaligned", "host_fault"}

(* Every variable keeps its type, and only a halted process has an outcome. *)
TypeOK ==
    /\ pc \in Addr /\ XPR \in RegFile /\ FPR \in RegFile
    /\ mem \in MemMap /\ forbid \in SUBSET (Addr \X Addr)
    /\ stage \in {"fetch", "decode", "execute", "sim_read", "halted"}
    /\ c_insn \in Word /\ c_desc \in Places
    /\ step \in 0..(IntMod - 1)
    /\ insn_count \in [Places -> 0..(IntMod - 1)]
    /\ \E n \in 0..MaxIO :
          sim \in [addr : Addr, read_num : {n}, buf : [0..(n - 1) -> Byte], i : 0..n]
    /\ \E n \in 0..MaxIO : out \in [1..n -> Byte]
    /\ outcome \in Outcomes /\ (outcome = "running" <=> stage # "halted")

(* pc stays on instruction boundaries, through branches, computed jumps and *)
(* the restart at 0: set_pc looks at bit 1 only, and relies on the even     *)
(* immediates and on jalr to keep bit 0 clear.                              *)
PcAligned == pc % PC_INC = 0

(* Register 0 never changes, "if zero_reg first Register cannot be modify"  *)
(* (structs.h:84).                                                          *)
ZeroRegisterFixed == [][XPR'[0] = XPR[0]]_vars

(* The counters that print_count shows sum up to the number of iterations  *)
(* of step, the one in progress aside until it has been decoded.            *)
CountsMatchSteps ==
    LET total == FoldFunction(+, 0, insn_count)
        undecoded == stage = "decode" \/ outcome = "invalid_address"
    IN  (total + (IF undecoded THEN 1 ELSE 0)) % IntMod = step

(* What is executed is what memory holds at pc: a program that overwrites  *)
(* its own code never runs an instruction kept from before.                 *)
FetchIsFresh ==
    stage \in {"decode", "execute"} =>
        /\ ~FetchFaults(mem, pc)
        /\ c_insn = FetchValue(mem, pc)

(* While SIM_read copies, the bytes it has passed are in memory, in order.  *)
SimReadInOrder ==
    stage = "sim_read" =>
        \A k \in 0..(sim.i - 1) : mem[Plus(sim.addr, k)] = sim.buf[k]

(* Whatever the guest executes, the system calls that store included, a    *)
(* byte of a forbidden block too wide to be reached around keeps its value  *)
(* (mmu.h:110, "hava no right to write").                                   *)
ForbiddenStays ==
    [][\A b \in forbid : Wide(b) =>
          \A a \in Block(b) : mem'[a] = mem[a]]_vars
=============================================================================
