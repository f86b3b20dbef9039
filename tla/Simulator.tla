------------------------------ MODULE Simulator ------------------------------
(***************************************************************************)
(* The whole process: main constructs a cpu_t, whose constructor makes the  *)
(* mmu_t that loads the file (module ElfLoader), sets pc and the stack      *)
(* pointer and clears the stack's first slot; then step(0) runs the loop of *)
(* module Cpu over the memory and the forbidden blocks the loader left.     *)
(***************************************************************************)
EXTENDS Cpu

CONSTANT Images        \* those of ElfLoader, with elf_header.e_entry as entry

VARIABLES image, phase, sec, index, seg, pos, cur      \* of ElfLoader

L == INSTANCE ElfLoader

ASSUME FilesAssumption == \A f \in Images : L!Loadable(f) /\ f.entry \in Entries

loader == <<image, phase, sec, index, seg, pos, cur>>
registers == <<pc, XPR, FPR>>
interpreter == <<c_insn, c_desc, step, insn_count, sim, out>>
process == <<vars, loader>>

(* The registers are not initialised; nothing reads pc before it is set.    *)
ProcessInit ==
    /\ L!Init
    /\ XPR \in InitRegs /\ FPR \in InitFRegs /\ pc = 0
    /\ stage = "constructing"
    /\ c_insn = Zero /\ c_desc = 1
    /\ step = 0 /\ insn_count = [d \in Places |-> 0]
    /\ sim = NoSim /\ out = NoBytes /\ outcome = "running"

Load ==
    /\ stage = "constructing"
    /\ L!Next
    /\ UNCHANGED <<registers, interpreter, stage, outcome>>

(* cpu_t::cpu_t after the mmu has loaded the file.                         *)
SetRegisters ==
    /\ stage = "constructing" /\ phase = "loaded"
    /\ pc' = image.entry
    /\ XPR' = [XPR EXCEPT ![SP] = SP_INIT]
    /\ UNCHANGED <<loader, FPR, interpreter, forbid>>

Boot_SlotBelow ==
    /\ SetRegisters
    /\ ~WriteDenied(forbid, SP_INIT, RegBytes)
    /\ mem' = StoreBytes(mem, SP_INIT - RegBytes, RegBytes, Zero)
    /\ stage' = "fetch"
    /\ UNCHANGED outcome

Boot ==
    /\ SetRegisters
    /\ ~WriteDenied(forbid, SP_INIT, RegBytes)
    /\ mem' = StoreBytes(mem, SP_INIT, RegBytes, Zero)
    /\ stage' = "fetch"
    /\ UNCHANGED outcome

(* A read-only section lies over the slot: write_64 throws.                *)
BootDenied ==
    /\ SetRegisters
    /\ WriteDenied(forbid, SP_INIT, RegBytes)
    /\ Stop("no_permission")
    /\ UNCHANGED mem

Run ==
    /\ stage # "constructing"
    /\ Next
    /\ UNCHANGED loader

ProcessNext == Load \/ Boot \/ BootDenied \/ Run
ProcessSpec == ProcessInit /\ [][ProcessNext]_process

(* One thread, which nothing blocks.                                       *)
FairProcess == ProcessSpec /\ WF_process(ProcessNext)

(***************************************************************************)
(* Properties.                                                              *)
(***************************************************************************)
(* The files whose parts have the same byte where they overlap.            *)
Agreeing == {f \in Images : L!Agree(f)}

(* .rodata, in the place where the loader protects it, keeps the bytes of   *)
(* the file from boot to end: neither the constructor's slot nor any store  *)
(* or system call of the guest changes them, once the loader has put them   *)
(* there.  The block that protects it is the one of any read-only section   *)
(* with that address; each has to reach its end and to be wide enough for   *)
(* the two looks of write.                                                  *)
Rodata == image.secs[3]
Guarded ==
    /\ Rodata.name = ".rodata" /\ ~L!Shadowed(image)
    /\ \A s \in DOMAIN L!loader :
          image.secs[s].name \in L!ReadOnly /\ image.secs[s].addr = Rodata.addr =>
              Wide(<<Rodata.addr, Rodata.addr + image.secs[s].size>>)
RodataKept ==
    stage # "constructing" /\ image \in Agreeing /\ Guarded =>
        \A k \in 0..(Rodata.size - 1) :
            mem[Rodata.addr + k] = L!FileByte(image, Rodata, k)

(* The program is started at its entry as the file has it, the slot of the  *)
(* stack aside, which is cleared over whatever a segment has there.         *)
ProgramArrives ==
    [][stage = "constructing" /\ stage' = "fetch" /\ image \in Agreeing =>
        /\ pc' = image.entry
        /\ \A a \in Touched(SP_INIT, RegBytes) : mem'[a] = 0
        /\ \A r \in L!Segments(image) : \A k \in 0..(r.size - 1) :
              r.addr + k \notin Touched(SP_INIT, RegBytes) =>
                  mem'[r.addr + k] = L!FileByte(image, r, k)]_process

(* The process starts the guest, or ends without.                          *)
StartsOrEnds == <>(stage \in {"fetch", "halted"} \/ phase = "exited")

(* Each iteration of the loop comes to its end: the next instruction is     *)
(* fetched, or the process has stopped.                                     *)
IterationEnds ==
    (stage \in {"decode", "execute", "sim_read"}) ~> (stage \in {"fetch", "halted"})
=============================================================================
