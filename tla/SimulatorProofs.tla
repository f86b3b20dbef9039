--------------------------- MODULE SimulatorProofs ---------------------------
(* Theorems about the whole process: what the loader leaves is what the     *)
(* guest runs on, and the guest leaves the read-only data alone.            *)
EXTENDS Simulator, CpuProofs

LP == INSTANCE ElfLoaderProofs

-----------------------------------------------------------------------------
(* L and LP are two instances of one module, with the same definitions.     *)

LEMMA FilesLoadable == \A f \in Images : LP!Loadable(f)
BY FilesAssumption DEF L!Loadable, LP!Loadable, L!SectionHeader, LP!SectionHeader,
       L!ProgramHeader, LP!ProgramHeader, LP!Byte, L!Byte, L!loader, LP!loader,
       LP!Addr, L!Addr

LEMMA SameInit == L!Init => LP!Init
BY DEF L!Init, LP!Init, L!Byte, LP!Byte, L!Addr, LP!Addr

LEMMA SameNext == L!Next => LP!Next
BY DEF L!Next, LP!Next, L!FailOpen, LP!FailOpen, L!ReadTables, LP!ReadTables,
       L!SkipSection, LP!SkipSection, L!LoadSection, LP!LoadSection,
       L!LoadDataByte, LP!LoadDataByte, L!EndLoadData, LP!EndLoadData,
       L!BeginLoadProg, LP!BeginLoadProg, L!LoadProgByte, LP!LoadProgByte,
       L!NextSegment, LP!NextSegment, L!EndLoadProg, LP!EndLoadProg,
       L!Names, LP!Names, L!loader, LP!loader, L!ReadOnly, LP!ReadOnly,
       L!section, LP!section, L!segment, LP!segment, L!Fread, LP!Fread,
       L!Insert, LP!Insert, L!At, LP!At, L!Byte, LP!Byte

LEMMA SameParts ==
    ASSUME NEW f
    PROVE  /\ L!Agree(f) <=> LP!Agree(f)
           /\ L!Segments(f) = LP!Segments(f)
           /\ L!Shadowed(f) <=> LP!Shadowed(f)
           /\ \A r, k : L!FileByte(f, r, k) = LP!FileByte(f, r, k)
           /\ L!ReadOnly = LP!ReadOnly /\ DOMAIN L!loader = 1..4
BY DEF L!Agree, LP!Agree, L!Regions, LP!Regions, L!Segments, LP!Segments,
       L!DataSections, LP!DataSections, L!Region, LP!Region, L!InFile, LP!InFile,
       L!FileByte, LP!FileByte, L!loader, LP!loader, L!Names, LP!Names,
       L!Shadowed, LP!Shadowed, L!ReadOnly, LP!ReadOnly

LEMMA SameMemory == LP!MemMap = MemMap /\ LP!Addr = Addr /\ LP!Mapped(mem) = Mapped(mem)
BY DEF LP!MemMap, MemMap, LP!Addr, Addr, LP!Byte, Byte, LP!Mapped, Mapped

-----------------------------------------------------------------------------
(* The inductive invariant.                                                *)

(* While the mmu is constructed, the loader's own invariant holds, and the  *)
(* registers, that nothing has set, are the ones of the construction.       *)
Loading ==
    /\ LP!Contents /\ LP!BlocksOfSections /\ LP!OnlyFileBytes
    /\ LP!SegmentsMapped /\ LP!RodataGuarded /\ LP!RodataMapped
Unset ==
    /\ pc = 0 /\ XPR \in RegFile /\ FPR \in RegFile
    /\ c_insn = Zero /\ c_desc = 1
    /\ step = 0 /\ insn_count = [d \in Places |-> 0]
    /\ sim = NoSim /\ out = NoBytes /\ outcome = "running"

(* From then on the invariant of the interpreter does; and a block that no  *)
(* store reaches around lies over .rodata, which has the bytes of the file. *)
Sealed(b) ==
    /\ b[1] = Rodata.addr /\ b[2] + 1 >= Rodata.addr + Rodata.size
    /\ b \in Addr \X Addr /\ Wide(b)
RodataSealed ==
    image \in Agreeing /\ Guarded =>
        /\ \E b \in forbid : Sealed(b)
        /\ \A k \in 0..(Rodata.size - 1) :
              mem[Rodata.addr + k] = L!FileByte(image, Rodata, k)

ProcessInv ==
    /\ LP!Position
    /\ stage = "constructing" => Loading /\ Unset
    /\ stage # "constructing" => TypeOK /\ RodataSealed

LEMMA LoadingInit == L!Init => LP!Position /\ Loading
<1> SUFFICES ASSUME L!Init PROVE LP!Position /\ Loading
  OBVIOUS
<1>1. LP!Init
  BY SameInit
<1>2. LP!Position /\ LP!OnlyFileBytes /\ LP!SegmentsMapped /\ LP!RodataMapped
  BY <1>1, LP!PositionInit, LP!OnlyFileBytesInit, LP!SegmentsMappedInit,
     LP!RodataMappedInit, FilesLoadable, MemoryAssumption
<1>3. LP!Contents /\ LP!BlocksOfSections /\ LP!RodataGuarded
  BY <1>1, FilesLoadable, MemoryAssumption, LP!ContentsInit, LP!BlocksInit, LP!RodataGuardedInit
<1> QED BY <1>2, <1>3 DEF Loading

LEMMA LoadingNext ==
    LP!Position /\ Loading /\ (L!Next \/ UNCHANGED process) => LP!Position' /\ Loading'
<1> SUFFICES ASSUME LP!Position, Loading, L!Next \/ UNCHANGED process
             PROVE  LP!Position' /\ Loading'
  OBVIOUS
<1>1. [LP!Next]_(LP!vars)
  BY SameNext DEF process, vars, loader, LP!vars
<1>2. LP!Position' /\ LP!Contents' /\ LP!BlocksOfSections' /\ LP!OnlyFileBytes'
  BY <1>1, LP!PositionNext, LP!ContentsNext, LP!BlocksNext, LP!OnlyFileBytesNext,
     FilesLoadable, MemoryAssumption DEF Loading
<1>3. LP!SegmentsMapped' /\ LP!RodataGuarded' /\ LP!RodataMapped'
  BY <1>1, LP!SegmentsMappedNext, LP!RodataGuardedNext, LP!RodataMappedNext,
     FilesLoadable, MemoryAssumption DEF Loading
<1> QED BY <1>2, <1>3 DEF Loading

(* Position looks at the loader's own variables only.                      *)
LEMMA SamePosition == LP!Position /\ UNCHANGED loader => LP!Position'
BY DEF LP!Position, loader, LP!section, LP!segment

(* What the loader hands over.                                             *)
LEMMA RodataType ==
    ASSUME LP!Position
    PROVE  /\ Rodata.addr \in Addr /\ Rodata.size \in Nat
           /\ \A i \in 1..4 : image.secs[i].addr \in Addr /\ image.secs[i].size \in Nat
                             /\ image.secs[i].addr + image.secs[i].size < AddrSpace
<1>1. image \in Images
  BY DEF LP!Position
<1>2. \A i \in 1..4 : /\ image.secs[i].addr \in Addr /\ image.secs[i].size \in Nat
                     /\ image.secs[i].addr + image.secs[i].size < AddrSpace
  BY <1>1, LP!SectionTypes, FilesLoadable, MemoryAssumption, SameMemory
<1> QED BY <1>2 DEF Rodata

LEMMA LoadedSealed ==
    ASSUME LP!Position, Loading, phase = "loaded"
    PROVE  RodataSealed
<1> SUFFICES ASSUME image \in Agreeing, Guarded
             PROVE  /\ \E b \in forbid : Sealed(b)
                    /\ \A k \in 0..(Rodata.size - 1) :
                          mem[Rodata.addr + k] = L!FileByte(image, Rodata, k)
  BY DEF RodataSealed
<1>1. /\ LP!Agree(image) /\ ~LP!Shadowed(image) /\ image.secs[3].name = ".rodata"
      /\ Rodata = image.secs[3]
  BY SameParts DEF Agreeing, Guarded, Rodata
<1>2. PICK b \in forbid : LP!Covers(b, image.secs[3])
  BY <1>1 DEF Loading, LP!RodataGuarded, LP!Reached
<1>3. PICK i \in 1..4 : image.secs[i].name \in L!ReadOnly /\ b = LP!BlockOf(image.secs[i])
  BY SameParts DEF Loading, LP!BlocksOfSections
<1>4. b[1] = Rodata.addr /\ b[2] + 1 >= Rodata.addr + Rodata.size
  BY <1>1, <1>2 DEF LP!Covers
<1>5. b = <<Rodata.addr, Rodata.addr + image.secs[i].size>> /\ image.secs[i].addr = Rodata.addr
  BY <1>3, <1>4 DEF LP!BlockOf
<1>6. Wide(b)
  BY <1>3, <1>5, SameParts DEF Guarded
<1>7. b \in Addr \X Addr
  BY SameMemory DEF Loading, LP!Contents
<1>8. \A k \in 0..(Rodata.size - 1) :
          mem[Rodata.addr + k] = L!FileByte(image, Rodata, k)
  BY <1>1, LP!RodataArrives, FilesLoadable, MemoryAssumption, SameParts DEF Loading
<1> QED BY <1>4, <1>6, <1>7, <1>8 DEF Sealed

LEMMA SealedByte ==
    ASSUME LP!Position, NEW b, Sealed(b), NEW k \in 0..(Rodata.size - 1)
    PROVE  Rodata.addr + k \in Block(b)
<1>1. /\ Rodata.addr \in Nat /\ Rodata.size \in Nat
      /\ b[2] \in 0..(AddrSpace - 1) /\ b[1] = Rodata.addr
      /\ b[2] + 1 >= Rodata.addr + Rodata.size
  BY RodataType DEF Sealed, Addr
<1>2. Rodata.addr + k <= b[2] /\ Rodata.addr <= Rodata.addr + k
  BY <1>1
<1> QED BY <1>1, <1>2, MemoryAssumption DEF Block, Addr

(* A step that spares the wide blocks leaves .rodata sealed.               *)
LEMMA StaysSealed ==
    ASSUME LP!Position, RodataSealed, UNCHANGED <<image, forbid>>,
           \A b \in forbid : Wide(b) => \A a \in Block(b) : mem'[a] = mem[a]
    PROVE  RodataSealed'
<1> SUFFICES ASSUME image \in Agreeing, Guarded
             PROVE  /\ \E b \in forbid : Sealed(b)
                    /\ \A k \in 0..(Rodata.size - 1) :
                          mem'[Rodata.addr + k] = L!FileByte(image, Rodata, k)
  BY DEF RodataSealed, Sealed, Rodata, Guarded
<1>1. PICK b \in forbid : Sealed(b)
  BY DEF RodataSealed
<1>2. ASSUME NEW k \in 0..(Rodata.size - 1)
      PROVE  mem'[Rodata.addr + k] = L!FileByte(image, Rodata, k)
  <2>1. mem'[Rodata.addr + k] = mem[Rodata.addr + k]
    BY <1>1, SealedByte DEF Sealed
  <2> QED BY <2>1 DEF RodataSealed
<1> QED BY <1>1, <1>2

(* The constructor's own stores.                                           *)
LEMMA SetRegistersTypes ==
    ASSUME ProcessInv, SetRegisters, stage' \in {"fetch", "halted"}, outcome' \in Outcomes,
           outcome' = "running" <=> stage' # "halted", mem' \in MemMap
    PROVE  TypeOK'
<1>1. Unset /\ image \in Images /\ forbid \in SUBSET (Addr \X Addr)
  BY SameMemory DEF ProcessInv, SetRegisters, Loading, LP!Contents, LP!Position
<1>2. pc' \in Addr /\ XPR' \in RegFile /\ FPR' \in RegFile
  BY <1>1, FilesAssumption, CpuAssumption DEF SetRegisters, Unset, RegFile
<1>3. ControlOK'
  BY <1>1, ZeroType, MemoryAssumption, CpuAssumption, TableAssumption
     DEF SetRegisters, interpreter, Unset, ControlOK, Places
<1>4. SimOK' /\ OutOK'
  BY <1>1, NoSimType, MemoryAssumption, CpuAssumption, TableAssumption
     DEF SetRegisters, interpreter, Unset, SimOK, OutOK
<1> QED BY <1>2, <1>3, <1>4 DEF TypeOK, ControlOK, SimOK, OutOK

LEMMA BootInv == ProcessInv /\ Boot => ProcessInv'
<1> SUFFICES ASSUME ProcessInv, Boot PROVE ProcessInv'
  OBVIOUS
<1>1. /\ LP!Position /\ Loading /\ phase = "loaded" /\ UNCHANGED <<loader, forbid>>
      /\ mem' = StoreBytes(mem, SP_INIT, RegBytes, Zero)
      /\ ~WriteDenied(forbid, SP_INIT, RegBytes) /\ stage' = "fetch"
  BY DEF ProcessInv, Boot, SetRegisters
<1>2. /\ mem \in MemMap /\ forbid \in SUBSET (Addr \X Addr) /\ SP_INIT \in Addr
      /\ RegBytes \in 1..RegBytes /\ Zero \in Word
  BY <1>1, SameMemory, ZeroType, MemoryAssumption, CpuAssumption DEF Loading, LP!Contents
<1>3. LP!Position'
  BY <1>1, SamePosition
<1>4. TypeOK'
  <2>1. mem' \in MemMap
    BY <1>1, <1>2, StoreBytesType, MemoryAssumption
  <2>2. outcome' = "running" /\ SetRegisters
    BY DEF ProcessInv, Boot, SetRegisters, Unset
  <2> QED BY <1>1, <2>1, <2>2, SetRegistersTypes DEF Outcomes
<1>5. RodataSealed'
  <2>1. \A b \in forbid : Wide(b) => \A a \in Block(b) : mem'[a] = mem[a]
    BY <1>1, <1>2, StoreBytesSparesWide, MemoryAssumption
  <2> QED BY <1>1, <2>1, LoadedSealed, StaysSealed DEF loader
<1> QED BY <1>1, <1>3, <1>4, <1>5 DEF ProcessInv

LEMMA BootDeniedInv == ProcessInv /\ BootDenied => ProcessInv'
<1> SUFFICES ASSUME ProcessInv, BootDenied PROVE ProcessInv'
  OBVIOUS
<1>1. /\ LP!Position /\ Loading /\ phase = "loaded" /\ UNCHANGED <<loader, forbid, mem>>
      /\ stage' = "halted" /\ outcome' = "no_permission" /\ SetRegisters
  BY DEF ProcessInv, BootDenied, SetRegisters, Stop
<1>2. LP!Position'
  BY <1>1, SamePosition
<1>3. TypeOK'
  <2>1. mem' \in MemMap
    BY <1>1, SameMemory DEF Loading, LP!Contents
  <2> QED BY <1>1, <2>1, SetRegistersTypes DEF Outcomes
<1>4. RodataSealed'
  BY <1>1, LoadedSealed, StaysSealed DEF loader
<1> QED BY <1>1, <1>2, <1>3, <1>4 DEF ProcessInv

LEMMA RunInv == ProcessInv /\ Run => ProcessInv'
<1> SUFFICES ASSUME ProcessInv, Run PROVE ProcessInv'
  OBVIOUS
<1>1. /\ LP!Position /\ TypeOK /\ RodataSealed /\ Next /\ UNCHANGED <<loader, forbid>>
  BY BlocksStay DEF ProcessInv, Run
<1>2. LP!Position'
  BY <1>1, SamePosition
<1>3. TypeOK' /\ stage' # "constructing"
  BY <1>1, TypeNext, MemoryAssumption, CpuAssumption, TableAssumption DEF TypeOK
<1>4. RodataSealed'
  BY <1>1, WideBlockStays, StaysSealed DEF loader
<1> QED BY <1>2, <1>3, <1>4 DEF ProcessInv

LEMMA LoadInv == ProcessInv /\ Load => ProcessInv'
<1> SUFFICES ASSUME ProcessInv, Load PROVE ProcessInv'
  OBVIOUS
<1>1. /\ LP!Position /\ Loading /\ Unset /\ L!Next
      /\ UNCHANGED <<registers, interpreter, stage, outcome>>
  BY DEF ProcessInv, Load
<1>2. Unset' /\ stage' = "constructing"
  BY <1>1 DEF Unset, registers, interpreter, Load
<1>3. LP!Position' /\ Loading'
  BY <1>1, LoadingNext
<1> QED BY <1>2, <1>3 DEF ProcessInv

LEMMA StutterInv == ProcessInv /\ UNCHANGED process => ProcessInv'
<1> SUFFICES ASSUME ProcessInv, UNCHANGED process PROVE ProcessInv'
  OBVIOUS
<1>1. LP!Position'
  BY SamePosition DEF ProcessInv, process
<1>2. CASE stage = "constructing"
  <2>1. Unset' /\ stage' = "constructing"
    BY <1>2 DEF ProcessInv, Unset, process, vars
  <2>2. Loading'
    BY <1>2, LoadingNext DEF ProcessInv
  <2> QED BY <1>1, <2>1, <2>2 DEF ProcessInv
<1>3. CASE stage # "constructing"
  <2>1. UNCHANGED vars /\ UNCHANGED image
    BY DEF process, loader
  <2>2. TypeOK'
    BY <1>3, <2>1, TypeNext DEF ProcessInv
  <2>3. RodataSealed'
    BY <1>3, <2>1, StaysSealed DEF ProcessInv, vars
  <2>4. stage' # "constructing"
    BY <1>3, <2>1 DEF vars
  <2> QED BY <1>1, <2>2, <2>3, <2>4 DEF ProcessInv
<1> QED BY <1>2, <1>3

LEMMA ProcessInvInit == ProcessInit => ProcessInv
<1> SUFFICES ASSUME ProcessInit PROVE ProcessInv
  OBVIOUS
<1>1. LP!Position /\ Loading
  BY LoadingInit DEF ProcessInit
<1>2. Unset /\ stage = "constructing"
  BY CpuAssumption DEF ProcessInit, Unset
<1> QED BY <1>1, <1>2 DEF ProcessInv

LEMMA ProcessInvNext == ProcessInv /\ [ProcessNext]_process => ProcessInv'
BY LoadInv, BootInv, BootDeniedInv, RunInv, StutterInv DEF ProcessNext

-----------------------------------------------------------------------------
(* From the file to the end of the process: for every file that meets the   *)
(* assumption, every program in it and every input from the host, .rodata   *)
(* keeps its bytes, when its block covers it and is wide enough.            *)
THEOREM RodataAlwaysKept == ProcessSpec => []RodataKept
<1>1. ProcessInv => RodataKept
  BY DEF ProcessInv, RodataSealed, RodataKept
<1> QED BY <1>1, ProcessInvInit, ProcessInvNext, PTL DEF ProcessSpec

-----------------------------------------------------------------------------
(* The interpreter of the process is the one of module Cpu, started from    *)
(* what the loader leaves in place of a member of Programs.                 *)
Running == stage # "constructing" => PcAligned /\ FetchIsFresh /\ SimReadInOrder /\ Counted

LEMMA RunningBoot == ProcessInv /\ (Boot \/ BootDenied) => Running'
<1> SUFFICES ASSUME ProcessInv, Boot \/ BootDenied
             PROVE  PcAligned' /\ FetchIsFresh' /\ SimReadInOrder' /\ Counted'
  BY DEF Running
<1>1. /\ stage' \in {"fetch", "halted"} /\ SetRegisters /\ Unset /\ image \in Images
      /\ outcome' # "invalid_address"
  BY DEF ProcessInv, Boot, BootDenied, SetRegisters, Stop, Unset, LP!Position
<1>2. PcAligned'
  <2>1. pc' \in Entries /\ pc' % 4 = 0
    BY <1>1, FilesAssumption, AlignmentAssumption DEF SetRegisters
  <2> QED BY <2>1, AlignmentAssumption DEF PcAligned, PC_INC
<1>3. FetchIsFresh' /\ SimReadInOrder'
  BY <1>1 DEF FetchIsFresh, SimReadInOrder
<1>4. Counted'
  <2>1. insn_count' = [d \in Places |-> 0] /\ step' = 0 /\ ~Undecoded'
    BY <1>1 DEF SetRegisters, interpreter, Unset, Undecoded
  <2>2. Sum(insn_count') = 0
    BY <2>1, SumZero, FS_Interval, TableAssumption DEF Places
  <2> QED BY <2>1, <2>2, CpuAssumption DEF Counted
<1> QED BY <1>2, <1>3, <1>4

LEMMA RunningNext == ProcessInv /\ Running /\ [ProcessNext]_process => Running'
<1> SUFFICES ASSUME ProcessInv, Running, [ProcessNext]_process PROVE Running'
  OBVIOUS
<1>1. CASE Load \/ (stage = "constructing" /\ UNCHANGED process)
  BY <1>1 DEF Load, Running, process, vars
<1>2. CASE Run \/ (stage # "constructing" /\ UNCHANGED process)
  <2>1. TypeOK /\ PcAligned /\ FetchIsFresh /\ SimReadInOrder /\ Counted /\ [Next]_vars
    BY <1>2 DEF Run, ProcessInv, Running, process
  <2> QED BY <2>1, PcAlignedNext, FreshNext, SimReadNext, CountsNext,
             MemoryAssumption, CpuAssumption, TableAssumption DEF Running
<1> QED BY <1>1, <1>2, RunningBoot DEF ProcessNext

(* So whatever file is loaded, the interpreter keeps its types, pc stays on *)
(* instruction boundaries, what it executes is what memory holds, SIM_read  *)
(* copies in order, and the counters match the steps.                       *)
InterpreterSound ==
    stage # "constructing" =>
        TypeOK /\ PcAligned /\ FetchIsFresh /\ SimReadInOrder /\ CountsMatchSteps
THEOREM ProcessRunsInterpreter == ProcessSpec => []InterpreterSound
<1>1. ProcessInit => Running
  BY DEF ProcessInit, Running
<1>2. ProcessInv /\ Running => InterpreterSound
  BY CountsAsSum DEF ProcessInv, Running, InterpreterSound
<1> QED BY <1>1, <1>2, ProcessInvInit, ProcessInvNext, RunningNext, PTL DEF ProcessSpec

-----------------------------------------------------------------------------

(* The guest is started at its entry on the file's segments, the cleared    *)
(* slot of the stack aside.                                                 *)
LEMMA BootArrives ==
    ASSUME ProcessInv, Boot, image \in Agreeing
    PROVE  /\ \A a \in Touched(SP_INIT, RegBytes) : mem'[a] = 0
           /\ \A r \in L!Segments(image) : \A k \in 0..(r.size - 1) :
                 r.addr + k \notin Touched(SP_INIT, RegBytes) =>
                     mem'[r.addr + k] = L!FileByte(image, r, k)
<1>1. /\ LP!Position /\ Loading /\ phase = "loaded"
      /\ mem' = StoreBytes(mem, SP_INIT, RegBytes, Zero)
  BY DEF ProcessInv, Boot, SetRegisters
<1>2. /\ mem \in MemMap /\ SP_INIT \in Addr /\ RegBytes \in 1..RegBytes /\ Zero \in Word
  BY <1>1, SameMemory, ZeroType, MemoryAssumption, CpuAssumption DEF Loading, LP!Contents
<1>3. ASSUME NEW a \in Touched(SP_INIT, RegBytes) PROVE mem'[a] = 0
  <2>1. PICK k \in 0..(RegBytes - 1) : a = At(SP_INIT, k)
    BY DEF Touched
  <2>2. mem'[a] = Zero[k]
    BY <1>1, <1>2, <2>1, StoreBytesAt, MemoryAssumption
  <2> QED BY <2>2 DEF Zero, Offsets
<1>4. ASSUME NEW r \in L!Segments(image), NEW k \in 0..(r.size - 1),
             r.addr + k \notin Touched(SP_INIT, RegBytes)
      PROVE  mem'[r.addr + k] = L!FileByte(image, r, k)
  <2>1. r \in LP!Segments(image) /\ LP!Agree(image)
    BY SameParts DEF Agreeing
  <2>2. mem[r.addr + k] = LP!FileByte(image, r, k)
    BY <1>1, <2>1, LP!SegmentsArrived, FilesLoadable, MemoryAssumption
       DEF Loading, LP!SegmentsArrive
  <2>3. r.addr + k \in Addr
    BY <1>1, <2>1, LP!SegmentAddress, FilesLoadable, MemoryAssumption, SameMemory
  <2>4. mem'[r.addr + k] = mem[r.addr + k]
    BY <1>1, <1>2, <1>4, <2>3, StoreBytesElsewhere, MemoryAssumption
  <2> QED BY <2>2, <2>4, SameParts
<1> QED BY <1>3, <1>4

THEOREM ProgramAlwaysArrives == ProcessSpec => ProgramArrives
<1> DEFINE Arrives ==
        stage = "constructing" /\ stage' = "fetch" /\ image \in Agreeing =>
            /\ pc' = image.entry
            /\ \A a \in Touched(SP_INIT, RegBytes) : mem'[a] = 0
            /\ \A r \in L!Segments(image) : \A k \in 0..(r.size - 1) :
                  r.addr + k \notin Touched(SP_INIT, RegBytes) =>
                      mem'[r.addr + k] = L!FileByte(image, r, k)
<1>1. ProcessInv /\ [ProcessNext]_process => [Arrives]_process
  <2> SUFFICES ASSUME ProcessInv, ProcessNext,
                      stage = "constructing", stage' = "fetch", image \in Agreeing
               PROVE  Arrives
    OBVIOUS
  <2>1. Boot
    BY DEF ProcessNext, Load, BootDenied, Run, Stop
  <2>2. pc' = image.entry
    BY <2>1 DEF Boot, SetRegisters
  <2> QED BY <2>1, <2>2, BootArrives
<1> QED BY <1>1, ProcessInvInit, ProcessInvNext, PTL DEF ProcessSpec, ProgramArrives
=============================================================================
