------------------------------ MODULE ElfLoader ------------------------------
(***************************************************************************)
(* Loading a program (mmu.cpp): mmu_t's constructor opens the ELF file,     *)
(* read_elf reads its tables, load_data copies what read_elf takes for the  *)
(* data sections, and load_prog copies the segments.  One step per byte.    *)
(*                                                                         *)
(* Offsets into the file and names are data: an image is a record           *)
(*   secs   the section headers: name, addr, size, offset                   *)
(*   segs   the program headers: vaddr, filesz, offset                      *)
(*   bytes  the contents of the file                                        *)
(* as sequences; index n of an array of the code is element n + 1 here.     *)
(***************************************************************************)
EXTENDS MemoryOps, Sequences

CONSTANT Images     \* the files that may be given to the simulator

(* The names that read_elf compares with, in the order of its array.       *)
loader == <<".data", ".sdata", ".rodata", ".rodatal">>
ReadOnly == {".rodata", ".rodatal"}

SectionHeader == [name : STRING, addr : Addr, size : Nat, offset : Nat]
ProgramHeader == [vaddr : Addr, filesz : Nat, offset : Nat]

(* load_data indexes the section headers with 0..3; the addresses of a      *)
(* section or segment, and the one after it, do not wrap.                   *)
Loadable(f) ==
    /\ f.secs \in Seq(SectionHeader) /\ f.segs \in Seq(ProgramHeader)
    /\ f.bytes \in Seq(Byte)
    /\ Len(f.secs) >= Len(loader)
    /\ \A s \in DOMAIN f.secs : f.secs[s].addr + f.secs[s].size < AddrSpace
    /\ \A s \in DOMAIN f.segs : f.segs[s].vaddr + f.segs[s].filesz < AddrSpace
ASSUME ImageAssumption == \A f \in Images : Loadable(f)

VARIABLES
    image,     \* the file, elf_header and the tables read from it
    phase,     \* where the constructor is
    sec,       \* i of read_elf, the section it looks at
    index,     \* data_index of load_data
    seg,       \* i of load_prog
    pos,       \* bytes of the section or segment copied so far
    cur,       \* cur_data of load_data, cur_inst of load_prog
    mem,       \* mmu_t::mem
    forbid     \* mmu_t::forbid

vars == <<image, phase, sec, index, seg, pos, cur, mem, forbid>>

Names(f) == {f.secs[s].name : s \in DOMAIN f.secs}
section == image.secs[index + 1]
segment == image.segs[seg + 1]

(* fread of one byte into cur: at the end of the file it leaves cur alone, *)
(* and nothing looks at its result.                                         *)
Fread_Short(offset) ==
    IF offset < Len(image.bytes) - 1 THEN image.bytes[offset + 1] ELSE cur
Fread(offset) == IF offset < Len(image.bytes) THEN image.bytes[offset + 1] ELSE cur

Init ==
    /\ image \in Images
    /\ phase = "open"
    /\ sec = 0 /\ index = 0 /\ seg = 0 /\ pos = 0
    /\ cur \in Byte
    /\ mem = [a \in Addr |-> NoByte]
    /\ forbid = {}

(* fopen fails, and the constructor exits.                                 *)
FailOpen ==
    /\ phase = "open"
    /\ phase' = "exited"
    /\ UNCHANGED <<image, sec, index, seg, pos, cur, mem, forbid>>

(* read_elf_header, read_prog_headers and read_sec_headers; then            *)
(* read_sym_tbls, which exits when either table is missing.                 *)
ReadTables ==
    /\ phase = "open"
    /\ phase' = IF {".strtab", ".symtab"} \subseteq Names(image) THEN "sections"
                                                                ELSE "exited"
    /\ UNCHANGED <<image, sec, index, seg, pos, cur, mem, forbid>>

SkipSection ==
    /\ phase = "sections" /\ sec < Len(image.secs)
    /\ \A j \in DOMAIN loader : loader[j] # image.secs[sec + 1].name
    /\ sec' = sec + 1
    /\ UNCHANGED <<image, phase, index, seg, pos, cur, mem, forbid>>

LoadSection_NextHeader ==
    /\ phase = "sections" /\ sec < Len(image.secs)
    /\ \E j \in DOMAIN loader :
          /\ loader[j] = image.secs[sec + 1].name
          /\ index' = j
    /\ LET s == image.secs[index' + 1]
       IN  forbid' = IF s.name \in ReadOnly /\ \A b \in forbid : b[1] # s.addr
                     THEN forbid \cup {<<s.addr, s.addr + s.size>>}
                     ELSE forbid
    /\ phase' = "load_data"
    /\ pos' = 0
    /\ cur' \in Byte
    /\ UNCHANGED <<image, sec, seg, mem>>

LoadSection_AnyName ==
    /\ phase = "sections" /\ sec < Len(image.secs)
    /\ \E j \in DOMAIN loader :
          /\ loader[j] = image.secs[sec + 1].name
          /\ index' = j - 1
    /\ LET s == image.secs[index' + 1]
       IN  forbid' = forbid \cup {<<s.addr, s.addr + s.size>>}
    /\ phase' = "load_data"
    /\ pos' = 0
    /\ cur' \in Byte
    /\ UNCHANGED <<image, sec, seg, mem>>

(* Section i has the name loader[j]: read_elf calls load_data(file, j).     *)
(* load_data forbids the section by that index when its name is read-only; *)
(* std::map::insert keeps a block that starts at the same address.          *)
LoadSection ==
    /\ phase = "sections" /\ sec < Len(image.secs)
    /\ \E j \in DOMAIN loader :
          /\ loader[j] = image.secs[sec + 1].name
          /\ index' = j - 1
    /\ LET s == image.secs[index' + 1]
       IN  forbid' = IF s.name \in ReadOnly /\ \A b \in forbid : b[1] # s.addr
                     THEN forbid \cup {<<s.addr, s.addr + s.size>>}
                     ELSE forbid
    /\ phase' = "load_data"
    /\ pos' = 0
    /\ cur' \in Byte
    /\ UNCHANGED <<image, sec, seg, mem>>

LoadDataByte_Shifted ==
    /\ phase = "load_data" /\ pos < section.size
    /\ cur' = Fread(section.offset + pos)
    /\ mem' = Insert(mem, At(section.addr, pos + 1), cur')
    /\ pos' = pos + 1
    /\ UNCHANGED <<image, phase, sec, index, seg, forbid>>

LoadDataByte ==
    /\ phase = "load_data" /\ pos < section.size
    /\ cur' = Fread(section.offset + pos)
    /\ mem' = Insert(mem, At(section.addr, pos), cur')
    /\ pos' = pos + 1
    /\ UNCHANGED <<image, phase, sec, index, seg, forbid>>

EndLoadData_SameSection ==
    /\ phase = "load_data" /\ pos = section.size
    /\ phase' = "sections"
    /\ UNCHANGED <<image, sec, index, seg, pos, cur, mem, forbid>>

EndLoadData ==
    /\ phase = "load_data" /\ pos = section.size
    /\ phase' = "sections"
    /\ sec' = sec + 1
    /\ UNCHANGED <<image, index, seg, pos, cur, mem, forbid>>

BeginLoadProg ==
    /\ phase = "sections" /\ sec = Len(image.secs)
    /\ phase' = "load_prog"
    /\ seg' = 0 /\ pos' = 0
    /\ cur' \in Byte
    /\ UNCHANGED <<image, sec, index, mem, forbid>>

(* Every program header is loaded, whatever its type, up to p_filesz.      *)
LoadProgByte ==
    /\ phase = "load_prog" /\ seg < Len(image.segs)
    /\ pos < segment.filesz
    /\ cur' = Fread(segment.offset + pos)
    /\ mem' = Insert(mem, At(segment.vaddr, pos), cur')
    /\ pos' = pos + 1
    /\ UNCHANGED <<image, phase, sec, index, seg, forbid>>

NextSegment ==
    /\ phase = "load_prog" /\ seg < Len(image.segs)
    /\ pos = segment.filesz
    /\ seg' = seg + 1 /\ pos' = 0
    /\ UNCHANGED <<image, phase, sec, index, cur, mem, forbid>>

EndLoadProg ==
    /\ phase = "load_prog" /\ seg = Len(image.segs)
    /\ phase' = "loaded"
    /\ UNCHANGED <<image, sec, index, seg, pos, cur, mem, forbid>>

Next ==
    \/ FailOpen \/ ReadTables
    \/ SkipSection \/ LoadSection \/ LoadDataByte \/ EndLoadData
    \/ BeginLoadProg \/ LoadProgByte \/ NextSegment \/ EndLoadProg

Spec == Init /\ [][Next]_vars

(***************************************************************************)
(* Properties.                                                              *)
(***************************************************************************)
(* Every variable keeps its type, and indices stay inside their tables.    *)
TypeOK ==
    /\ image \in Images
    /\ phase \in {"open", "sections", "load_data", "load_prog", "loaded", "exited"}
    /\ sec \in 0..Len(image.secs) /\ index \in 0..(Len(loader) - 1)
    /\ seg \in 0..Len(image.segs) /\ pos \in Nat
    /\ cur \in Byte
    /\ mem \in MemMap
    /\ forbid \subseteq Addr \X Addr

(* The parts of the file that the loader copies: each segment, and the      *)
(* section headers load_data is called for.                                 *)
Region(addr, size, offset) == [addr |-> addr, size |-> size, offset |-> offset]
Segments(f) == {Region(f.segs[s].vaddr, f.segs[s].filesz, f.segs[s].offset) : s \in DOMAIN f.segs}
DataSections(f) ==
    {Region(f.secs[j].addr, f.secs[j].size, f.secs[j].offset) :
        j \in {k \in DOMAIN loader : loader[k] \in Names(f)}}
Regions(f) == Segments(f) \cup DataSections(f)

(* Byte k of a region, where the file has it.                              *)
InFile(f, r, k) == r.offset + k < Len(f.bytes)
FileByte(f, r, k) == f.bytes[r.offset + k + 1]

(* Two parts of the file that share an address have the same byte there.   *)
Agree(f) ==
    \A r, q \in Regions(f) : \A k \in 0..(r.size - 1), l \in 0..(q.size - 1) :
        r.addr + k = q.addr + l =>
            /\ InFile(f, r, k) /\ InFile(f, q, l)
            /\ FileByte(f, r, k) = FileByte(f, q, l)

(* Once loaded, memory holds every byte of every segment, although insert   *)
(* never replaces a byte that a section put there before.                   *)
SegmentsArrive ==
    phase = "loaded" /\ Agree(image) =>
        \A r \in Segments(image) : \A k \in 0..(r.size - 1) :
            mem[r.addr + k] = FileByte(image, r, k)

(* No byte is in memory that a segment or a data section does not have at   *)
(* that address, whatever section load_data was given; a byte the file is   *)
(* too short for may be anything.                                           *)
OnlyFileBytes ==
    \A a \in Mapped(mem) :
        \E r \in Regions(image) : \E k \in 0..(r.size - 1) :
            /\ r.addr + k = a
            /\ InFile(image, r, k) => mem[a] = FileByte(image, r, k)

(* The copies in the order in which they are made: one for each section     *)
(* header that has a name of loader, of the section that the place of the   *)
(* name selects, and after them one for each segment.                       *)
Copies(f) ==
    {s \in DOMAIN f.secs : \E j \in DOMAIN loader : loader[j] = f.secs[s].name}
        \cup {Len(f.secs) + s : s \in DOMAIN f.segs}
Copy(f, n) ==
    IF n <= Len(f.secs)
    THEN LET s == f.secs[CHOOSE j \in DOMAIN loader : loader[j] = f.secs[n].name]
         IN  Region(s.addr, s.size, s.offset)
    ELSE LET s == f.segs[n - Len(f.secs)]
         IN  Region(s.vaddr, s.filesz, s.offset)
Holds(r, a) == a \in r.addr..(r.addr + r.size - 1)

(* Once loaded, an address has the byte of the first copy that reaches it,  *)
(* whatever later ones have there, be it that of a section that load_data   *)
(* was given by mistake; and an address that no copy reaches, as one past   *)
(* p_filesz, has none.  The byte is any where the file is too short.        *)
FirstCopyStays ==
    phase = "loaded" =>
        \A a \in Addr :
            LET reach == {n \in Copies(image) : Holds(Copy(image, n), a)}
            IN  /\ mem[a] # NoByte <=> reach # {}
                /\ \A n \in reach :
                      LET r == Copy(image, n)
                      IN  (\A m \in reach : n <= m) /\ InFile(image, r, a - r.addr)
                              => mem[a] = FileByte(image, r, a - r.addr)

(* A block is forbidden, "[a,b] is forbidden block" (mmu.h:82), for every   *)
(* read-only section: each of its addresses is in the block.                *)
Protected(s) == \A a \in s.addr..(s.addr + s.size - 1) : ban(forbid, a)
RodataProtected ==
    phase = "loaded" =>
        \A s \in DOMAIN image.secs :
            image.secs[s].name = ".rodata" => Protected(image.secs[s])

(* Another section that load_data may take before number 2, read-only and   *)
(* starting at the same address, but shorter: its block stays.              *)
Shadowed(f) ==
    \E s \in DOMAIN loader \ {3} :
        /\ f.secs[s].name \in ReadOnly /\ f.secs[s].addr = f.secs[3].addr
        /\ f.secs[s].size + 1 < f.secs[3].size

(* What holds of it: .rodata is protected when its header is number 2, the  *)
(* place of ".rodata" in loader, because read_elf passes the place of the   *)
(* name and not of the section; and when no shorter block keeps it out.     *)
RodataAtTwoProtected ==
    phase = "loaded" /\ image.secs[3].name = ".rodata" /\ ~Shadowed(image) =>
        Protected(image.secs[3])

(* Only bytes of read-only sections are forbidden to write, and at most the *)
(* first byte after such a section, which second includes.                  *)
ForbiddenAtMostOneMore ==
    \A b \in forbid : \A a \in Block(b) :
        \E s \in DOMAIN image.secs :
            /\ image.secs[s].name \in ReadOnly
            /\ a \in image.secs[s].addr..(image.secs[s].addr + image.secs[s].size)
=============================================================================
