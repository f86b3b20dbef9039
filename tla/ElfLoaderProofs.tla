--------------------------- MODULE ElfLoaderProofs ---------------------------
(* Theorems about ElfLoader for every file that meets ImageAssumption and   *)
(* every address space: whatever the order of the headers and however the   *)
(* sections and segments overlap.                                           *)
EXTENDS ElfLoader, TLAPS

USE MemoryAssumption

-----------------------------------------------------------------------------
(* Files.                                                                  *)
LEMMA LoaderNames ==
    /\ Len(loader) = 4 /\ DOMAIN loader = 1..4
    /\ loader[3] = ".rodata" /\ ".rodata" \in ReadOnly
    /\ \A j \in 1..4 : loader[j] = ".rodata" => j = 3
BY DEF loader, ReadOnly

(* The headers and the bytes of a file of the assumption.                  *)
LEMMA SectionTypes ==
    ASSUME NEW f \in Images
    PROVE  /\ Len(f.secs) \in Nat /\ Len(f.secs) >= 4 /\ DOMAIN f.secs = 1..Len(f.secs)
           /\ \A s \in 1..Len(f.secs) :
                 /\ f.secs[s].addr \in Addr /\ f.secs[s].size \in Nat
                 /\ f.secs[s].offset \in Nat
                 /\ f.secs[s].addr + f.secs[s].size < AddrSpace
<1>1. /\ f.secs \in Seq(SectionHeader) /\ Len(f.secs) >= Len(loader)
      /\ \A s \in DOMAIN f.secs : f.secs[s].addr + f.secs[s].size < AddrSpace
  BY ImageAssumption DEF Loadable
<1>2. Len(f.secs) \in Nat /\ DOMAIN f.secs = 1..Len(f.secs)
  BY <1>1
<1>3. \A s \in 1..Len(f.secs) : f.secs[s] \in SectionHeader
  BY <1>1
<1>4. \A h \in SectionHeader : h.addr \in Addr /\ h.size \in Nat /\ h.offset \in Nat
  BY DEF SectionHeader
<1> QED BY <1>1, <1>2, <1>3, <1>4, LoaderNames

LEMMA SegmentTypes ==
    ASSUME NEW f \in Images
    PROVE  /\ Len(f.segs) \in Nat /\ DOMAIN f.segs = 1..Len(f.segs)
           /\ \A s \in 1..Len(f.segs) :
                 /\ f.segs[s].vaddr \in Addr /\ f.segs[s].filesz \in Nat
                 /\ f.segs[s].offset \in Nat
                 /\ f.segs[s].vaddr + f.segs[s].filesz < AddrSpace
<1>1. /\ f.segs \in Seq(ProgramHeader)
      /\ \A s \in DOMAIN f.segs : f.segs[s].vaddr + f.segs[s].filesz < AddrSpace
  BY ImageAssumption DEF Loadable
<1>2. Len(f.segs) \in Nat /\ DOMAIN f.segs = 1..Len(f.segs)
  BY <1>1
<1>3. \A s \in 1..Len(f.segs) : f.segs[s] \in ProgramHeader
  BY <1>1
<1>4. \A h \in ProgramHeader : h.vaddr \in Addr /\ h.filesz \in Nat /\ h.offset \in Nat
  BY DEF ProgramHeader
<1> QED BY <1>1, <1>2, <1>3, <1>4

LEMMA FileTypes ==
    ASSUME NEW f \in Images
    PROVE  Len(f.bytes) \in Nat /\ \A n \in 1..Len(f.bytes) : f.bytes[n] \in Byte
BY ImageAssumption DEF Loadable

(* An address plus an offset that does not wrap.                           *)
LEMMA AtPlain ==
    ASSUME NEW a \in Addr, NEW k \in Nat, a + k < AddrSpace
    PROVE  At(a, k) = a + k /\ a + k \in Addr
BY DEF At, Addr

-----------------------------------------------------------------------------
(* Types.                                                                  *)

(* Where the loader stands: besides its type, a section being copied is one *)
(* whose name the section looked at has, and pos stays inside it.           *)
Position ==
    /\ image \in Images
    /\ phase \in {"open", "sections", "load_data", "load_prog", "loaded", "exited"}
    /\ sec \in 0..Len(image.secs) /\ index \in 0..3
    /\ seg \in 0..Len(image.segs) /\ pos \in Nat
    /\ phase = "open" => sec = 0
    /\ phase = "load_data" =>
          /\ pos <= section.size /\ sec < Len(image.secs)
          /\ loader[index + 1] = image.secs[sec + 1].name
    /\ phase = "load_prog" /\ seg < Len(image.segs) => pos <= segment.filesz
    /\ phase = "loaded" => seg = Len(image.segs)

LEMMA PositionInit == Init => Position
BY SectionTypes, SegmentTypes DEF Init, Position

LEMMA PositionNext == Position /\ [Next]_vars => Position'
<1> SUFFICES ASSUME Position, [Next]_vars PROVE Position'
  OBVIOUS
<1> USE DEF Position
<1>0. /\ Len(image.secs) \in Nat /\ Len(image.secs) >= 4 /\ Len(image.segs) \in Nat
      /\ DOMAIN loader = 1..4
      /\ \A s \in 1..Len(image.secs) : image.secs[s].size \in Nat
      /\ \A s \in 1..Len(image.segs) : image.segs[s].filesz \in Nat
  BY SectionTypes, SegmentTypes, LoaderNames
<1>1. CASE FailOpen \/ ReadTables
  BY <1>1 DEF FailOpen, ReadTables
<1>2. CASE SkipSection
  BY <1>0, <1>2 DEF SkipSection
<1>3. CASE LoadSection
  <2>1. PICK j \in DOMAIN loader : loader[j] = image.secs[sec + 1].name /\ index' = j - 1
    BY <1>3 DEF LoadSection
  <2>2. index' \in 0..3 /\ index' + 1 = j /\ image' = image /\ pos' = 0
    BY <1>0, <1>3, <2>1 DEF LoadSection
  <2>3. section' = image.secs[j] /\ section'.size \in Nat
    <3>1. section' = image.secs[j]
      BY <2>2 DEF section
    <3>2. j \in 1..Len(image.secs)
      BY <1>0, <2>1
    <3> QED BY <1>0, <3>1, <3>2
  <2>4. loader[index' + 1] = image'.secs[sec' + 1].name /\ sec' = sec /\ sec < Len(image.secs)
    BY <1>3, <2>1, <2>2 DEF LoadSection
  <2>5. phase' = "load_data" /\ seg' = seg /\ pos' <= section'.size
    BY <1>3, <2>2, <2>3 DEF LoadSection
  <2> QED BY <2>2, <2>4, <2>5
<1>4. CASE LoadDataByte
  <2>1. section.size \in Nat /\ section' = section
    BY <1>0, <1>4 DEF LoadDataByte, section
  <2> QED BY <1>4, <2>1 DEF LoadDataByte
<1>5. CASE EndLoadData
  BY <1>0, <1>5 DEF EndLoadData
<1>6. CASE BeginLoadProg
  <2>1. seg' < Len(image.segs) => segment'.filesz \in Nat
    BY <1>0, <1>6 DEF BeginLoadProg, segment
  <2> QED BY <1>0, <1>6, <2>1 DEF BeginLoadProg
<1>7. CASE LoadProgByte
  <2>1. segment.filesz \in Nat /\ segment' = segment
    BY <1>0, <1>7 DEF LoadProgByte, segment
  <2> QED BY <1>7, <2>1 DEF LoadProgByte
<1>8. CASE NextSegment
  <2>1. image' = image /\ seg' = seg + 1 /\ seg' \in 0..Len(image.segs)
    BY <1>0, <1>8 DEF NextSegment
  <2>2. segment' = image.segs[seg' + 1]
    BY <2>1 DEF segment
  <2>3. seg' < Len(image.segs) => segment'.filesz \in Nat
    BY <1>0, <2>1, <2>2
  <2> QED BY <1>0, <1>8, <2>1, <2>3 DEF NextSegment
<1>9. CASE EndLoadProg
  BY <1>9 DEF EndLoadProg
<1>10. CASE UNCHANGED vars
  BY <1>10 DEF vars, section, segment
<1> QED BY <1>1, <1>2, <1>3, <1>4, <1>5, <1>6, <1>7, <1>8, <1>9, <1>10 DEF Next

(* A byte that is read is one of the file's, or the one before it.         *)
LEMMA FreadType ==
    ASSUME NEW n \in Nat, image \in Images, cur \in Byte
    PROVE  Fread(n) \in Byte
BY FileTypes DEF Fread

LEMMA InsertType ==
    ASSUME NEW m \in MemMap, NEW a \in Addr, NEW byte \in Byte
    PROVE  Insert(m, a, byte) \in MemMap
BY DEF Insert, MemMap

(* What has been copied and forbidden.                                     *)
Contents == cur \in Byte /\ mem \in MemMap /\ forbid \subseteq Addr \X Addr

(* The byte of a section, or of a segment, that is copied next.            *)
LEMMA SectionByte ==
    ASSUME Position, LoadDataByte
    PROVE  /\ section.addr \in Addr /\ section.offset + pos \in Nat
           /\ At(section.addr, pos) = section.addr + pos /\ section.addr + pos \in Addr
           /\ pos \in 0..(section.size - 1)
<1>1. index + 1 \in 1..Len(image.secs) /\ pos \in Nat /\ pos < section.size
  <2>1. image \in Images /\ index \in 0..3 /\ pos \in Nat /\ pos < section.size
    BY DEF Position, LoadDataByte
  <2>2. Len(image.secs) \in Nat /\ Len(image.secs) >= 4
    BY <2>1, SectionTypes
  <2> QED BY <2>1, <2>2
<1>2. section.size \in Nat /\ section.offset \in Nat /\ section.addr \in Addr
      /\ section.addr + section.size < AddrSpace
  BY <1>1, SectionTypes DEF section, Position
<1>3. section.addr + pos < AddrSpace
  BY <1>1, <1>2 DEF Addr
<1> QED BY <1>1, <1>2, <1>3, AtPlain

LEMMA SegmentByte ==
    ASSUME Position, LoadProgByte
    PROVE  /\ segment.vaddr \in Addr /\ segment.offset + pos \in Nat
           /\ At(segment.vaddr, pos) = segment.vaddr + pos /\ segment.vaddr + pos \in Addr
           /\ pos \in 0..(segment.filesz - 1)
<1>1. seg + 1 \in 1..Len(image.segs) /\ pos \in Nat /\ pos < segment.filesz
  BY SegmentTypes DEF Position, LoadProgByte
<1>2. segment.filesz \in Nat /\ segment.offset \in Nat /\ segment.vaddr \in Addr
      /\ segment.vaddr + segment.filesz < AddrSpace
  BY <1>1, SegmentTypes DEF segment, Position
<1>3. segment.vaddr + pos < AddrSpace
  BY <1>1, <1>2 DEF Addr
<1> QED BY <1>1, <1>2, <1>3, AtPlain

LEMMA ContentsNext == Position /\ Contents /\ [Next]_vars => Contents'
<1> SUFFICES ASSUME Position, Contents, [Next]_vars PROVE Contents'
  OBVIOUS
<1> USE DEF Contents
<1>0. image \in Images /\ DOMAIN loader = 1..4
  BY LoaderNames DEF Position
<1>1. CASE \/ FailOpen \/ ReadTables \/ SkipSection \/ EndLoadData \/ BeginLoadProg
           \/ NextSegment \/ EndLoadProg \/ UNCHANGED vars
  BY <1>1 DEF FailOpen, ReadTables, SkipSection, EndLoadData, BeginLoadProg, NextSegment,
              EndLoadProg, vars
<1>2. CASE LoadSection
  <2>1. index' + 1 \in 1..4
    BY <1>0, <1>2 DEF LoadSection
  <2>2. index' + 1 \in 1..Len(image.secs)
    BY <1>0, <2>1, SectionTypes
  <2> DEFINE s == image.secs[index' + 1]
  <2>3. s.addr \in Addr /\ s.size \in Nat /\ s.addr + s.size < AddrSpace
    BY <1>0, <2>2, SectionTypes
  <2> HIDE DEF s
  <2>4. <<s.addr, s.addr + s.size>> \in Addr \X Addr
    BY <2>3 DEF Addr
  <2>5. forbid' \in {forbid, forbid \cup {<<s.addr, s.addr + s.size>>}}
    BY <1>2 DEF LoadSection, s
  <2> QED BY <1>2, <2>4, <2>5 DEF LoadSection
<1>3. CASE LoadDataByte
  <2>1. cur' \in Byte /\ At(section.addr, pos) \in Addr
    BY <1>0, <1>3, SectionByte, FreadType DEF LoadDataByte
  <2> QED BY <1>3, <2>1, InsertType DEF LoadDataByte
<1>4. CASE LoadProgByte
  <2>1. cur' \in Byte /\ At(segment.vaddr, pos) \in Addr
    BY <1>0, <1>4, SegmentByte, FreadType DEF LoadProgByte
  <2> QED BY <1>4, <2>1, InsertType DEF LoadProgByte
<1> QED BY <1>1, <1>2, <1>3, <1>4 DEF Next

LEMMA ContentsInit == Init => Contents
BY DEF Init, Contents, MemMap, Addr

(* Every variable of the loader keeps its type.                            *)
THEOREM LoaderTypes == Spec => []TypeOK
<1>1. Position /\ Contents => TypeOK
  BY LoaderNames DEF Position, Contents, TypeOK
<1> QED BY <1>1, ContentsInit, ContentsNext, PositionInit, PositionNext, PTL DEF Spec

-----------------------------------------------------------------------------
(* Forbidden blocks.                                                       *)

(* Each is the block of one of the sections that load_data can reach, and   *)
(* of a read-only one.                                                     *)
BlockOf(s) == <<s.addr, s.addr + s.size>>
BlocksOfSections ==
    \A b \in forbid : \E i \in 1..4 :
        image.secs[i].name \in ReadOnly /\ b = BlockOf(image.secs[i])

LEMMA LoadSectionForbids ==
    ASSUME Position, LoadSection
    PROVE  \E j \in 1..4 :
              /\ loader[j] = image.secs[sec + 1].name
              /\ \/ forbid' = forbid
                 \/ /\ image.secs[j].name \in ReadOnly
                    /\ forbid' = forbid \cup {BlockOf(image.secs[j])}
              /\ \/ image.secs[j].name \notin ReadOnly
                 \/ BlockOf(image.secs[j]) \in forbid'
                 \/ \E b \in forbid : b[1] = image.secs[j].addr
<1>1. PICK j \in DOMAIN loader : loader[j] = image.secs[sec + 1].name /\ index' = j - 1
  BY DEF LoadSection
<1>2. j \in 1..4 /\ index' + 1 = j
  BY <1>1, LoaderNames
<1> DEFINE s == image.secs[j]
           new == s.name \in ReadOnly /\ \A b \in forbid : b[1] # s.addr
<1>3. forbid' = IF new THEN forbid \cup {BlockOf(s)} ELSE forbid
  BY <1>2 DEF LoadSection, BlockOf
<1>4. CASE new
  BY <1>1, <1>2, <1>3, <1>4
<1>5. CASE ~new
  BY <1>1, <1>2, <1>3, <1>5
<1> QED BY <1>4, <1>5

(* What the other steps do to the position, the file and the blocks.       *)
LEMMA ForbidsNothing ==
    ASSUME [Next]_vars, ~LoadSection
    PROVE  UNCHANGED <<image, forbid>>
BY DEF Next, FailOpen, ReadTables, SkipSection, LoadDataByte, EndLoadData, BeginLoadProg,
       LoadProgByte, NextSegment, EndLoadProg, vars

LEMMA BlocksNext == Position /\ BlocksOfSections /\ [Next]_vars => BlocksOfSections'
<1> SUFFICES ASSUME Position, BlocksOfSections, [Next]_vars PROVE BlocksOfSections'
  OBVIOUS
<1>1. CASE LoadSection
  <2>1. image' = image
    BY <1>1 DEF LoadSection
  <2>2. \E j \in 1..4 : \/ forbid' = forbid
                       \/ /\ image.secs[j].name \in ReadOnly
                          /\ forbid' = forbid \cup {BlockOf(image.secs[j])}
    BY <1>1, LoadSectionForbids
  <2> QED BY <2>1, <2>2 DEF BlocksOfSections
<1>2. CASE ~LoadSection
  BY <1>2, ForbidsNothing DEF BlocksOfSections
<1> QED BY <1>1, <1>2

LEMMA BlocksInit == Init => BlocksOfSections
BY DEF Init, BlocksOfSections

(* No byte is forbidden that is not of a read-only section or the one after *)
(* it: for every file.                                                     *)
THEOREM LittleMoreForbidden == Spec => []ForbiddenAtMostOneMore
<1>1. Position /\ BlocksOfSections => ForbiddenAtMostOneMore
  <2> SUFFICES ASSUME Position, BlocksOfSections, NEW b \in forbid, NEW a \in Block(b)
               PROVE  \E s \in DOMAIN image.secs :
                         /\ image.secs[s].name \in ReadOnly
                         /\ a \in image.secs[s].addr..(image.secs[s].addr + image.secs[s].size)
    BY DEF ForbiddenAtMostOneMore
  <2>1. PICK i \in 1..4 : image.secs[i].name \in ReadOnly /\ b = BlockOf(image.secs[i])
    BY DEF BlocksOfSections
  <2>2. i \in DOMAIN image.secs /\ image.secs[i].addr \in Addr /\ image.secs[i].size \in Nat
    BY SectionTypes DEF Position
  <2>3. a \in Addr /\ image.secs[i].addr <= a /\ a <= image.secs[i].addr + image.secs[i].size
    BY <2>1 DEF Block, BlockOf
  <2>4. a \in image.secs[i].addr..(image.secs[i].addr + image.secs[i].size)
    BY <2>2, <2>3 DEF Addr
  <2> QED BY <2>1, <2>2, <2>4
<1> QED BY <1>1, BlocksInit, BlocksNext, PositionInit, PositionNext, PTL DEF Spec

(* From the look at section 2 on, a block covers its .rodata.               *)
Reached ==
    \/ phase \in {"sections", "load_data"} /\ sec > 2
    \/ phase = "load_data" /\ sec = 2
    \/ phase \in {"load_prog", "loaded"}
Covers(b, s) == b[1] = s.addr /\ b[2] + 1 >= s.addr + s.size
RodataGuarded ==
    image.secs[3].name = ".rodata" /\ ~Shadowed(image) /\ Reached =>
        \E b \in forbid : Covers(b, image.secs[3])

LEMMA RodataGuardedNext ==
    Position /\ BlocksOfSections /\ RodataGuarded /\ [Next]_vars => RodataGuarded'
<1> SUFFICES ASSUME Position, BlocksOfSections, RodataGuarded, [Next]_vars,
                    image'.secs[3].name = ".rodata", ~Shadowed(image)', Reached'
             PROVE  (\E b \in forbid : Covers(b, image.secs[3]))'
  BY DEF RodataGuarded
<1>0. image' = image /\ forbid \subseteq forbid'
  <2>1. CASE LoadSection
    BY <2>1, LoadSectionForbids DEF LoadSection
  <2> QED BY <2>1, ForbidsNothing
<1> DEFINE s == image.secs[3]
<1>1. s.name = ".rodata" /\ ~Shadowed(image) /\ s.addr \in Addr /\ s.size \in Nat
  BY <1>0, SectionTypes DEF Position
<1>2. CASE Reached
  BY <1>0, <1>1, <1>2 DEF RodataGuarded, Covers
<1>3. CASE ~Reached
  <2>1. LoadSection /\ sec = 2
    <3>1. Len(image.secs) >= 4
      BY SectionTypes DEF Position
    <3>2. ~SkipSection \/ sec # 2
      BY <1>1, LoaderNames DEF SkipSection
    <3>3. ~ (FailOpen \/ ReadTables)
      BY <1>3 DEF Position, Reached, FailOpen, ReadTables
    <3>4. ~ (LoadDataByte \/ EndLoadData \/ BeginLoadProg)
      BY <1>3, <3>1 DEF Position, Reached, LoadDataByte, EndLoadData, BeginLoadProg
    <3>5. ~ (LoadProgByte \/ NextSegment \/ EndLoadProg \/ UNCHANGED vars)
      BY <1>3 DEF Reached, LoadProgByte, NextSegment, EndLoadProg, vars
    <3>6. SkipSection \/ LoadSection
      BY <3>3, <3>4, <3>5 DEF Next
    <3> QED BY <1>3, <3>2, <3>6 DEF Position, Reached, SkipSection, LoadSection
  <2>2. BlockOf(s) \in forbid' \/ \E b \in forbid : b[1] = s.addr
    BY <1>1, <2>1, LoadSectionForbids, LoaderNames
  <2>3. \E b \in forbid' : Covers(b, s)
    <3>1. CASE BlockOf(s) \in forbid'
      BY <1>1, <3>1 DEF BlockOf, Covers, Addr
    <3>2. CASE \E b \in forbid : b[1] = s.addr
      <4>1. PICK b \in forbid : b[1] = s.addr
        BY <3>2
      <4>2. PICK i \in 1..4 : image.secs[i].name \in ReadOnly /\ b = BlockOf(image.secs[i])
        BY DEF BlocksOfSections
      <4>3. image.secs[i].addr = s.addr /\ image.secs[i].size \in Nat
        BY <4>1, <4>2, SectionTypes DEF BlockOf, Position
      <4>4. image.secs[i].size + 1 >= s.size
        BY <1>1, <4>2, <4>3, LoaderNames DEF Shadowed
      <4>5. b[2] = s.addr + image.secs[i].size
        BY <4>2, <4>3 DEF BlockOf
      <4>6. s.addr \in Nat
        BY <1>1 DEF Addr
      <4>7. b[2] + 1 >= s.addr + s.size
        BY <1>1, <4>3, <4>4, <4>5, <4>6
      <4> QED BY <1>0, <4>1, <4>7 DEF Covers
    <3> QED BY <2>2, <3>1, <3>2
  <2> QED BY <1>0, <2>3 DEF Covers
<1> QED BY <1>2, <1>3

(* A block that covers a section protects it.                               *)
LEMMA CoveredIsProtected ==
    ASSUME Position, BlocksOfSections, NEW b \in forbid, NEW i \in 1..4,
           Covers(b, image.secs[i])
    PROVE  Protected(image.secs[i])
<1> DEFINE s == image.secs[i]
<1>1. \A j \in 1..4 : image.secs[j].addr \in Addr /\ image.secs[j].size \in Nat
  BY SectionTypes DEF Position
<1>2. b[2] \in Nat
  <2>1. PICK j \in 1..4 : b = BlockOf(image.secs[j])
    BY DEF BlocksOfSections
  <2> QED BY <1>1, <2>1 DEF BlockOf, Addr
<1>3. s.addr \in Nat /\ s.size \in Nat /\ b[1] = s.addr /\ b[2] + 1 >= s.addr + s.size
  BY <1>1 DEF Covers, Addr
<1>4. ASSUME NEW a \in s.addr..(s.addr + s.size - 1) PROVE ban(forbid, a)
  <2>1. b[1] <= a /\ a <= b[2]
    BY <1>2, <1>3
  <2> QED BY <2>1 DEF ban
<1> QED BY <1>4 DEF Protected

LEMMA RodataGuardedInit == Init => RodataGuarded
BY DEF Init, RodataGuarded, Reached

(* .rodata is protected when its header is number 2.                       *)
THEOREM RodataAtTwoAlways == Spec => []RodataAtTwoProtected
<1>1. Position /\ BlocksOfSections /\ RodataGuarded => RodataAtTwoProtected
  BY CoveredIsProtected DEF RodataGuarded, RodataAtTwoProtected, Reached
<1> QED BY <1>1, BlocksInit, BlocksNext, RodataGuardedInit, RodataGuardedNext, PositionInit,
           PositionNext, PTL DEF Spec

-----------------------------------------------------------------------------
(* The bytes of the file.                                                  *)

(* What insert puts at one address; a mapped byte stays what it is.        *)
LEMMA InsertAt ==
    ASSUME NEW m \in MemMap, NEW a \in Addr, NEW byte \in Byte
    PROVE  /\ Insert(m, a, byte)[a] # NoByte
           /\ \A x \in Addr : \/ Insert(m, a, byte)[x] = m[x]
                              \/ x = a /\ m[x] = NoByte /\ Insert(m, a, byte)[x] = byte
           /\ Mapped(m) \subseteq Mapped(Insert(m, a, byte))
<1>1. NoByte \notin Byte
  BY DEF Byte
<1> QED BY <1>1 DEF Insert, MemMap, Mapped

(* An insert of the byte that a region of the file has for an address.     *)
LEMMA RegionByte ==
    ASSUME Contents, OnlyFileBytes, image' = image, image \in Images,
           NEW r \in Regions(image), NEW k \in 0..(r.size - 1),
           r.addr + k \in Addr, r.offset + k \in Nat,
           mem' = Insert(mem, r.addr + k, Fread(r.offset + k))
    PROVE  OnlyFileBytes'
<1> DEFINE byte == Fread(r.offset + k)  at == r.addr + k
<1>1. byte \in Byte /\ mem \in MemMap
  BY FreadType DEF Contents
<1>2. InFile(image, r, k) => byte = FileByte(image, r, k)
  BY DEF InFile, FileByte, Fread
<1> HIDE DEF byte
<1> SUFFICES ASSUME NEW a \in Mapped(mem')
             PROVE  \E q \in Regions(image) : \E l \in 0..(q.size - 1) :
                       /\ q.addr + l = a
                       /\ InFile(image, q, l) => mem'[a] = FileByte(image, q, l)
  BY DEF OnlyFileBytes
<1>3. a \in Addr /\ mem'[a] # NoByte /\ mem' = Insert(mem, at, byte)
  BY DEF Mapped, byte
<1>4. CASE mem'[a] = mem[a]
  BY <1>3, <1>4 DEF OnlyFileBytes, Mapped
<1>5. CASE a = at /\ mem'[a] = byte
  BY <1>2, <1>5
<1> QED BY <1>1, <1>3, <1>4, <1>5, InsertAt

LEMMA OnlyFileBytesNext ==
    Position /\ Contents /\ OnlyFileBytes /\ [Next]_vars => OnlyFileBytes'
<1> SUFFICES ASSUME Position, Contents, OnlyFileBytes, [Next]_vars PROVE OnlyFileBytes'
  OBVIOUS
<1>0. image \in Images
  BY DEF Position
<1>1. CASE LoadDataByte
  <2> DEFINE r == Region(section.addr, section.size, section.offset)
  <2>1. index + 1 \in {j \in DOMAIN loader : loader[j] \in Names(image)}
    BY <1>1, SectionTypes, LoaderNames DEF Position, LoadDataByte, Names
  <2>2. r \in Regions(image)
    BY <2>1 DEF section, DataSections, Regions
  <2>3. r.addr = section.addr /\ r.size = section.size /\ r.offset = section.offset
    BY DEF Region
  <2>4. image' = image /\ mem' = Insert(mem, r.addr + pos, Fread(r.offset + pos))
    BY <1>1, <2>3, SectionByte DEF LoadDataByte
  <2> HIDE DEF r
  <2> QED BY <1>0, <1>1, <2>2, <2>3, <2>4, SectionByte, RegionByte
<1>2. CASE LoadProgByte
  <2> DEFINE r == Region(segment.vaddr, segment.filesz, segment.offset)
  <2>1. seg + 1 \in DOMAIN image.segs
    BY <1>2, SegmentTypes DEF Position, LoadProgByte
  <2>2. r \in Regions(image)
    BY <2>1 DEF segment, Segments, Regions
  <2>3. r.addr = segment.vaddr /\ r.size = segment.filesz /\ r.offset = segment.offset
    BY DEF Region
  <2>4. image' = image /\ mem' = Insert(mem, r.addr + pos, Fread(r.offset + pos))
    BY <1>2, <2>3, SegmentByte DEF LoadProgByte
  <2> HIDE DEF r
  <2> QED BY <1>0, <1>2, <2>2, <2>3, <2>4, SegmentByte, RegionByte
<1>3. CASE ~LoadDataByte /\ ~LoadProgByte
  <2>1. UNCHANGED <<image, mem>>
    BY <1>3 DEF Next, FailOpen, ReadTables, SkipSection, LoadSection, EndLoadData,
                BeginLoadProg, NextSegment, EndLoadProg, vars
  <2> QED BY <2>1 DEF OnlyFileBytes
<1> QED BY <1>1, <1>2, <1>3

LEMMA OnlyFileBytesInit == Init => OnlyFileBytes
BY DEF Init, OnlyFileBytes, Mapped

(* No byte is in memory that the file does not have there.                 *)
THEOREM OnlyFileBytesAlways == Spec => []OnlyFileBytes
BY ContentsInit, OnlyFileBytesInit, OnlyFileBytesNext, ContentsNext, PositionInit, PositionNext,
           PTL DEF Spec

(* In a file whose parts agree, a mapped byte of a part is that of the part. *)
LEMMA MappedAgrees ==
    ASSUME OnlyFileBytes, Agree(image), NEW r \in Regions(image),
           NEW k \in 0..(r.size - 1), r.addr + k \in Mapped(mem)
    PROVE  mem[r.addr + k] = FileByte(image, r, k)
<1>1. PICK q \in Regions(image) : \E l \in 0..(q.size - 1) :
          /\ q.addr + l = r.addr + k
          /\ InFile(image, q, l) => mem[r.addr + k] = FileByte(image, q, l)
  BY DEF OnlyFileBytes
<1> QED BY <1>1 DEF Agree

(* The bytes of the segments up to the one being copied are mapped.        *)
SegmentMapped(s, n) == \A k \in 0..(n - 1) : mem[image.segs[s].vaddr + k] # NoByte
SegmentsMapped ==
    /\ phase \in {"load_prog", "loaded"} =>
          \A s \in 1..seg : SegmentMapped(s, image.segs[s].filesz)
    /\ phase = "load_prog" /\ seg < Len(image.segs) => SegmentMapped(seg + 1, pos)

LEMMA SegmentsMappedInit == Init => SegmentsMapped
BY DEF Init, SegmentsMapped

LEMMA SegmentsMappedNext ==
    Position /\ Contents /\ SegmentsMapped /\ [Next]_vars => SegmentsMapped'
<1> SUFFICES ASSUME Position, Contents, SegmentsMapped, [Next]_vars PROVE SegmentsMapped'
  OBVIOUS
<1>0. image \in Images /\ seg \in Nat /\ pos \in Nat /\ Len(image.segs) \in Nat
      /\ \A s \in 1..Len(image.segs) : image.segs[s].filesz \in Nat
  BY SegmentTypes DEF Position
<1>1. CASE phase' \notin {"load_prog", "loaded"}
  BY <1>1 DEF SegmentsMapped
<1>2. CASE BeginLoadProg
  BY <1>0, <1>2 DEF BeginLoadProg, SegmentsMapped, SegmentMapped
<1>3. CASE LoadProgByte
  <2>1. /\ segment.vaddr + pos \in Addr /\ segment.offset + pos \in Nat
        /\ cur' \in Byte /\ mem \in MemMap
        /\ mem' = Insert(mem, segment.vaddr + pos, cur')
        /\ image' = image /\ seg' = seg /\ phase' = phase /\ pos' = pos + 1
    BY <1>0, <1>3, SegmentByte, FreadType DEF Contents, LoadProgByte
  <2>2. \A x \in Addr : mem[x] # NoByte => mem'[x] # NoByte
    BY <2>1, InsertAt DEF Mapped
  <2>3. mem'[segment.vaddr + pos] # NoByte
    BY <2>1, InsertAt
  <2>4. ASSUME NEW s \in 1..Len(image.segs), NEW k \in 0..(image.segs[s].filesz - 1)
        PROVE  image.segs[s].vaddr + k \in Addr
    <3>1. /\ image.segs[s].vaddr \in Addr /\ image.segs[s].filesz \in Nat
          /\ image.segs[s].vaddr + image.segs[s].filesz < AddrSpace
      BY <1>0, SegmentTypes
    <3>2. \A v \in Addr, z \in Nat : v + z < AddrSpace => \A j \in 0..(z - 1) : v + j \in Addr
      BY DEF Addr
    <3> QED BY <3>1, <3>2
  <2>5. ASSUME NEW s \in 1..seg PROVE SegmentMapped(s, image.segs[s].filesz)'
    <3>1. s \in 1..Len(image.segs) /\ SegmentMapped(s, image.segs[s].filesz)
      BY <1>0, <1>3 DEF SegmentsMapped, LoadProgByte, Position
    <3> QED BY <2>1, <2>2, <2>4, <3>1 DEF SegmentMapped
  <2>6. SegmentMapped(seg + 1, pos)'
    <3>1. SegmentMapped(seg + 1, pos) /\ seg + 1 \in 1..Len(image.segs)
      BY <1>0, <1>3 DEF SegmentsMapped, LoadProgByte
    <3>2. pos < image.segs[seg + 1].filesz /\ segment = image.segs[seg + 1]
      BY <1>3 DEF LoadProgByte, segment
    <3>3. ASSUME NEW k \in 0..pos PROVE mem'[image.segs[seg + 1].vaddr + k] # NoByte
      <4>1. CASE k = pos
        BY <2>3, <3>2, <4>1
      <4>2. CASE k # pos
        <5>1. k \in 0..(pos - 1) /\ k \in 0..(image.segs[seg + 1].filesz - 1)
          BY <1>0, <3>1, <3>2, <4>2
        <5> QED BY <2>2, <2>4, <3>1, <5>1 DEF SegmentMapped
      <4> QED BY <4>1, <4>2
    <3>4. (pos + 1) - 1 = pos
      BY <1>0
    <3> QED BY <2>1, <3>3, <3>4 DEF SegmentMapped
  <2> QED BY <2>1, <2>5, <2>6 DEF SegmentsMapped
<1>4. CASE NextSegment
  <2>1. SegmentMapped(seg + 1, image.segs[seg + 1].filesz)
    BY <1>4 DEF NextSegment, SegmentsMapped, segment
  <2>2. \A s \in 1..(seg + 1) : s \in 1..seg \/ s = seg + 1
    BY <1>0
  <2>3. \A s \in 1..(seg + 1) : SegmentMapped(s, image.segs[s].filesz)
    BY <1>4, <2>1, <2>2 DEF NextSegment, SegmentsMapped
  <2>4. mem' = mem /\ image' = image /\ seg' = seg + 1 /\ pos' = 0
    BY <1>4 DEF NextSegment
  <2> QED BY <2>3, <2>4 DEF SegmentsMapped, SegmentMapped
<1>5. CASE EndLoadProg \/ UNCHANGED vars
  BY <1>5 DEF EndLoadProg, vars, SegmentsMapped, SegmentMapped
<1> QED BY <1>1, <1>2, <1>3, <1>4, <1>5 DEF Next, FailOpen, ReadTables, SkipSection,
           LoadSection, LoadDataByte, EndLoadData

LEMMA SegmentAddress ==
    ASSUME Position, NEW r \in Segments(image), NEW k \in 0..(r.size - 1)
    PROVE  r.addr + k \in Addr
<1>1. PICK s \in DOMAIN image.segs :
          r = Region(image.segs[s].vaddr, image.segs[s].filesz, image.segs[s].offset)
  BY DEF Segments
<1>2. r.addr \in Addr /\ r.size \in Nat /\ r.addr + r.size < AddrSpace
  BY <1>1, SegmentTypes DEF Region, Position
<1> QED BY <1>2 DEF Addr

LEMMA SegmentsArrived == Position /\ OnlyFileBytes /\ SegmentsMapped => SegmentsArrive
<1> SUFFICES ASSUME Position, OnlyFileBytes, SegmentsMapped,
                    phase = "loaded", Agree(image),
                    NEW r \in Segments(image), NEW k \in 0..(r.size - 1)
             PROVE  mem[r.addr + k] = FileByte(image, r, k)
  BY DEF SegmentsArrive
<1>1. PICK s \in DOMAIN image.segs :
          r = Region(image.segs[s].vaddr, image.segs[s].filesz, image.segs[s].offset)
  BY DEF Segments
<1>2. /\ r.addr = image.segs[s].vaddr /\ r.size = image.segs[s].filesz
      /\ s \in 1..seg /\ r.addr \in Addr /\ r.size \in Nat /\ r.addr + r.size < AddrSpace
  BY <1>1, SegmentTypes DEF Region, Position
<1>3. r.addr + k \in Mapped(mem)
  <2>1. r.addr + k \in Addr
    BY SegmentAddress
  <2> QED BY <1>2, <2>1 DEF SegmentsMapped, SegmentMapped, Mapped
<1> QED BY <1>3, MappedAgrees DEF Regions

(* Every byte of every segment arrives, if the parts that overlap agree:    *)
(* for any number of sections and segments in any order.                   *)
THEOREM SegmentsAlwaysArrive == Spec => []SegmentsArrive
BY ContentsInit, SegmentsArrived, OnlyFileBytesInit, OnlyFileBytesNext, SegmentsMappedInit,
           SegmentsMappedNext, ContentsNext, PositionInit, PositionNext, PTL DEF Spec

-----------------------------------------------------------------------------
(* Which byte an address gets, when several copies reach it.               *)

(* Copy n has passed the address a: the copies of the headers and segments  *)
(* left behind have, and the one being made up to pos.                     *)
Now == IF phase \in {"load_prog", "loaded"} THEN Len(image.secs) + seg ELSE sec
Passed(n, a) ==
    /\ Holds(Copy(image, n), a)
    /\ \/ n <= Now
       \/ n = Now + 1 /\ phase \in {"load_data", "load_prog"} /\ a < Copy(image, n).addr + pos
FirstPassed(n, a) ==
    /\ n \in Copies(image) /\ Passed(n, a)
    /\ \A m \in Copies(image) : Passed(m, a) => n <= m

(* A byte is mapped when a copy has passed it, and is that of the first.    *)
HasByteOf(r, a) == InFile(image, r, a - r.addr) => mem[a] = FileByte(image, r, a - r.addr)
FirstCopies ==
    \A a \in Addr :
        /\ mem[a] # NoByte <=> \E n \in Copies(image) : Passed(n, a)
        /\ \A n : FirstPassed(n, a) => HasByteOf(Copy(image, n), a)

(* The place of a name in loader is unique.                                *)
LEMMA PlaceOfName ==
    ASSUME NEW j \in 1..4
    PROVE  (CHOOSE k \in DOMAIN loader : loader[k] = loader[j]) = j
<1>1. \A k, l \in DOMAIN loader : loader[k] = loader[l] => k = l
  BY DEF loader
<1>2. j \in DOMAIN loader
  BY LoaderNames
<1> QED BY <1>1, <1>2

LEMMA CopyTypes ==
    ASSUME NEW f \in Images, NEW n \in Copies(f)
    PROVE  /\ n \in Nat /\ Copy(f, n).addr \in Addr /\ Copy(f, n).size \in Nat
           /\ Copy(f, n).offset \in Nat
<1> USE DEF Region
<1>1. /\ Len(f.secs) \in Nat /\ Len(f.secs) >= 4 /\ Len(f.segs) \in Nat
      /\ DOMAIN f.secs = 1..Len(f.secs) /\ DOMAIN f.segs = 1..Len(f.segs)
  BY SectionTypes, SegmentTypes
<1>2. CASE n <= Len(f.secs)
  <2>1. n \in DOMAIN f.secs /\ \E j \in DOMAIN loader : loader[j] = f.secs[n].name
    BY <1>1, <1>2 DEF Copies
  <2>2. PICK j \in DOMAIN loader : loader[j] = f.secs[n].name
    BY <2>1
  <2>3. j \in 1..4 /\ j \in 1..Len(f.secs)
    BY <1>1, LoaderNames
  <2>4. Copy(f, n) = Region(f.secs[j].addr, f.secs[j].size, f.secs[j].offset)
    <3>1. (CHOOSE k \in DOMAIN loader : loader[k] = f.secs[n].name) = j
      BY <2>2, <2>3, PlaceOfName
    <3> QED BY <1>2, <3>1 DEF Copy
  <2> QED BY <1>1, <2>1, <2>3, <2>4, SectionTypes
<1>3. CASE ~(n <= Len(f.secs))
  <2>1. PICK s \in DOMAIN f.segs : n = Len(f.secs) + s
    BY <1>1, <1>3 DEF Copies
  <2>2. n - Len(f.secs) = s /\ n \in Nat
    BY <1>1, <2>1
  <2>3. Copy(f, n) = Region(f.segs[s].vaddr, f.segs[s].filesz, f.segs[s].offset)
    BY <1>3, <2>2 DEF Copy
  <2> QED BY <1>1, <2>2, <2>3, SegmentTypes
<1> QED BY <1>2, <1>3

LEMMA CopyBound ==
    ASSUME NEW f \in Images, NEW n \in Copies(f)
    PROVE  n <= Len(f.secs) + Len(f.segs)
<1> DEFINE p == Len(f.secs)  q == Len(f.segs)
<1>1. p \in Nat /\ q \in Nat /\ DOMAIN f.secs = 1..p /\ DOMAIN f.segs = 1..q
  BY SectionTypes, SegmentTypes
<1>2. n \in DOMAIN f.secs \/ \E s \in DOMAIN f.segs : n = p + s
  BY DEF Copies
<1> HIDE DEF p, q
<1>3. n \in 1..p \/ \E s \in 1..q : n = p + s
  BY <1>1, <1>2
<1>4. n <= p + q
  BY <1>1, <1>3
<1> QED BY <1>4 DEF p, q

(* The copy that is being made.                                            *)
LEMMA CopyOfData ==
    ASSUME Position, phase = "load_data"
    PROVE  /\ Now + 1 \in Copies(image)
           /\ Copy(image, Now + 1) = Region(section.addr, section.size, section.offset)
<1>1. /\ image \in Images /\ index + 1 \in 1..4 /\ sec + 1 <= Len(image.secs)
      /\ sec + 1 \in DOMAIN image.secs /\ loader[index + 1] = image.secs[sec + 1].name
      /\ Now = sec
  BY SectionTypes DEF Position, Now
<1>2. sec + 1 \in Copies(image)
  BY <1>1, LoaderNames DEF Copies
<1> QED BY <1>1, <1>2, PlaceOfName DEF Copy, section

LEMMA CopyOfSegment ==
    ASSUME Position, phase = "load_prog", seg < Len(image.segs)
    PROVE  /\ Now + 1 \in Copies(image)
           /\ Copy(image, Now + 1) = Region(segment.vaddr, segment.filesz, segment.offset)
<1>1. /\ image \in Images /\ Len(image.secs) \in Nat /\ seg + 1 \in DOMAIN image.segs
      /\ seg \in Nat /\ Now = Len(image.secs) + seg
  BY SectionTypes, SegmentTypes DEF Position, Now
<1>2. Now + 1 = Len(image.secs) + (seg + 1)
  <2>1. \A x, y \in Nat : (x + y) + 1 = x + (y + 1)
    OBVIOUS
  <2> QED BY <1>1, <2>1
<1>3. Now + 1 \in Copies(image)
  BY <1>1, <1>2 DEF Copies
<1>4. ~(Now + 1 <= Len(image.secs)) /\ (Now + 1) - Len(image.secs) = seg + 1
  BY <1>1, <1>2
<1> QED BY <1>3, <1>4 DEF Copy, segment

(* A step that copies no byte passes none.                                 *)
LEMMA PassesNothing ==
    ASSUME Position, [Next]_vars, ~LoadDataByte, ~LoadProgByte
    PROVE  /\ UNCHANGED <<image, mem>>
           /\ \A n \in Copies(image), a \in Addr : Passed(n, a)' <=> Passed(n, a)
<1>1. UNCHANGED <<image, mem>>
  BY DEF Next, FailOpen, ReadTables, SkipSection, LoadSection, EndLoadData,
         BeginLoadProg, NextSegment, EndLoadProg, vars
<1> SUFFICES ASSUME NEW n \in Copies(image), NEW a \in Addr PROVE Passed(n, a)' <=> Passed(n, a)
  BY <1>1
<1> DEFINE r == Copy(image, n)
<1>2. /\ n \in Nat /\ r.addr \in Nat /\ r.size \in Nat /\ a \in Nat
      /\ Len(image.secs) \in Nat /\ sec \in 0..Len(image.secs)
      /\ Len(image.segs) \in Nat /\ seg \in 0..Len(image.segs)
  BY CopyTypes, SectionTypes, SegmentTypes DEF Position, Addr
<1>3. Passed(n, a) <=> /\ a \in r.addr..(r.addr + r.size - 1)
                       /\ \/ n <= Now
                          \/ /\ n = Now + 1 /\ phase \in {"load_data", "load_prog"}
                             /\ a < r.addr + pos
  BY DEF Passed, Holds
<1>4. Passed(n, a)' <=> /\ a \in r.addr..(r.addr + r.size - 1)
                        /\ \/ n <= Now'
                           \/ /\ n = Now' + 1 /\ phase' \in {"load_data", "load_prog"}
                              /\ a < r.addr + pos'
  BY <1>1 DEF Passed, Holds
<1> HIDE DEF r
<1>5. CASE SkipSection
  <2>1. n # sec + 1
    <3>1. ~(\E j \in DOMAIN loader : loader[j] = image.secs[sec + 1].name)
          /\ sec + 1 <= Len(image.secs)
      BY <1>2, <1>5 DEF SkipSection
    <3>2. sec + 1 \notin {Len(image.secs) + s : s \in DOMAIN image.segs}
      BY <1>2, <3>1, SegmentTypes DEF Position
    <3> QED BY <3>1, <3>2 DEF Copies
  <2>2. Now = sec /\ Now' = sec + 1 /\ phase = "sections" /\ phase' = phase
    BY <1>5 DEF SkipSection, Now
  <2> QED BY <1>2, <1>3, <1>4, <2>1, <2>2
<1>6. CASE LoadSection
  <2>1. Now = sec /\ Now' = sec /\ phase = "sections" /\ phase' = "load_data" /\ pos' = 0
    BY <1>6 DEF LoadSection, Now
  <2> QED BY <1>2, <1>3, <1>4, <2>1
<1>7. CASE EndLoadData
  <2>1. /\ Now = sec /\ Now' = sec + 1 /\ phase = "load_data" /\ phase' = "sections"
        /\ pos = section.size
    BY <1>7 DEF EndLoadData, Now
  <2>2. n = sec + 1 => r.size = section.size
    BY <2>1, CopyOfData DEF r, Region
  <2> QED BY <1>2, <1>3, <1>4, <2>1, <2>2
<1>8. CASE BeginLoadProg
  <2>1. /\ Now = sec /\ Now' = sec /\ phase = "sections" /\ phase' = "load_prog" /\ pos' = 0
    BY <1>1, <1>2, <1>8 DEF BeginLoadProg, Now
  <2> QED BY <1>2, <1>3, <1>4, <2>1
<1>9. CASE NextSegment
  <2>1. /\ Now = Len(image.secs) + seg /\ Now' = Len(image.secs) + (seg + 1)
        /\ phase = "load_prog" /\ phase' = "load_prog" /\ pos = segment.filesz /\ pos' = 0
    BY <1>1, <1>9 DEF NextSegment, Now
  <2>2. n = Now + 1 => r.size = segment.filesz
    BY <1>9, <2>1, CopyOfSegment DEF r, Region, NextSegment
  <2>3. Now \in Nat /\ Now' = Now + 1
    <3> DEFINE p == Len(image.secs)
    <3>1. p \in Nat /\ seg \in Nat /\ Now = p + seg /\ Now' = p + (seg + 1)
      BY <1>2, <2>1
    <3> HIDE DEF p
    <3> QED BY <3>1
  <2>4. /\ phase = "load_prog" /\ phase' = "load_prog" /\ pos' = 0
        /\ n = Now + 1 => pos = r.size
    BY <2>1, <2>2
  <2>5. n \in Nat /\ r.addr \in Nat /\ r.size \in Nat /\ a \in Nat
    BY <1>2
  <2> QED BY <1>3, <1>4, <2>3, <2>4, <2>5
<1>10. CASE EndLoadProg
  <2>1. /\ Now = Len(image.secs) + Len(image.segs) /\ Now' = Now
        /\ phase = "load_prog" /\ phase' = "loaded"
    BY <1>1, <1>10 DEF EndLoadProg, Now
  <2>2. n <= Now /\ Now \in Nat
    <3> DEFINE p == Len(image.secs)  q == Len(image.segs)
    <3>1. p \in Nat /\ q \in Nat /\ Now = p + q
      BY <1>2, <2>1
    <3>2. n <= p + q
      BY CopyBound DEF Position
    <3> HIDE DEF p, q
    <3> QED BY <3>1, <3>2
  <2> QED BY <1>2, <1>3, <1>4, <2>1, <2>2
<1>11. CASE FailOpen \/ ReadTables
  <2>1. Now = sec /\ Now' = sec /\ phase = "open" /\ phase' \in {"exited", "sections"}
    BY <1>11 DEF FailOpen, ReadTables, Now
  <2> QED BY <1>2, <1>3, <1>4, <2>1
<1>12. CASE UNCHANGED vars
  BY <1>3, <1>4, <1>12 DEF vars, Now
<1> QED BY <1>5, <1>6, <1>7, <1>8, <1>9, <1>10, <1>11, <1>12 DEF Next

(* A step that copies a byte at the end of copy t passes that address.     *)
LEMMA PassesOne ==
    ASSUME FirstCopies, Contents, image \in Images, image' = image, phase' = phase,
           phase \in {"load_data", "load_prog"}, Now \in Nat, Now' = Now,
           NEW t \in Copies(image), t = Now + 1, pos \in Nat, pos' = pos + 1,
           pos < Copy(image, t).size,
           Copy(image, t).addr + pos \in Addr,
           mem' = Insert(mem, Copy(image, t).addr + pos, Fread(Copy(image, t).offset + pos))
    PROVE  FirstCopies'
<1> DEFINE r == Copy(image, t)  at == r.addr + pos  byte == Fread(r.offset + pos)
<1>0. /\ r.addr \in Nat /\ r.size \in Nat /\ r.offset \in Nat
      /\ \A n \in Copies(image) : n \in Nat
  BY CopyTypes DEF Addr
<1>1. byte \in Byte /\ mem \in MemMap /\ at \in Addr /\ mem' = Insert(mem, at, byte)
  BY <1>0, FreadType DEF Contents
<1>2. InFile(image, r, at - r.addr) => byte = FileByte(image, r, at - r.addr)
  <2>1. at - r.addr = pos
    BY <1>0
  <2>2. InFile(image, r, pos) => byte = FileByte(image, r, pos)
    BY DEF InFile, FileByte, Fread
  <2> QED BY <2>1, <2>2
<1>3. ASSUME NEW n \in Copies(image), NEW a \in Addr
      PROVE  Passed(n, a)' <=> Passed(n, a) \/ (n = t /\ a = at)
  <2>1. Passed(n, a) <=> /\ Holds(Copy(image, n), a)
                         /\ (n <= Now) \/ (n = t /\ a < Copy(image, n).addr + pos)
    BY DEF Passed
  <2>2. Passed(n, a)' <=> /\ Holds(Copy(image, n), a)
                          /\ (n <= Now) \/ (n = t /\ a < Copy(image, n).addr + (pos + 1))
    BY DEF Passed, Holds
  <2>3. a \in Nat /\ Holds(r, at)
    BY <1>0 DEF Addr, Holds
  <2> HIDE DEF r
  <2>4. CASE n = t
    BY <1>0, <2>1, <2>2, <2>3, <2>4 DEF r
  <2>5. CASE n # t
    BY <2>1, <2>2, <2>5
  <2> QED BY <2>4, <2>5
<1>4. ASSUME NEW m \in Copies(image), Passed(m, at) PROVE m <= Now
  BY <1>0, <1>4 DEF Passed
<1> HIDE DEF at, byte, r
<1>5. /\ mem'[at] # NoByte
      /\ \A x \in Addr : \/ mem'[x] = mem[x]
                         \/ x = at /\ mem[x] = NoByte /\ mem'[x] = byte
  BY <1>1, InsertAt
<1> SUFFICES ASSUME NEW a \in Addr
             PROVE  /\ mem'[a] # NoByte <=> \E n \in Copies(image) : Passed(n, a)'
                    /\ \A n : FirstPassed(n, a)' => HasByteOf(Copy(image, n), a)'
  BY DEF FirstCopies
<1>6. mem[a] # NoByte <=> \E n \in Copies(image) : Passed(n, a)
  BY DEF FirstCopies
<1>7. mem'[a] # NoByte <=> \E n \in Copies(image) : Passed(n, a)'
  <2>1. CASE a = at
    BY <1>3, <1>5, <2>1
  <2>2. CASE a # at
    BY <1>3, <1>5, <1>6, <2>2
  <2> QED BY <2>1, <2>2
<1>8. ASSUME NEW n, FirstPassed(n, a)' PROVE HasByteOf(Copy(image, n), a)'
  <2>1. /\ n \in Copies(image) /\ Passed(n, a)'
        /\ \A m \in Copies(image) : Passed(m, a)' => n <= m
    BY <1>8 DEF FirstPassed
  <2>2. CASE mem'[a] = mem[a]
    <3>1. PICK m \in Copies(image) : Passed(m, a)
      BY <1>6, <1>7, <2>1, <2>2
    <3>2. n <= m
      BY <1>3, <2>1, <3>1
    <3>3. Passed(n, a)
      <4>1. CASE n = t /\ a = at
        <5>1. m <= Now
          BY <1>4, <3>1, <4>1
        <5> QED BY <1>0, <3>1, <3>2, <4>1, <5>1
      <4> QED BY <1>3, <2>1, <4>1
    <3>4. FirstPassed(n, a)
      BY <1>3, <2>1, <3>3 DEF FirstPassed
    <3>5. HasByteOf(Copy(image, n), a)
      BY <3>4 DEF FirstCopies
    <3> QED BY <2>2, <3>5 DEF HasByteOf
  <2>3. CASE a = at /\ mem[a] = NoByte /\ mem'[a] = byte
    <3>1. n = t
      BY <1>3, <1>6, <2>1, <2>3
    <3> QED BY <1>2, <2>3, <3>1 DEF HasByteOf, r
  <2> QED BY <1>5, <2>2, <2>3
<1> QED BY <1>7, <1>8

LEMMA FirstCopiesNext == Position /\ Contents /\ FirstCopies /\ [Next]_vars => FirstCopies'
<1> SUFFICES ASSUME Position, Contents, FirstCopies, [Next]_vars PROVE FirstCopies'
  OBVIOUS
<1>0. /\ image \in Images /\ pos \in Nat /\ sec \in Nat /\ seg \in Nat
      /\ Len(image.secs) \in Nat /\ Now \in Nat
  BY SectionTypes, SegmentTypes DEF Position, Now
<1>1. CASE LoadDataByte
  <2> DEFINE r == Region(section.addr, section.size, section.offset)
  <2>1. Now + 1 \in Copies(image) /\ Copy(image, Now + 1) = r
    BY <1>1, CopyOfData DEF LoadDataByte
  <2>2. r.addr = section.addr /\ r.size = section.size /\ r.offset = section.offset
    BY DEF Region
  <2>3. /\ image' = image /\ phase' = phase /\ phase = "load_data" /\ Now' = Now
        /\ pos' = pos + 1 /\ pos < r.size
    BY <1>1, <2>2 DEF LoadDataByte, Now
  <2>4. r.addr + pos \in Addr /\ mem' = Insert(mem, r.addr + pos, Fread(r.offset + pos))
    BY <1>1, <2>2, SectionByte DEF LoadDataByte
  <2> HIDE DEF r
  <2> QED BY <1>0, <2>1, <2>3, <2>4, PassesOne
<1>2. CASE LoadProgByte
  <2> DEFINE r == Region(segment.vaddr, segment.filesz, segment.offset)
  <2>1. Now + 1 \in Copies(image) /\ Copy(image, Now + 1) = r
    BY <1>2, CopyOfSegment DEF LoadProgByte
  <2>2. r.addr = segment.vaddr /\ r.size = segment.filesz /\ r.offset = segment.offset
    BY DEF Region
  <2>3. /\ image' = image /\ phase' = phase /\ phase = "load_prog" /\ Now' = Now
        /\ pos' = pos + 1 /\ pos < r.size
    BY <1>2, <2>2 DEF LoadProgByte, Now
  <2>4. r.addr + pos \in Addr /\ mem' = Insert(mem, r.addr + pos, Fread(r.offset + pos))
    BY <1>2, <2>2, SegmentByte DEF LoadProgByte
  <2> HIDE DEF r
  <2> QED BY <1>0, <2>1, <2>3, <2>4, PassesOne
<1>3. CASE ~LoadDataByte /\ ~LoadProgByte
  <2>1. /\ UNCHANGED <<image, mem>>
        /\ \A n \in Copies(image), a \in Addr : Passed(n, a)' <=> Passed(n, a)
    BY <1>3, PassesNothing
  <2> SUFFICES ASSUME NEW a \in Addr
               PROVE  /\ mem'[a] # NoByte <=> \E n \in Copies(image) : Passed(n, a)'
                      /\ \A n : FirstPassed(n, a)' => HasByteOf(Copy(image, n), a)'
    BY <2>1 DEF FirstCopies
  <2>2. mem'[a] # NoByte <=> \E n \in Copies(image) : Passed(n, a)'
    BY <2>1 DEF FirstCopies
  <2>3. ASSUME NEW n, FirstPassed(n, a)' PROVE HasByteOf(Copy(image, n), a)'
    <3>1. FirstPassed(n, a)
      BY <2>1, <2>3 DEF FirstPassed
    <3>2. HasByteOf(Copy(image, n), a)
      BY <3>1 DEF FirstCopies
    <3> QED BY <2>1, <3>2 DEF HasByteOf
  <2> QED BY <2>2, <2>3
<1> QED BY <1>1, <1>2, <1>3

LEMMA FirstCopiesInit == Init => FirstCopies
<1> SUFFICES ASSUME Init PROVE FirstCopies
  OBVIOUS
<1>1. image \in Images /\ Now = 0 /\ phase = "open" /\ \A a \in Addr : mem[a] = NoByte
  BY DEF Init, Now
<1>2. ASSUME NEW n \in Copies(image), NEW a \in Addr PROVE ~Passed(n, a)
  <2>1. n \in Nat /\ n > 0
    BY <1>1, SectionTypes, SegmentTypes DEF Copies
  <2> QED BY <1>1, <2>1 DEF Passed
<1> QED BY <1>1, <1>2 DEF FirstCopies, FirstPassed

(* Once loaded, every copy has been made.                                  *)
LEMMA AllPassed ==
    ASSUME Position, phase = "loaded", NEW n \in Copies(image), NEW a
    PROVE  Passed(n, a) <=> Holds(Copy(image, n), a)
<1>1. image \in Images /\ Now = Len(image.secs) + Len(image.segs)
  BY DEF Position, Now
<1>2. n <= Now
  BY <1>1, CopyBound
<1> QED BY <1>2 DEF Passed

(* Memory after loading is, byte for byte, what the first of the copies     *)
(* that reach an address has there: for every file, in whatever order its   *)
(* headers are and however its parts overlap.                              *)
THEOREM FirstCopyAlways == Spec => []FirstCopyStays
<1>1. Position /\ FirstCopies => FirstCopyStays
  <2> SUFFICES ASSUME Position, FirstCopies, phase = "loaded", NEW a \in Addr
               PROVE  /\ mem[a] # NoByte <=>
                            {n \in Copies(image) : Holds(Copy(image, n), a)} # {}
                      /\ \A n \in {m \in Copies(image) : Holds(Copy(image, m), a)} :
                            (\A m \in {l \in Copies(image) : Holds(Copy(image, l), a)} : n <= m)
                                => HasByteOf(Copy(image, n), a)
    BY DEF FirstCopyStays, HasByteOf
  <2>1. mem[a] # NoByte <=> {n \in Copies(image) : Holds(Copy(image, n), a)} # {}
    BY AllPassed DEF FirstCopies
  <2>2. ASSUME NEW n \in Copies(image), Holds(Copy(image, n), a),
               \A m \in Copies(image) : Holds(Copy(image, m), a) => n <= m
        PROVE  HasByteOf(Copy(image, n), a)
    <3>1. FirstPassed(n, a)
      BY <2>2, AllPassed DEF FirstPassed
    <3> QED BY <3>1 DEF FirstCopies
  <2> QED BY <2>1, <2>2
<1> QED BY <1>1, ContentsInit, ContentsNext, FirstCopiesInit, FirstCopiesNext, PositionInit,
           PositionNext, PTL DEF Spec

-----------------------------------------------------------------------------
(* The bytes of .rodata, when its header is number 2.                      *)

(* Those that load_data has passed are mapped.                             *)
HeadMapped(n) == \A k \in 0..(n - 1) : mem[image.secs[3].addr + k] # NoByte
RodataMapped ==
    image.secs[3].name = ".rodata" =>
        /\ phase = "load_data" /\ sec = 2 => HeadMapped(pos)
        /\ (phase \in {"sections", "load_data"} /\ sec > 2)
              \/ phase \in {"load_prog", "loaded"} => HeadMapped(image.secs[3].size)

(* Memory only grows while the file is loaded.                             *)
LEMMA MemoryGrows ==
    ASSUME Position, Contents, [Next]_vars
    PROVE  image' = image /\ \A x \in Addr : mem[x] # NoByte => mem'[x] # NoByte
<1>0. image \in Images
  BY DEF Position
<1>1. CASE LoadDataByte
  <2>1. /\ mem \in MemMap /\ cur' \in Byte /\ section.addr + pos \in Addr
        /\ mem' = Insert(mem, section.addr + pos, cur') /\ image' = image
    BY <1>0, <1>1, SectionByte, FreadType DEF Contents, LoadDataByte
  <2> QED BY <2>1, InsertAt DEF Mapped
<1>2. CASE LoadProgByte
  <2>1. /\ mem \in MemMap /\ cur' \in Byte /\ segment.vaddr + pos \in Addr
        /\ mem' = Insert(mem, segment.vaddr + pos, cur') /\ image' = image
    BY <1>0, <1>2, SegmentByte, FreadType DEF Contents, LoadProgByte
  <2> QED BY <2>1, InsertAt DEF Mapped
<1>3. CASE ~LoadDataByte /\ ~LoadProgByte
  BY <1>3 DEF Next, FailOpen, ReadTables, SkipSection, LoadSection, EndLoadData,
              BeginLoadProg, NextSegment, EndLoadProg, vars
<1> QED BY <1>1, <1>2, <1>3

LEMMA HeadStaysMapped ==
    ASSUME Position, Contents, [Next]_vars, NEW n \in Nat, n <= image.secs[3].size,
           HeadMapped(n)
    PROVE  \A k \in 0..(n - 1) : mem'[image.secs[3].addr + k] # NoByte
<1> DEFINE s == image.secs[3]
<1>1. s.addr \in Addr /\ s.size \in Nat /\ s.addr + s.size < AddrSpace
  BY SectionTypes DEF Position
<1>2. \A k \in 0..(n - 1) : s.addr + k \in Addr
  BY <1>1 DEF Addr
<1> QED BY <1>2, MemoryGrows DEF HeadMapped

LEMMA RodataMappedNext ==
    Position /\ Contents /\ RodataMapped /\ [Next]_vars => RodataMapped'
<1> DEFINE s == image.secs[3]
           after == \/ phase \in {"sections", "load_data"} /\ sec > 2
                    \/ phase \in {"load_prog", "loaded"}
<1> SUFFICES ASSUME Position, Contents, RodataMapped, [Next]_vars, image'.secs[3].name = ".rodata"
             PROVE  /\ phase' = "load_data" /\ sec' = 2 =>
                          \A k \in 0..(pos' - 1) : mem'[image'.secs[3].addr + k] # NoByte
                    /\ after' =>
                          \A k \in 0..(image'.secs[3].size - 1) :
                              mem'[image'.secs[3].addr + k] # NoByte
  BY DEF RodataMapped, HeadMapped
<1>0. image' = image /\ s.name = ".rodata"
  BY MemoryGrows
<1>1. /\ s.size \in Nat /\ pos \in Nat /\ sec \in Nat
      /\ Len(image.secs) \in Nat /\ Len(image.secs) >= 4
  BY SectionTypes DEF Position
<1>2. ASSUME after PROVE \A k \in 0..(s.size - 1) : mem'[s.addr + k] # NoByte
  <2>1. HeadMapped(s.size)
    BY <1>0, <1>2 DEF RodataMapped
  <2> QED BY <1>1, <2>1, HeadStaysMapped
<1>3. phase = "load_data" /\ sec = 2 => section = s /\ HeadMapped(pos) /\ pos <= s.size
  <2> SUFFICES ASSUME phase = "load_data", sec = 2
               PROVE  section = s /\ HeadMapped(pos) /\ pos <= s.size
    OBVIOUS
  <2>1. index + 1 = 3
    BY <1>0, LoaderNames DEF Position
  <2> QED BY <1>0, <2>1 DEF section, Position, RodataMapped
<1>4. CASE LoadSection
  BY <1>0, <1>1, <1>2, <1>4 DEF LoadSection
<1>5. CASE LoadDataByte
  <2>1. CASE sec = 2
    <3>1. section = s /\ HeadMapped(pos) /\ pos < s.size /\ pos' = pos + 1
      BY <1>3, <1>5, <2>1 DEF LoadDataByte
    <3>2. mem'[s.addr + pos] # NoByte
      <4>1. /\ mem \in MemMap /\ cur' \in Byte /\ section.addr + pos \in Addr
            /\ mem' = Insert(mem, section.addr + pos, cur')
        BY <1>5, SectionByte, FreadType DEF Contents, LoadDataByte, Position
      <4> QED BY <3>1, <4>1, InsertAt
    <3>3. \A k \in 0..(pos - 1) : mem'[s.addr + k] # NoByte
      BY <1>1, <3>1, HeadStaysMapped
    <3>4. \A k \in 0..(pos' - 1) : k \in 0..(pos - 1) \/ k = pos
      BY <1>1, <3>1
    <3>5. ~after'
      BY <1>5, <2>1 DEF LoadDataByte
    <3> QED BY <1>0, <3>2, <3>3, <3>4, <3>5
  <2>2. CASE sec # 2
    BY <1>0, <1>2, <1>5, <2>2 DEF LoadDataByte
  <2> QED BY <2>1, <2>2
<1>6. CASE EndLoadData
  <2>1. CASE sec = 2
    <3>1. HeadMapped(s.size)
      BY <1>3, <1>6, <2>1 DEF EndLoadData
    <3>2. mem' = mem /\ phase' = "sections"
      BY <1>6 DEF EndLoadData
    <3> QED BY <1>0, <3>1, <3>2 DEF HeadMapped
  <2>2. CASE sec # 2
    BY <1>0, <1>1, <1>2, <1>6, <2>2 DEF EndLoadData
  <2> QED BY <2>1, <2>2
<1>7. CASE SkipSection
  <2>1. sec # 2
    BY <1>0, <1>7, LoaderNames DEF SkipSection
  <2> QED BY <1>0, <1>1, <1>2, <1>7, <2>1 DEF SkipSection
<1>8. CASE BeginLoadProg
  BY <1>0, <1>1, <1>2, <1>8 DEF BeginLoadProg
<1>9. CASE LoadProgByte \/ NextSegment \/ EndLoadProg
  BY <1>0, <1>2, <1>9 DEF LoadProgByte, NextSegment, EndLoadProg
<1>10. CASE FailOpen \/ ReadTables
  BY <1>10 DEF Position, FailOpen, ReadTables
<1>11. CASE UNCHANGED vars
  BY <1>0, <1>2, <1>3, <1>11 DEF vars, HeadMapped
<1> QED BY <1>4, <1>5, <1>6, <1>7, <1>8, <1>9, <1>10, <1>11 DEF Next

LEMMA RodataMappedInit == Init => RodataMapped
BY DEF Init, RodataMapped

(* Once the file is loaded, memory has the bytes of its .rodata.            *)
LEMMA RodataArrives ==
    ASSUME Position, OnlyFileBytes, RodataMapped, phase = "loaded", Agree(image),
           image.secs[3].name = ".rodata", NEW k \in 0..(image.secs[3].size - 1)
    PROVE  mem[image.secs[3].addr + k] = FileByte(image, image.secs[3], k)
<1> DEFINE s == image.secs[3]
           r == Region(s.addr, s.size, s.offset)
<1>1. s.addr \in Addr /\ s.size \in Nat /\ s.addr + s.size < AddrSpace
  BY SectionTypes DEF Position
<1>2. r.addr = s.addr /\ r.size = s.size /\ r.offset = s.offset
  BY DEF Region
<1>3. r \in Regions(image)
  <2>1. 3 \in {j \in DOMAIN loader : loader[j] \in Names(image)}
    BY SectionTypes, LoaderNames DEF Names, Position
  <2> QED BY <2>1 DEF DataSections, Regions
<1>4. s.addr + k \in Mapped(mem)
  <2>1. s.addr + k \in Addr
    BY <1>1 DEF Addr
  <2> QED BY <2>1 DEF RodataMapped, HeadMapped, Mapped
<1> HIDE DEF r
<1>5. mem[r.addr + k] = FileByte(image, r, k)
  BY <1>2, <1>3, <1>4, MappedAgrees
<1> QED BY <1>2, <1>5 DEF FileByte
=============================================================================
