# A verification project for riscv-isa-simulator

The program in `src/` interprets RV64 user-level programs: it loads an ELF file
into a map from addresses to bytes and executes its instructions one after the
other on an emulated register file, serving a few system calls on the host.
This directory holds TLA+ models of its parts, TLC runs that check them on
small instances, and TLAPS proofs of what holds on every instance.

Contents: 1 inventory, 2 plan, 3 modules and code, 4 runs and bounds,
5 fairness, 6 proofs, 7 what disagrees with the code's own words,
8 what is only model-checked, 9 what is not modelled.

## 1. Inventory

The program is one thread and handles no signal. `main` makes a `cpu_t`, whose
constructor makes an `mmu_t`, whose constructor loads the file; then `main`
calls `step(0)`, a loop that never returns. What makes the program hard is not
interleaving of threads but loops over bytes that stop half-way, look-ups on
boundaries, state written by one instruction and read by a later one, and
arithmetic on few special operands.

| part | code | state | operations | talks to |
| --- | --- | --- | --- | --- |
| guest memory | `mmu.h`, `mmu.cpp:204-428` | `mem` (address to byte), `forbid` (closed blocks) | `read`, `write`, `write_bare`, `load_insn`, their width wrappers, `ban` | called by handlers, `step` and system calls; throws |
| ELF loader | `mmu.cpp:8-201` | ELF tables; fills `mem`, `forbid`, `entry` | constructor, `read_elf`, `read_sym_tbls`, `load_data`, `load_prog` | reads the file; ends the process when it cannot |
| decoder | `cpu.h:60-66,115-141,173-206`, `encoding.h`, `insn_list.h`, `structs.h` | the vector of match/mask entries, `c_insn`, `c_desc`, `insn_count` | `register_instructions`, `decode_insn`, operand fields | chooses the handler |
| hart | `cpu.h:48-58,152-170,208-250`, `structs.h` | `pc`, `XPR`, `FPR`, `fflags`, `frm` | constructor, `step`, `execute_insn`, `set_pc` | memory, decoder, handlers |
| integer instructions | `func.h:141-793`, `multi.h` | registers, `pc` | one handler per instruction | registers |
| loads, stores | `func.h:355-463` | registers, memory | one handler per width | memory |
| system calls | `func.h:54-137` | registers, memory, files and clock of the host | `scall`, `SIM_write`, `SIM_read` | memory, host |
| floating point | `func.h:29-51,844-1158` | `FPR`, `XPR` | one handler per instruction | registers |
| exceptions | `exception.h` | none | thrown by memory and `set_pc`, caught nowhere | ends the process |
| debugging output | `mmu.cpp:430-530`, `cpu.h:90-111,143-147,243-245` | none | `dump`, `Debug_elf`, `check_instructions`, `print_count` | stdout |

What is hard in each part, and what makes it correct:

- *Guest memory.* Loads and stores are loops over a `std::map`, with a look-up
  that dereferences `end()`, a permission test on two addresses for a range of
  up to eight, and addresses that wrap. Correct when a load, store or fetch
  acts as one atomic operation on a store of bytes, when a stored byte is there
  afterwards, and when a forbidden byte never changes.
- *ELF loader.* Data sections are copied before segments, `insert` never
  replaces a byte, the section is chosen by the wrong index, and the result of
  `fread` is ignored. Correct when the segments arrive in memory, nothing else
  does, and exactly the read-only sections are forbidden.
- *Decoder.* The first entry that matches wins; the last one matches all.
  Immediates are put together from scattered fields. Correct when no word runs
  the handler of another instruction, and when a compiler can reach each offset
  in one way.
- *Hart.* `set_pc` looks at one bit; an unknown instruction goes on at
  address 0; code can be overwritten; counters are ints. Correct when `pc` stays
  aligned, register 0 stays as it is, what is executed is what memory holds, the
  counters add up, and each iteration ends.
- *Arithmetic.* Carries in `mulhu`, borrows in `mulh`, the quotient that
  overflows, divisors of zero, sign extension of the word forms.
- *Floating point.* Floats and doubles share registers, conversions overflow,
  NaNs compare with nothing. The IEEE operations themselves are the host's.
- *The process.* What the loader protects has to stay protected while the
  constructor, the handlers and the system calls write; the program has to
  arrive where it is started.
- *System calls.* The host may deliver less than asked, or fail; bytes are
  copied one by one, each of which may throw.

`PROJECT.json` lists the hazards one by one with the line where each bites and
the properties that watch it.

## 2. Plan

Written, in this order:

1. `MemoryOps`, `ByteStore`, `Mmu` with `MemoryOpsProofs`, `MmuProofs`: everything
   else stands on memory. `ByteStore` is the abstract specification, `Mmu` the
   byte loops that implement it, which is both checked and proved.
2. `ElfLoader` with `ElfLoaderProofs`: how `mem` and `forbid` come to be.
3. `Registers`, `Multi`, `Divide`, `Alu`, `Float`, joined by `Arithmetic`, with
   `ArithmeticProofs`: pure algorithms against reference definitions.
4. `Cpu` with `CpuProofs`: composes the memory operations (atomic, as `Mmu` was
   shown to make them), the decoder's search, handlers and system calls.
   `SumProofs` holds the lemmas about sums that its counters and the logic of
   `Alu` need.
5. `Decoder` with `DecoderProofs`: the words of `encoding.h`, the order of
   `insn_list.h` and the fields of `insn_t`, which `Cpu` takes as a table.
6. `Simulator` with `SimulatorProofs`: composes `ElfLoader` and `Cpu` as `main`
   and the constructors do.

Left: nothing of this plan; sections 8 and 9 say what the proofs and the models
do not reach. A model of the order of output on the host would need the rules of the host's
library, which the code does not state.

## 3. Modules and the code

A definition named `Name_Variant` before `Name` is `Name` with a plausible slip;
no specification uses it. It shows that a property notices the slip.

**MemoryOps** - the vocabulary of memory: `MemMap` is `mmu_t::mem` with `NoByte`
for an absent key, `Word` the bytes of a register, `At` the wrapping
`cur_addr++`, `ban` and `WriteDenied` the test of `mmu.cpp:282` and of
`write_bare`, `LoadBytes` what `read` assembles (unmapped bytes are skipped and
the later ones move down, because `continue` leaves `shift` behind; the `throw`
after it is dead), `SignExtend` the switch of `read`, `FetchValue` the word of
`load_insn` with its promotion to int.

**ByteStore** - the promise: `Load`, `Store`, `Refuse`, `Fetch`, `Fault` in one
step each. **Mmu** - the loops: `Begin...` is the entry of a function up to its
loop, `ReadByte`/`SkipUnmapped`, `StoreByte`/`StoreAtEnd`, `FetchByte`/`FetchFault`
an iteration, `End...` the return. `iter != mem.end() || iter->first == cur_addr`
dereferences `end()`. In the build that the Makefile makes (GNU libstdc++)
`end()` is the header node of the tree, and where the key would be it holds the
number of nodes: `AtEnd` is the case that an absent address equals `mem.size()`;
`endByte` is the byte next to it. Another library could do something else here.
The refinement `Promise` lets a store take effect when its loop begins.

**ElfLoader** - one step per byte of `load_data` and `load_prog`, and per section
header in between. `loader` is the array of `read_elf`; `index' = j - 1` is
its call `load_data(this->file, j)` with the place of the name. `Fread` leaves the
variable alone at the end of the file; the first value of the uninitialised
`cur_data` is arbitrary. The parsing of tables is data (`Images`).
`Copies` and `Copy` define, without a step of the loader, which parts of the file it
copies and in what order; `FirstCopyStays` holds memory to that definition.

`SectionHeader` and `ProgramHeader` are the records read from the file, with the
fields that the loader uses.

**Registers** - two operands of every value, and the conversions of `structs.h`.
**Multi** - `multi.h`, each intermediate wrapped at its width. **Divide** - the eight
handlers of division and remainder, with C's rounding. **Alu** - sums, shifts,
logic, comparisons, word forms and branch conditions; bit shifts are products
and quotients by powers of two, and the logic works on sets of bits (`BitSet`),
a register being the sum of the values of its bits (`OfBits`). The
immediate form of an instruction is its register form with the immediate as
second operand; `sltu` has a definition of its own, since its code differs.
**Float** - the handlers of lines 886-1158 and the views `freg_f32`, `f32_freg` of a
register. What the host computes (`+`, `<`, the conversions, `rint` and its like) are
constants, of which `HostAssumption` says the little that IEEE arithmetic gives
in this code: types, words that a double holds exactly, and the sign in the upper bit. `<` and `==` compare what
two doubles that are numbers stand for (`DLess`, `DEqual`). A conversion to an integer type that lacks the value is
undefined in C++ and gives any value of the type. `fmadd_d` rounds twice, as the
code does. **Arithmetic** joins them for one run and gives the host's operations
for very short floats.

**Decoder** - `Declared` are the words of `encoding.h`: a match is a record of the
fields that its mask keeps, so that the domain of the record is the mask.
`insn_list` has the registered names in order, `instructions` appends the entry
that matches everything, `decode` takes the first match. The operand fields and
immediates are those of `insn_t` over a word with its sign.

**Cpu** - `cpu_t::step`: `LoadInsn` (or `LoadInsnFault`) is line 221, `DecodeInsn`
the search of `decode_insn` with the counter, `Exec...` and `Sys...` a handler
with the assignment of its result to `pc`. `SimReadByte` is one iteration of the
loop in `SIM_read`. `Throw` is any exception, as `main` catches none. `Table`
gives for each entry of the instruction vector its match, mask, handler and
operands; `InitRegs` and `InitFRegs` what the constructor leaves uninitialised.
The eight branches, both jumps, the loads and stores of every width and either
register file, `fence`, the illegal handler and all nine system calls are there;
of the handlers that only compute, a few stand for the others, which have the
same shape: `Alu`, `Multi`, `Divide` and `Float` say what they compute. A memory
operation is one step here. `Mmu` justifies that where `Separated` holds; a hit of
`end()` is in `Mmu` and not in `Cpu`. `Init` takes the programs whose loading did
not forbid the word that the constructor writes at `SP_INIT`; `Simulator` has the
others too.

**Simulator** - one process: `Load` is a step of `ElfLoader` over the same `mem` and
`forbid`, `Boot` the rest of `cpu_t::cpu_t` once the file is loaded, `BootDenied`
its store at `SP_INIT` refused, `Run` a step of `Cpu`. A loader that exits ends
the process before the guest starts. `RodataKept` speaks of the files that
`Guarded` describes: `.rodata` is header number 2, and the block of every
read-only section at its address, whichever of them `forbid` keeps, reaches its
end and is wide enough for the two look-ups of a store (see section 7 for what
happens to the others).

**MCMmu**, **MCElfLoader**, **MCCpu**, **MCDecoder**, **MCSimulator** give values to
the constants.

## 4. Runs and bounds

| run | what it asks | size and why it is enough |
| --- | --- | --- |
| `mmu_refine` | do the byte loops act as `ByteStore`? are stored bytes present, and read back in order? | registers of three bytes of two values, all widths 1..3 so that narrow accesses extend and wide ones overlap; an image with a hole, guest addresses next to the wrap, a forbidden byte or none; `Separated` holds for these addresses |
| `mmu_blocks` | are wide forbidden blocks safe, and does every call return? | every address of a space of five: ranges wrap, `end()` is hit; a wide block alone, or a wide one and, apart from it, a narrow one |
| `mmu_narrow` | (violation) are all forbidden blocks safe? | a block of one byte, stores of three |
| `mmu_lost` | (violation) are stored bytes always present? | as `mmu_blocks`, without `Separated` |
| `elf_load` | what does loading leave in memory, and whose byte where parts overlap, and in `forbid`? | seven section layouts (data sections in and out of the first four headers, a section without bits over one with, two read-only sections at one address in either order, a missing table), three lists of overlapping segments, a file that agrees, one that does not, one that is short |
| `elf_rodata` | (violation) is `.rodata` protected? | the same files |
| `arithmetic` | products, quotients, word forms, comparisons, shifts, logic, floats | all 65536 pairs of eight-bit registers with four-bit halves: each carry and each extension happens; a double has a sign, four bits of exponent and three digits, a float a sign, two bits and one digit, with NaNs, infinities, denormals and both zeros |
| `alu_sllw` | (violation) is the result of `sllw` a sign-extended word? | the same pairs |
| `alu_sltu` | (violation) does `sltu` compare registers? | the same pairs |
| `decoder` | does each word run the handler `encoding.h` declares for it? can immediates be taken apart again? | full 32-bit words: every combination of the opcodes, funct fields and rs2 values that `encoding.h` tells apart, with operands of zeros or ones, for decoding; every word with at most two bits set above the opcode or at most two clear, so that each bit of an immediate appears alone and with each other |
| `cpu_safe` | alignment, register 0, fresh code, forbidden bytes, the copy of `SIM_read` | programs of three words: any of fifteen encodings where execution begins, the call or no instruction before it, one of these, `addi` or `jalr` after it; with the call also under a forbidden block and with a hole; five register files; stores reach the code, the stack and the block; buffers wrap |
| `simulator` | does the program arrive? is `.rodata` kept from loading to the end? do the counters add up? does the process start or end, and each iteration end? | files of two instructions, two read-only bytes and two data bytes on sixteen addresses; seven section layouts (protected, too narrow, another place, over the stack's slot, behind a narrower or a wider read-only section at the same address, no symbols), segments that stop at the stack's slot or reach into it, three register files; ints of two values, so that the counters wrap many times |

Bounds named in the modules: `AddrSpace`, `ByteBase`, `RegBytes`, `Widths` shrink
memory; `H`, `XLEN` shrink registers; `MaxIO` bounds the bytes of one system call
(two: none, one and several); `Timevals`, `Times` are results of the host's clock;
`IntMod` is the number of values of an int. The code overflows a signed int there,
and the model takes the wrap that the machine's addition has. In `cpu_safe`,
`IntMod = 1` removes the counters from the state, since no property of that run
reads them. Every variable of the models ranges over finitely many values
without further guards.

`CHECK_DEADLOCK FALSE` stands in the runs whose process may end: an exception,
`exit` or the end of loading. In the runs of
`Arithmetic`, `Alu` and `Decoder` nothing ends, and it is checked there.

For each property of a passing run, `PROJECT.json` names a mutant: the run with
one definition replaced by its `_Variant`, which violates the property.

## 5. Fairness

`Mmu!FairSpec` is weak fairness of `Progress`, an iteration or the return of the
call in progress; new calls are not forced. `Simulator!FairProcess` is weak
fairness of `ProcessNext`. Both say the same of the code: one thread, no lock, no
wait, nothing that preempts it for good, so that code that can take a step takes
it. `main` calls `step(0)`, for which the condition of the loop in `cpu.h:213`
always holds. System calls that block (`read` from a terminal) are assumed to
return.

## 6. Proofs

All theorems hold for every value of the constants that meets the assumptions
of the modules. Each proof has one step per action.

| theorem | property | argument |
| --- | --- | --- |
| `MmuProofs!TypeCorrect` | `TypeOK` | inductive with `shift \in 0..i`, `i \in 0..call.len` |
| `MmuProofs!WideBlocksStay` | `WideBlocksImmutable` | invariant `WriteAllowed`: a running store passed the test; a block of `RegBytes - 1` or more bytes that a store touches contains one of its ends (`EndsGuardWideBlocks`), also when the range wraps |
| `MmuProofs!StoresArrive` | `StoredBytesPresent` | assumes `Separated`; invariant `WithinReach` bounds the mapped addresses between the image and image plus guest, so that `mem.size()` is never an address of the guest (`NeverAtEnd`); distinct offsets have distinct addresses (`AtInjective`) |
| `MmuProofs!ReadKeepsUp` | (`ReadSoFar`) | assumes `Separated`; inductive over the loop: `shift` is the number of mapped bytes passed (`LoadBytesStep`, `LoadBytesSkip`) |
| `MmuProofs!LoopsImplementStore` | `ImplementsByteStore` | assumes `Separated`; the conjunction `PromiseInv` of `TypeOK`, `WithinReach`, `ReadSoFar`, `Pending` (the call in progress is one the guest may make) and `FetchSoFar` (`load_insn` holds the bytes passed). Under it the entry of a store takes the abstract step (`EntryImplements`), each later byte moves from what is still to be stored to what is (`StoreFromStep`), and a returning load or fetch gives what the abstract one would (`LoadImplements`, `FetchImplements`); every other step is a stutter (`LoopsHide`) |
| `MmuProofs!LoadsSeeStores` | `LoadSeesStore` | assumes `Separated`; invariant `LastStoreKept`: the bytes of the last store stay until the next one begins |
| `ElfLoaderProofs!LoaderTypes` | `TypeOK` | invariants `Position` (indices inside their tables) and `Contents` |
| `ElfLoaderProofs!SegmentsAlwaysArrive` | `SegmentsArrive` | invariant `SegmentsMapped`: each byte passed is mapped; with `OnlyFileBytes`, what is mapped agrees with the file |
| `ElfLoaderProofs!OnlyFileBytesAlways` | `OnlyFileBytes` | inductive: the byte inserted comes from a region of the file |
| `ElfLoaderProofs!FirstCopyAlways` | `FirstCopyStays` | invariant `FirstCopies`: an address is mapped when one of the copies has passed it, and holds the byte of the first that has. A byte copied passes one address of the copy under way (`PassesOne`), which comes after all that mapped it before; every other step passes none (`PassesNothing`), the ends of loops included |
| `ElfLoaderProofs!RodataAtTwoAlways` | `RodataAtTwoProtected` | invariant `RodataGuarded`: once the search has passed the first section of that name, a block that starts where `.rodata` does covers it |
| `ElfLoaderProofs!LittleMoreForbidden` | `ForbiddenAtMostOneMore` | invariant `BlocksOfSections`: every block is one of a read-only section |
| `CpuProofs!TypeCorrect` | `TypeOK` | operands, results and stored words keep their types |
| `CpuProofs!PcStaysAligned` | `PcAligned` | inductive with `TypeOK`: `set_pc` tests bit 1, and bit 0 is clear because the immediates are even and `jalr` clears it, across the wrap |
| `CpuProofs!ZeroRegisterStays` | `ZeroRegisterFixed` | every write goes through `WriteReg` |
| `CpuProofs!FetchStaysFresh` | `FetchIsFresh` | nothing that stores leaves the stage at decode or execute |
| `CpuProofs!ForbiddenAlwaysStays` | `ForbiddenStays` | each of the three kinds of store (instruction, `SIM_read`, `gettimeofday`) passes the test first |
| `CpuProofs!SimReadAlwaysInOrder` | `SimReadInOrder` | later bytes of a buffer shorter than the address space never fall on earlier ones (`PlusInjective`) |
| `CpuProofs!CountsAlwaysMatch` | `CountsMatchSteps` | invariant `Counted`: the sum of the counters and `step` differ by a multiple of `IntMod`. Incrementing one counter, wrapped or not, changes the sum by one modulo `IntMod` (`CountOneMore`, from `SumChanged`); no handler counts (`HandlersCountNothing`) |
| `SimulatorProofs!RodataAlwaysKept` | `RodataKept` | invariant `ProcessInv`: while loading, the invariants of `ElfLoader` hold over the shared `mem` and `forbid`; from `Boot` on, the block of `.rodata` is in `forbid`, is wide, and holds the file's bytes, which `ForbiddenStays` keeps (the slot at `SP_INIT` passes the same test) |
| `SimulatorProofs!ProgramAlwaysArrives` | `ProgramArrives` | `Boot` follows `EndLoad`, where `SegmentsArrive` holds; it changes the bytes of the slot alone |
| `SimulatorProofs!ProcessRunsInterpreter` | (`InterpreterSound`) | what the loader leaves meets `Cpu!Init`'s conditions, so `TypeOK`, `PcAligned`, `FetchIsFresh`, `SimReadInOrder` and `CountsMatchSteps` hold of the guest whatever file was loaded, and each step of `ProcessNext` is one of `Cpu`'s or keeps them |
| `ArithmeticProofs!MulhuAlways`, `MulhAlways` | `MulhuIsUpperHalf`, `SignedUpperHalves` | no partial sum exceeds a register (`HalvesFit`); the complement plus borrow is the floor of the negated quotient, where the low half is zero exactly if the product's is |
| `ArithmeticProofs!LawsAlways` | `DivisionLaw` | a register differs from its number by a multiple of the modulus, so the law of the integers carries over; zero and overflow apart |
| `ArithmeticProofs!WordFormsAlways`, `WordDivisionsAlways` | `WordFormsKeepWords`, `DivisionsKeepWords` | `sext32` of any integer depends on its low half only and is its own sign extension (`SignExtension`, `WordIsCanonical`); sums and products keep low halves (`SumOfLow`) |
| `ArithmeticProofs!WordLawAlways`, `RemaindersAlways` | `WordLaw`, `RemainderBounded` | the law of the integers read in the low half (`LowOfProduct`); the remainder is that of the magnitudes (`RemainderOf`) |
| `ArithmeticProofs!CarryAlways`, `BranchesAlways`, `ShiftsAlways` | `CarryRecovered`, `BranchesConsistent`, `ShiftsExtend` | a sum of two registers wraps at most once, so that `sltiu` against the immediate added, for which any register value stands, gives the carry; `Signed` is injective and monotone on registers of one sign; `a * H` modulo `H * H` is the low half moved up |
| `ArithmeticProofs!SinglesAlways`, `WordsAlways` | `SinglesAreHalves`, `WordsComeBack` | from `HostAssumption` and the lemmas on words |
| `ArithmeticProofs!LogicAlways` | `LogicAgrees` | a register, of every even number of bits, is the sum of its bits (`SumOfBits`, by induction on the number of bits); sums over sets of bits that share none add up (`DisjointBits`), and so do `and` with `or` and `xor` with twice `and`, bit by bit (`SumAdd`) |
| `ArithmeticProofs!ComparisonsAlways` | `ComparisonsAgree` | integers are totally ordered, and `neg` flips the upper bit (`NegFlips`), so that it negates the number and leaves NaN alone (`NegOfNumber`) |
| `DecoderProofs!DecodesAlways` | `DecodesAsDeclared` | an entry of `encoding.h` matches exactly the words in the row of its name (`DeclaredRows`), and no word is in two rows (`OneName`); every name of `insn_list.h` has an entry (`ListIsDeclared`); the search has a first match, the illegal entry at the latest (`FirstMatch`, from the well-foundedness of `<`) |
| `DecoderProofs!ShiftAmountsAlways` | `ShiftAmounts` | a word decoded as `slliw`, `srliw` or `sraiw` is in that row (`DecodedRow`), whose funct7 is 0 or 32, so that the sixth bit of `SHAMT` is zero (`AmountOfWord`) |
| `DecoderProofs!OffsetsAreEven`, `ImmediatesAreInvertible` | (`OffsetsEven`), `ImmediatesInvertible` | a word is its fields weighted by powers of two, and so is an immediate; each form (`StoreParts`, `BranchParts`, `JumpParts`) is taken apart by linear arithmetic |

Sums. The fold of the community modules is a recursive function over the
subsets of its domain. `SumProofs` proves that this function exists and satisfies
its equation (`TableExists`, `SumTableRows`), and from it the four lemmas that
others cite: `SumType`, `SumZero`, `SumChanged` (one value changes), `SumAdd` (two
functions). Where an argument goes by induction, the predicate is written as a
set: `SetInduction` says that a set with 0 and the successors of its members
holds every natural, which follows from the well-foundedness of `<` without the
induction theorems of the library. `CpuProofs` uses it for the bytes of a
register (`WeightType`, `WeightDivides`, `BytesHaveNumber`), `ArithmeticProofs` for
the bits of one.

Assumptions and why they hold:

- `MemoryAssumption`, `GuestAssumption`, `CpuAssumption`, `HAssumption`,
  `AluAssumption`, `WordsAssumption`: the constants are numbers and sets of the
  kinds the code has. `ImageAssumption` (`ElfLoader`), and `FilesAssumption`
  (`Simulator`) for the process: files are `Loadable`, that is, they have at least
  four section headers, and sections and segments do not wrap around the address
  space; the loader tests neither.
- `HostAssumption` (`Float`): see section 3. The line on truncation needs a double
  with at least as many digits as half a register has bits, which IEEE doubles
  have (53, 32). The last two hold of the IEEE format: the upper bit
  is the sign, of NaNs too. `Number` is an integer because a double is counted in
  units of the smallest one, infinity as the number that would come after the
  largest.
- `PowersAssumption` (`Decoder`) and `FactorAssumption` (`Alu`): values of powers of
  two, and the law of sums of exponents, that the provers do not know; TLC
  evaluates them.
- `LayoutAssumption` (`Cpu`): `AddrSpace` is `ByteBase ^ RegBytes`, 256^8 in the code,
  and `^` multiplies, which the provers do not know. That numbers below `AddrSpace`
  have a layout in bytes, and each layout a number, is proved from it
  (`WordOfType`, `ValueOfType`).
- `AlignmentAssumption` (`Cpu`): instructions have four bytes; entries are
  aligned; `sb_imm` and `uj_imm` (`structs.h`) assemble even numbers. The
  alignment of the entry is a property of the file, which the loader does not
  test.
- `TableAssumption` (`Cpu`): operand fields name registers, and the last entry
  matches everything, as `register_instructions` appends it (`cpu.h:131`).
- `Separated` (`Mmu`, an assumption of four theorems, not of the module): the
  guest's addresses are below the number of bytes of the image or above what can
  ever be mapped. Programs linked at 0x10000 with fewer bytes than that, and a
  stack at 0xfffffffffefffb50, meet it. Where it fails the run `mmu_lost` shows
  what happens.

## 7. Where the code and its words disagree

Five runs expect a violation; `PROJECT.json` quotes the lines.

- A store of eight bytes around a forbidden block of at most six changes it
  (`mmu.cpp:282`, run `mmu_narrow`).
- A store to an absent address equal to `mem.size()` is lost (`mmu.cpp:289`,
  `mmu_lost`).
- `.rodata` is protected only as section number 2 (`mmu.cpp:74`, `elf_rodata`).
- `sllw` is a 64-bit shift (`func.h:534`, `alu_sllw`); `sltu` compares with its
  operand's encoding (`func.h:173`, `alu_sltu`).

Seen while modelling, and in the models as the code has it, without a run of
their own:

- The byte after a read-only section is forbidden with it (`mmu.cpp:160`), which
  `ForbiddenAtMostOneMore` allows for; and a shorter read-only section at the
  same address keeps the block of `.rodata` out (`Shadowed`), since `forbid` is a
  map with one block per first address. A longer one there protects `.rodata`
  with its own block, whose width then decides (`Guarded`).
- `illegal_instruction` returns 0 and goes on there, while `exception.h:14` has a
  trap for it that nothing throws.
- `fsgnjn_d` (fneg.d) and `fcvt_d_wu` are declared and not registered, and
  `tests/dhry.S:3502` and `5449` have them: these words are illegal here. The
  handler of `fcvt_d_wu` reads its operand as signed.
- `fcvt_l_d` converts the integer register `RS1` and not `FRS1` (`func.h:982`), which
  `Float` has as it is. No property is stated of it: no line of the repository says
  more of the instruction than its name, no program under `tests/` contains it, and
  what the code computes instead is no law worth keeping.
- With `sltu` as it is, the carry of a sum of two registers is not recovered;
  `CarryRecovered` speaks of `sltiu` after the addition of an immediate.
- The bytes between `p_filesz` and `p_memsz` of a segment stay unmapped
  (`mmu.cpp:194`), which `FirstCopyStays` has as the code does.
- A load of a partly mapped range moves its bytes down (`mmu.cpp:235`); `exit`
  ignores the guest's status.

## 8. What is only model-checked

- Liveness (`EveryCallReturns`, `StartsOrEnds`, `IterationEnds`): beyond the prover.

## 9. What is not modelled

- `Declared` and `insn_list` (`Decoder`) transcribe `encoding.h` and `insn_list.h`;
  the proofs are about the transcription. `Cpu` takes any table that meets
  `TableAssumption`.
- The host's IEEE arithmetic and its flags; `fflags` and `frm`, which no handler
  touches.
- Printing (`dump`, `Debug_elf`, `check_instructions`, register dumps): it changes no
  state. The order of output on the host, which bypasses the buffer of `stdout`,
  depends on the host's library.
- The host's files and clock, of which a system call returns any result the
  host may give. `time` hands the guest's address to the host as a pointer; the
  model ends the process there.
- The heap: each iteration allocates an `insn_t` that is never freed
  (`cpu.h:221`), and `SIM_write` a buffer of the length the guest names.
- The test programs under `tests/`: guest code; their listings served as evidence
  of what instructions and idioms a program relies on.
