----------------------------- MODULE MCSimulator -----------------------------
(* Files of two instructions, two read-only bytes and two data bytes, with  *)
(* the instructions and the registers of MCCpu.                             *)
EXTENDS MCCpu, Simulator

S(name, addr, size, offset) ==
    [name |-> name, addr |-> addr, size |-> size, offset |-> offset]
P(vaddr, filesz, offset) == [vaddr |-> vaddr, filesz |-> filesz, offset |-> offset]

Null   == S("null", 0, 0, 0)
Text   == S(".text", 0, 8, 0)
Data   == S(".data", 10, 2, 10)
Symtab == S(".symtab", 0, 0, 0)
Strtab == S(".strtab", 0, 0, 0)
RodataAt(addr, size) == S(".rodata", addr, size, addr)
RodatalAt(addr, size) == S(".rodatal", addr, size, addr)

Protecting == <<Null, Text, RodataAt(8, 2), Data, Symtab, Strtab>>

(* Besides it: too narrow, in another place, over the stack's slot, behind  *)
(* a .rodatal that is narrower or wider than it, and an image without       *)
(* symbols, which is refused.                                               *)
Layouts == {
    <<Null, Text, RodataAt(8, 1), Data, Symtab, Strtab>>,
    <<Null, RodataAt(8, 2), Text, Data, Symtab, Strtab>>,
    <<Null, Text, RodataAt(11, 2), Data, Symtab, Strtab>>,
    <<Null, RodatalAt(8, 1), RodataAt(8, 2), RodatalAt(8, 1), Symtab, Strtab>>,
    <<Null, RodatalAt(8, 3), RodataAt(8, 2), RodatalAt(8, 3), Symtab, Strtab>>,
    <<Null, Text, RodataAt(8, 2), Data, Symtab>> }

(* One segment up to the stack's slot, and one that reaches into it.       *)
Segs == {<<P(0, 12, 0)>>, <<P(0, 8, 0), P(8, 6, 8)>>}

(* sw 0(a0), the next call, the calls, and a word that is no instruction.     *)
Insns == {MCTable[d].match : d \in {2, 7, 14}} \cup {Bits(<<0, 0, 0, 0>>)}
Rest == <<1, 0, 1, 1, 1, 0>>
Contents(first, second) == [k \in 1..14 |->
    IF k <= 4 THEN first[k - 1] ELSE IF k <= 8 THEN second[k - 5] ELSE Rest[k - 8]]

Image(s, g, i, j) == [secs |-> s, segs |-> g, bytes |-> Contents(i, j), entry |-> 0]

(* Most programs are tried in the layout where .rodata is protected.       *)
MCImages == {Image(Protecting, g, i, j) : g \in Segs, i \in Insns, j \in Insns}
       \cup {Image(s, g, i, i) : s \in Layouts, g \in Segs, i \in Insns}
NoPrograms == {}
MCZero == {0}
SimulatorRegs == {File(7, 6, 1, 0), File(0, 6, 2, 2), File(8, 5, 0, 3)}
=============================================================================
