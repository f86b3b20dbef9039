----------------------------- MODULE MCElfLoader -----------------------------
(* Files for ElfLoader: five section headers in any of the layouts below,   *)
(* overlapping segments, and a file that may end too early.                 *)
EXTENDS ElfLoader

MCWidths == {1, 2}

S(name, addr, size, offset) ==
    [name |-> name, addr |-> addr, size |-> size, offset |-> offset]

Null    == S("null", 0, 0, 0)
Text    == S(".text", 1, 1, 0)
Rodata  == S(".rodata", 2, 2, 1)
Data    == S(".data", 5, 2, 3)
Sdata   == S(".sdata", 5, 1, 3)
Tbss    == S(".tbss", 5, 2, 0)      \* no bits in the file, lies over .data
Rodatal == S(".rodatal", 2, 1, 1)
EmptyRodatal == S(".rodatal", 2, 0, 1)
Symtab  == S(".symtab", 0, 0, 0)
Strtab  == S(".strtab", 0, 0, 0)

Layouts == {
    <<Null, Text, Rodata, Data, Symtab, Strtab>>,
    <<Null, Text, Data, Sdata, Rodata, Symtab, Strtab>>,
    <<Null, Rodata, Text, Data, Symtab, Strtab>>,
    <<Null, Tbss, Rodata, Sdata, Symtab, Strtab>>,
    <<Null, Text, Rodata, Rodatal, Symtab, Strtab>>,
    <<Null, Rodatal, Rodata, EmptyRodatal, Symtab, Strtab>>,
    <<Null, Text, Rodata, Data, Symtab>> }

P(vaddr, filesz, offset) == [vaddr |-> vaddr, filesz |-> filesz, offset |-> offset]
Programs == {
    <<P(1, 3, 0), P(5, 2, 3)>>,
    <<P(1, 2, 0), P(2, 2, 1), P(5, 1, 3)>>,
    <<P(1, 2, 0), P(2, 2, 2)>> }

Files == {<<1, 0, 1, 0, 1>>, <<0, 1, 1, 1, 0>>, <<1, 0, 1>>}

MCImages == {[secs |-> s, segs |-> p, bytes |-> b] :
                s \in Layouts, p \in Programs, b \in Files}
=============================================================================
