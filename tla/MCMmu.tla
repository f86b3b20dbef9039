-------------------------------- MODULE MCMmu --------------------------------
(* Values of the constants of Mmu for model checking.  A register has three *)
(* bytes of two values; loads and stores have one, two or three bytes.      *)
EXTENDS Mmu

MCWidths == 1..3

(* High addresses, which no size of the map reaches.                       *)
HighImage == {0, 7}
HighGuest == 6..8

(* All addresses, on a space so small that a three-byte range wraps.       *)
AllAddrs == Addr
LowImage == {1, 2}

MCValues == {[k \in Offsets |-> 1], [k \in Offsets |-> k % 2]}

OneValue == {[k \in Offsets |-> k % 2]}

NoBlocks == {{}}
OneBlock == {{}, {<<7, 7>>}}
WideBlocks == {{<<1, 2>>}, {<<3, 3>>, <<0, 1>>}}
NarrowBlock == {{<<2, 2>>}}
=============================================================================
