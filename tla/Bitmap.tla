-------------------------------- MODULE Bitmap --------------------------------
(***************************************************************************)
(* The bitmap scan shared by allocate_inode and allocate_data.  A bitmap   *)
(* is the set of the numbers of its 1 bits; it occupies one logic block,   *)
(* so it has MapBits = 8 * LOGIC_SZ bits whatever the number of inodes or  *)
(* data blocks the layout has room for.                                    *)
(***************************************************************************)
EXTENDS Integers

CONSTANT MapBits

ASSUME MapBitsAssumption == MapBits \in Nat \ {0}

Bit == 0 .. MapBits - 1

\* What an int field holds that refers to no inode or to no data block.
None == -1

\* A slip in IsFirstZero: a search from the top of the map.
IsLastZero(map, b) == b \in Bit \ map /\ b + 1 .. MapBits - 1 \subseteq map

\* The bit at which the two nested loops stop.
IsFirstZero(map, b) == b \in Bit \ map /\ 0 .. b - 1 \subseteq map

\* A slip in Scan: the bit found is not set.
ScanForgetsBit(map, max) ==
    IF Bit \subseteq map
    THEN {[map |-> map, no |-> None]}
    ELSE {[map |-> map, no |-> IF b = max THEN None ELSE b] :
              b \in {c \in Bit : IsFirstZero(map, c)}}

\* A slip in Scan: a search that finds nothing returns its counter.
ScanIgnoresFull(map, max) ==
    IF Bit \subseteq map
    THEN {[map |-> map, no |-> MapBits]}
    ELSE {[map |-> map \cup {b}, no |-> IF b = max THEN None ELSE b] :
              b \in {c \in Bit : IsFirstZero(map, c)}}

(***************************************************************************)
(* The outcomes of a scan: the bitmap it leaves and the number it returns. *)
(* The bit is set when it is found; it is compared with the limit only     *)
(* afterwards, and for equality, so a refused number stays marked and the  *)
(* next scan walks past it.                                                *)
(***************************************************************************)
Scan(map, max) ==
    IF Bit \subseteq map
    THEN {[map |-> map, no |-> None]}
    ELSE {[map |-> map \cup {b}, no |-> IF b = max THEN None ELSE b] :
              b \in {c \in Bit : IsFirstZero(map, c)}}

\* No bit is set above a clear one: what first fit alone can produce.
DownClosed(map) == \A b \in map : 0 .. b \subseteq map
===============================================================================
