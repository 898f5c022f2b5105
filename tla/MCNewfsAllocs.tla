---------------------------- MODULE MCNewfsAllocs ----------------------------
(***************************************************************************)
(* An instance of NewfsAllocs for TLC: three dentries besides the root are *)
(* enough to hit the inode limit, walk past it, and hold two files that    *)
(* compete for the data blocks.                                            *)
(***************************************************************************)
EXTENDS NewfsAllocs, TLC

CONSTANTS r, a, b, c

MCDentry == {r, a, b, c}

\* newfs treats all dentries but the root alike.
Symmetry == Permutations({a, b, c})
===============================================================================
