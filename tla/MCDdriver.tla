------------------------------- MODULE MCDdriver -------------------------------
(***************************************************************************)
(* An instance of Ddriver for TLC.                                         *)
(***************************************************************************)
EXTENDS Ddriver, TLC

CONSTANTS p, q, x

Processes == {p, q}
Bytes     == {Zero, x}

Symmetry == Permutations(Processes)
===============================================================================
