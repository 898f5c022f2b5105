------------------------------- MODULE MCNewfs -------------------------------
(***************************************************************************)
(* Instances of Newfs for TLC: two names, neither of which begins with     *)
(* the other (MCSimplefs has names of which one does).                     *)
(***************************************************************************)
EXTENDS Newfs, TLC

CONSTANTS a, b

PlainNames == {a, b}
PlainStartsWith == {<<n, n>> : n \in PlainNames}

Symmetry == Permutations(PlainNames)
===============================================================================
