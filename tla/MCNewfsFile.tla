----------------------------- MODULE MCNewfsFile -----------------------------
(***************************************************************************)
(* Instances of NewfsFile for TLC.  Blocks of two cells and inodes of two  *)
(* slots give requests that start, end or lie across a block boundary and  *)
(* requests past the last slot.                                            *)
(***************************************************************************)
EXTENDS NewfsFile

CONSTANTS t1, t2, x, y

OneThread  == {t1}
TwoThreads == {t1, t2}
OneValue   == {x}
TwoValues  == {x, y}
===============================================================================
