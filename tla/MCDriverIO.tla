------------------------------ MODULE MCDriverIO ------------------------------
(***************************************************************************)
(* An instance of DriverIO for TLC: three sectors of two bytes and         *)
(* requests of up to four, so that one starts or ends inside a sector,     *)
(* fills several, or is empty.                                             *)
(***************************************************************************)
EXTENDS DriverIO

CONSTANTS t1, x, y

OneThread  == {t1}
Bytes      == {x, y}
ReadWrite  == {"read", "write"}
===============================================================================
