------------------------------ MODULE MCSimplefs ------------------------------
(***************************************************************************)
(* Instances of Simplefs for TLC: names none of which begins with another, *)
(* and names of which one does.                                            *)
(***************************************************************************)
EXTENDS Simplefs

CONSTANTS a, b, ab, x

PlainNames == {a, b}
PlainStartsWith == {<<n, n>> : n \in PlainNames}

PrefixNames == {a, ab}
PrefixStartsWith == {<<a, a>>, <<ab, ab>>, <<ab, a>>}

Symmetry == Permutations(PlainNames)

NoMishaps == {}
NoBytes   == {}
OneByte   == {x}
Targets   == {x}

TreeCalls == {"mkdir", "mknod", "symlink", "unlink", "rmdir", "rename"}
AllCalls  == TreeCalls \cup {"write", "truncate"}
NameCalls == {"mknod", "unlink"}
===============================================================================
