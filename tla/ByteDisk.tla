------------------------------- MODULE ByteDisk -------------------------------
(***************************************************************************)
(* What newfs_driver_read and newfs_driver_write promise their callers: a  *)
(* disk of bytes, addressed freely.  A write changes the bytes of its      *)
(* range, in any order and in any groups, and no others; a read returns    *)
(* the bytes of its range.                                                 *)
(***************************************************************************)
EXTENDS Integers, Sequences

CONSTANTS Thread, DiskSize, Byte, MaxSize

VARIABLES bytes, call

vars == <<bytes, call>>

Address == 0 .. DiskSize - 1

\* A write brings its size bytes along.
Request ==
    [op : {"read"}, offset : Address, size : 0 .. MaxSize, content : {<<>>}] \cup
    UNION {[op : {"write"}, offset : Address, size : {n}, content : [1 .. n -> Byte]] :
               n \in 0 .. MaxSize}
NoCall == [op |-> "none"]

\* The addresses a request covers.
RangeOf(r) == r.offset .. r.offset + r.size - 1

\* call[t]: NoCall, or the request, the bytes still to be written and the result.
Pending(r, todo, out) ==
    [op |-> r.op, offset |-> r.offset, size |-> r.size, content |-> r.content,
     todo |-> todo, out |-> out]

Init == bytes \in [Address -> Byte] /\ call = [t \in Thread |-> NoCall]

Call(t, r) ==
    /\ call[t] = NoCall
    /\ RangeOf(r) \subseteq Address
    /\ call' = [call EXCEPT ![t] =
                  Pending(r, IF r.op = "write" THEN RangeOf(r) ELSE {}, <<>>)]
    /\ UNCHANGED bytes

Put(t) ==
    /\ call[t] # NoCall
    /\ \E S \in SUBSET call[t].todo :
          /\ S # {}
          /\ bytes' = [a \in Address |-> IF a \in S
                                      THEN call[t].content[a - call[t].offset + 1]
                                      ELSE bytes[a]]
          /\ call' = [call EXCEPT ![t].todo = @ \ S]

Fetch(t) ==
    /\ call[t] # NoCall /\ call[t].op = "read" /\ call[t].out = <<>>
    /\ call' = [call EXCEPT ![t].out =
                  [k \in 1 .. call[t].size |-> bytes[call[t].offset + k - 1]]]
    /\ UNCHANGED bytes

Return(t) ==
    /\ call[t] # NoCall /\ call[t].todo = {}
    /\ call[t].op = "read" => Len(call[t].out) = call[t].size
    /\ call' = [call EXCEPT ![t] = NoCall]
    /\ UNCHANGED bytes

Next ==
    \E t \in Thread : \/ \E r \in Request : Call(t, r)
                      \/ Put(t) \/ Fetch(t) \/ Return(t)

Spec == Init /\ [][Next]_vars
===============================================================================
