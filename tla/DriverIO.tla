------------------------------- MODULE DriverIO -------------------------------
(***************************************************************************)
(* newfs_driver_read and newfs_driver_write on top of the user-space       *)
(* ddriver, which reads and writes whole sectors of IO_SZ bytes at the     *)
(* position of one file descriptor.  All threads of the file system share  *)
(* that descriptor, and nothing makes a seek and the reads after it one    *)
(* step.                                                                   *)
(***************************************************************************)
EXTENDS Integers, Sequences

CONSTANTS
    Thread,    \* threads of the file system
    DiskSize,  \* bytes of the device
    IO_SZ,     \* bytes of a sector
    Byte,      \* the values of a byte
    MaxSize,   \* bound: bytes of one request
    Op         \* the requests made: a subset of {"read", "write"}

ASSUME SectorAssumption == IO_SZ \in Nat \ {0} /\ DiskSize \in Nat /\ DiskSize % IO_SZ = 0
ASSUME BoundAssumption == MaxSize \in Nat
ASSUME OpAssumption == Op \subseteq {"read", "write"}

VARIABLES
    bytes,  \* the medium
    head,   \* the position of the file descriptor
    io      \* the call every thread is in

vars == <<bytes, head, io>>
-------------------------------------------------------------------------------
Address == 0 .. DiskSize - 1

ROUND_DOWN(value, round) == IF value % round = 0 THEN value ELSE (value \div round) * round
ROUND_UP(value, round) ==
    IF value % round = 0 THEN value ELSE (value \div round + 1) * round

OffsetAligned(c) == ROUND_DOWN(c.offset, IO_SZ)
Bias(c)          == c.offset - OffsetAligned(c)
SizeAligned(c)   == ROUND_UP(c.size + Bias(c), IO_SZ)

Request ==
    {r \in [op : {"read"}, offset : Address, size : 0 .. MaxSize, content : {<<>>}] \cup
           UNION {[op : {"write"}, offset : Address, size : {n}, content : [1 .. n -> Byte]] :
                      n \in 0 .. MaxSize} :
        r.op \in Op}

\* No call is under way.
Idle == [pc |-> "idle"]

TypeOK ==
    /\ bytes \in [Address -> Byte]
    /\ head \in 0 .. DiskSize
    /\ \A t \in Thread :
          \/ io[t] = Idle
          \/ /\ io[t].pc \in {"seek", "read", "copy", "reseek", "write", "return"}
             /\ [op |-> io[t].op, offset |-> io[t].offset,
                 size |-> io[t].size, content |-> io[t].content] \in Request
             /\ io[t].left \in 0 .. DiskSize
             /\ io[t].temp \in Seq(Byte)

Init ==
    /\ bytes \in [Address -> Byte]
    /\ head = 0
    /\ io = [t \in Thread |-> Idle]
-------------------------------------------------------------------------------
At(t, pc) == io[t].pc = pc

Goto(t, pc) == io' = [io EXCEPT ![t].pc = pc]

\* left is size_aligned, temp the part of temp_content filled so far.
Start(t, r) ==
    /\ At(t, "idle")
    /\ r.offset + r.size <= DiskSize
    /\ io' = [io EXCEPT ![t] =
                [pc |-> "seek", op |-> r.op, offset |-> r.offset, size |-> r.size,
                 content |-> r.content, left |-> SizeAligned(r), temp |-> <<>>]]
    /\ UNCHANGED <<bytes, head>>

\* ddriver_seek(fd, offset_aligned, SEEK_SET) of newfs_driver_read.
Seek(t) ==
    /\ At(t, "seek")
    /\ head' = OffsetAligned(io[t])
    /\ Goto(t, "read")
    /\ UNCHANGED bytes

\* What read(2) yields at the descriptor's position: nothing past the end.
Sector == [k \in 1 .. IO_SZ |-> bytes[head + k - 1]]
AtEnd  == head >= DiskSize

\* "while (size_aligned != 0)": one ddriver_read.
ReadSector(t) ==
    /\ At(t, "read") /\ io[t].left # 0
    /\ \E s \in IF AtEnd THEN [1 .. IO_SZ -> Byte] ELSE {Sector} :
          io' = [io EXCEPT ![t].temp = @ \o s, ![t].left = @ - IO_SZ]
    /\ head' = IF AtEnd THEN head ELSE head + IO_SZ
    /\ UNCHANGED bytes

\* A slip in Copy: the bias is left out.
CopyNoBias(t) ==
    LET c == io[t]
    IN  /\ At(t, "read") /\ c.left = 0
        /\ io' = [io EXCEPT ![t] =
              IF c.op = "read"
              THEN [c EXCEPT !.pc = "return", !.temp = SubSeq(c.temp, 1, c.size)]
              ELSE [c EXCEPT !.pc = "reseek", !.left = SizeAligned(c),
                             !.temp = [k \in DOMAIN c.temp |->
                                         IF k <= c.size THEN c.content[k] ELSE c.temp[k]]]]
        /\ UNCHANGED <<bytes, head>>

\* A slip in Copy: a write goes back to the first seek instead of the second.
CopyReadsAgain(t) ==
    LET c == io[t]
    IN  /\ At(t, "read") /\ c.left = 0
        /\ io' = [io EXCEPT ![t] =
              IF c.op = "read"
              THEN [c EXCEPT !.pc = "return",
                             !.temp = SubSeq(c.temp, Bias(c) + 1, Bias(c) + c.size)]
              ELSE [c EXCEPT !.pc = "seek", !.left = SizeAligned(c), !.temp = <<>>]]
        /\ UNCHANGED <<bytes, head>>

\* The memcpy out of (into) temp_content: temp becomes the result of a read,
\* the new contents of the sectors of a write.
Copy(t) ==
    LET c == io[t]
    IN  /\ At(t, "read") /\ c.left = 0
        /\ io' = [io EXCEPT ![t] =
              IF c.op = "read"
              THEN [c EXCEPT !.pc = "return",
                             !.temp = SubSeq(c.temp, Bias(c) + 1, Bias(c) + c.size)]
              ELSE [c EXCEPT !.pc = "reseek", !.left = SizeAligned(c),
                             !.temp = [k \in DOMAIN c.temp |->
                                         IF k \in Bias(c) + 1 .. Bias(c) + c.size
                                         THEN c.content[k - Bias(c)] ELSE c.temp[k]]]]
        /\ UNCHANGED <<bytes, head>>

\* A slip in Reseek: the second seek is missing.
ReseekNot(t) ==
    /\ At(t, "reseek")
    /\ Goto(t, "write")
    /\ UNCHANGED <<bytes, head>>

\* The second seek of newfs_driver_write.
Reseek(t) ==
    /\ At(t, "reseek")
    /\ head' = OffsetAligned(io[t])
    /\ Goto(t, "write")
    /\ UNCHANGED bytes

\* One ddriver_write; temp[pos] is the first byte at cur.
WriteSector(t) ==
    LET c   == io[t]
        pos == SizeAligned(c) - c.left
    IN  /\ At(t, "write") /\ c.left # 0
        /\ bytes' = [a \in Address |-> IF a \in head .. head + IO_SZ - 1
                                       THEN c.temp[pos + a - head + 1] ELSE bytes[a]]
        /\ head' = head + IO_SZ
        /\ io' = [io EXCEPT ![t].left = @ - IO_SZ]

EndWrite(t) ==
    /\ At(t, "write") /\ io[t].left = 0
    /\ Goto(t, "return")
    /\ UNCHANGED <<bytes, head>>

Return(t) ==
    /\ At(t, "return")
    /\ io' = [io EXCEPT ![t] = Idle]
    /\ UNCHANGED <<bytes, head>>

Step(t) ==
    \/ Seek(t) \/ ReadSector(t) \/ Copy(t)
    \/ Reseek(t) \/ WriteSector(t) \/ EndWrite(t) \/ Return(t)

Next == \E t \in Thread : Step(t) \/ \E r \in Request : Start(t, r)

\* A thread that is inside a call goes on with it.
Fairness == \A t \in Thread : WF_vars(Step(t))

Spec == Init /\ [][Next]_vars /\ Fairness
-------------------------------------------------------------------------------
(***************************************************************************)
(* The bytes of a write that have not reached the medium: those of the     *)
(* sectors from the current one on.                                        *)
(***************************************************************************)
Todo(c) ==
    IF c.op = "read" \/ c.pc = "return" THEN {}
    ELSE LET first == IF c.pc = "write" THEN OffsetAligned(c) + SizeAligned(c) - c.left
                      ELSE OffsetAligned(c)
         IN  {a \in c.offset .. c.offset + c.size - 1 : a >= first}

\* What the caller sees of its call.
CallOf(c) ==
    IF c = Idle THEN [op |-> "none"]
    ELSE [op |-> c.op, offset |-> c.offset, size |-> c.size, content |-> c.content,
          todo |-> Todo(c), out |-> IF c.op = "read" /\ c.pc = "return" THEN c.temp ELSE <<>>]

Calls == [t \in Thread |-> CallOf(io[t])]

Disk == INSTANCE ByteDisk WITH call <- Calls

(***************************************************************************)
(* With one thread, aligned sectors and read-modify-write give the disk of *)
(* bytes that the callers count on: a write changes its range and no byte  *)
(* beside it, a read returns its range.                                    *)
(***************************************************************************)
ImplementsByteDisk == Disk!Spec

(***************************************************************************)
(* Every call returns: "size_aligned != 0" is reached from above in steps  *)
(* of IO_SZ, for every offset and size.                                    *)
(***************************************************************************)
CallsReturn == \A t \in Thread : io[t].pc # "idle" ~> io[t].pc = "idle"
===============================================================================
