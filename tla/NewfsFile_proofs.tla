---------------------------- MODULE NewfsFile_proofs ----------------------------
(***************************************************************************)
(* Proofs about NewfsFile, for every number of files, of cells in a block, *)
(* of slots and of bits, all requests and any number of them: the types,   *)
(* the owners of the blocks, what is read back, when the memcpy of a       *)
(* handler may end the process, and what newfs_destroy leaves on the disk. *)
(***************************************************************************)
EXTENDS NewfsFile, WellFoundedInduction, TLAPS

USE FileAssumption, SizeAssumption, DataAssumption, BoundAssumption, MapBitsAssumption

\* A set of naturals that is not empty has a least member.
LEMMA Least ==
    ASSUME NEW S \in SUBSET Nat, S # {}
    PROVE  \E m \in S : \A n \in S : m <= n
<1>1. IsWellFoundedOn(OpToRel(<, Nat), Nat)
  BY NatLessThanWellFounded
<1> DEFINE R == OpToRel(<, Nat)
<1>2. \A x, y \in Nat : <<y, x>> \in R <=> y < x
  BY DEF OpToRel
<1> HIDE DEF R
<1>3. IsWellFoundedOn(R, Nat)
  BY <1>1 DEF R
<1>4. PICK m \in S : \A n \in S : <<n, m>> \notin R
  BY <1>3, WFMin
<1>5. ASSUME NEW n \in S PROVE m <= n
  <2>1. m \in Nat /\ n \in Nat /\ ~(n < m)
    BY <1>2, <1>4
  <2> QED
    BY <2>1
<1> QED
  BY <1>5

\* Min and Max of the community modules, on the sets the model gives them.
LEMMA MinOf ==
    ASSUME NEW S \in SUBSET Nat, S # {}
    PROVE  Min(S) \in S /\ \A n \in S : Min(S) <= n
<1>1. \E m \in S : \A n \in S : m <= n
  BY Least
<1> QED
  BY <1>1 DEF Min

LEMMA MaxOf ==
    ASSUME NEW N \in Nat, NEW S \in SUBSET (0 .. N), S # {}
    PROVE  Max(S) \in S /\ \A n \in S : Max(S) >= n
<1> DEFINE T == {N - n : n \in S}
<1>1. T \in SUBSET Nat /\ T # {}
  <2>1. \A n \in S : n \in 0 .. N /\ N - n \in Nat
    OBVIOUS
  <2> QED
    BY <2>1
<1>2. PICK m \in T : \A n \in T : m <= n
  BY <1>1, Least
<1>3. PICK k \in S : m = N - k
  OBVIOUS
<1>4. \A n \in S : k >= n
  <2> TAKE n \in S
  <2>1. m <= N - n
    BY <1>2
  <2> QED
    BY <1>3, <2>1
<1> QED
  BY <1>4 DEF Max

LEMMA MaxOfTwo ==
    ASSUME NEW a \in Int, NEW b \in Int
    PROVE  /\ Max({a, b}) \in {a, b} /\ Max({a, b}) >= a /\ Max({a, b}) >= b
           /\ Min({a, b}) \in {a, b} /\ Min({a, b}) <= a /\ Min({a, b}) <= b
<1>1. \E m \in {a, b} : \A n \in {a, b} : m >= n
  OBVIOUS
<1>2. \E m \in {a, b} : \A n \in {a, b} : m <= n
  OBVIOUS
<1> QED
  BY <1>1, <1>2 DEF Max, Min

\* Division by the size of a block: quotient and remainder, and two
\* offsets less than a block apart.
LEMMA InBlock ==
    ASSUME NEW L \in Nat \ {0}, NEW c \in Nat
    PROVE  /\ c \div L \in Nat /\ c % L \in 0 .. L - 1
           /\ c = L * (c \div L) + (c % L)
  OBVIOUS

LEMMA Grows ==
    ASSUME NEW L \in Nat, NEW m \in Int, NEW n \in Int, m <= n
    PROVE  L * m <= L * n
<1>1. L * (n - m) >= 0
  OBVIOUS
<1>2. L * n = L * m + L * (n - m)
  OBVIOUS
<1> QED
  BY <1>1, <1>2

LEMMA SameBlock ==
    ASSUME NEW L \in Nat \ {0}, NEW c \in Nat, NEW o \in Nat, c <= o, o < c + (L - (c % L))
    PROVE  o \div L = c \div L /\ o % L = (c % L) + (o - c)
<1> DEFINE q == c \div L
           r == c % L
           q2 == o \div L
           r2 == o % L
<1>1. /\ q \in Nat /\ r \in 0 .. L - 1 /\ c = L * q + r
      /\ q2 \in Nat /\ r2 \in 0 .. L - 1 /\ o = L * q2 + r2
      /\ c <= o /\ o < c + (L - r)
  BY InBlock
<1> HIDE DEF q, r, q2, r2
<1>2. ~(q2 >= q + 1)
  <2> SUFFICES ASSUME q2 >= q + 1 PROVE FALSE
    OBVIOUS
  <2>1. L * (q + 1) <= L * q2
    BY <1>1, Grows
  <2>2. L * (q + 1) = L * q + L
    BY <1>1
  <2> QED
    BY <1>1, <2>1, <2>2
<1>3. ~(q2 + 1 <= q)
  <2> SUFFICES ASSUME q2 + 1 <= q PROVE FALSE
    OBVIOUS
  <2>1. L * (q2 + 1) <= L * q
    BY <1>1, Grows
  <2>2. L * (q2 + 1) = L * q2 + L
    BY <1>1
  <2> QED
    BY <1>1, <2>1, <2>2
<1>4. q2 = q
  BY <1>1, <1>2, <1>3
<1>5. r2 = r + (o - c)
  BY <1>1, <1>4
<1> QED
  BY <1>4, <1>5 DEF q, r, q2, r2
-------------------------------------------------------------------------------
\* What a record of a thread may become.
LEMMA Constants ==
    /\ FileMax \in Nat /\ 1 \in File /\ 0 \in Slot /\ None \notin Bit
    /\ Malloced \in Buffer /\ Null \notin Buffer
    /\ \A ret \in {"none", "ok", "ESPIPE", "ENOSPC"} : Idle(ret) \in ThreadState
<1>1. FileMax \in Nat /\ 1 \in File /\ 0 \in Slot /\ None \notin Bit
  BY DEF FileMax, File, Slot, None, Bit
<1>2. Malloced \in Buffer /\ Null \notin Buffer
  BY NullAssumption DEF Malloced, Buffer, Off, Cell
<1>3. ASSUME NEW ret \in {"none", "ok", "ESPIPE", "ENOSPC"} PROVE Idle(ret) \in ThreadState
  BY <1>1 DEF Idle, ThreadState, Cell
<1> QED
  BY <1>1, <1>2, <1>3

\* Operations started never pass their bound.
LEMMA OpsType == TypeOK => ops \in Int /\ ops <= MaxOps
  BY DEF TypeOK

\* What a thread's record holds.
LEMMA Fields ==
    ASSUME TypeOK, NEW t \in Thread
    PROVE  /\ thread[t] \in ThreadState
           /\ thread[t].file \in File /\ thread[t].op \in {"none", "write", "read"}
           /\ thread[t].val \in Cell /\ thread[t].buf \in Seq(Cell)
           /\ thread[t].cur \in 0 .. FileMax /\ thread[t].cur \in Nat
           /\ thread[t].size \in 0 .. FileMax
           /\ thread[t].rem \in 0 .. MaxLen /\ thread[t].rem \in Nat
<1>1. thread[t] \in ThreadState
  BY DEF TypeOK
<1>2. /\ thread[t].file \in File /\ thread[t].op \in {"none", "write", "read"}
      /\ thread[t].val \in Cell /\ thread[t].buf \in Seq(Cell)
      /\ thread[t].cur \in 0 .. FileMax /\ thread[t].size \in 0 .. FileMax
      /\ thread[t].rem \in 0 .. MaxLen
  BY <1>1 DEF ThreadState
<1> QED
  BY <1>1, <1>2, Constants

\* The cells a copy moves stay inside the request and inside the block.
LEMMA CopyBounds ==
    ASSUME TypeOK, NEW t \in Thread, BlockIdx(t) < DATA_PER_FILE
    PROVE  /\ BlockIdx(t) \in Slot /\ BlockOffset(t) \in Off
           /\ CopyLen(t) \in Nat /\ CopyLen(t) <= thread[t].rem
           /\ CopyLen(t) <= LOGIC_SZ - BlockOffset(t)
           /\ thread[t].cur + CopyLen(t) \in 0 .. FileMax
<1> DEFINE L == LOGIC_SZ
           c == thread[t].cur
           m == thread[t].rem
           n == CopyLen(t)
           b == BlockOffset(t)
           i == BlockIdx(t)
<1>1. c \in Nat /\ m \in Nat /\ L \in Nat \ {0}
  BY Fields
<1>2. i \in Nat /\ b \in 0 .. L - 1 /\ c = L * i + b
  BY <1>1, InBlock DEF BlockIdx, BlockOffset
<1>3. n \in {m, L - b} /\ n <= m /\ n <= L - b
  <2> DEFINE e == L - b
  <2>1. m \in Int /\ e \in Int /\ n = Min({m, e})
    BY <1>1, <1>2 DEF CopyLen
  <2> HIDE DEF m, e, n
  <2> QED
    BY <2>1, MaxOfTwo DEF e
<1> HIDE DEF L, c, m, n, b, i
<1>4. L * (i + 1) <= L * DATA_PER_FILE
  BY <1>1, <1>2, Grows DEF i
<1>5. L * (i + 1) = L * i + L
  BY <1>1, <1>2
<1>6. L * DATA_PER_FILE = FileMax
  BY DEF L, FileMax
<1>7. c + n <= FileMax /\ n \in Nat
  BY <1>1, <1>2, <1>3, <1>4, <1>5, <1>6, Constants
<1> QED
  BY <1>1, <1>2, <1>3, <1>7, Constants DEF L, c, m, n, b, i, Off, Slot

\* A thread inside a block is inside the file; between the parts of
\* allocate_data it has a bit.
AtBlock ==
    \A t \in Thread :
        /\ thread[t].pc \in {"scan", "mark", "place", "copy"} => BlockIdx(t) < DATA_PER_FILE
        /\ thread[t].pc \in {"mark", "place"} => thread[t].bit \in Bit

IInv == TypeOK /\ AtBlock /\ SlotsInStep

\* A step of one thread that leaves the files alone.
LEMMA ThreadStep ==
    ASSUME IInv, NEW t \in Thread, NEW r \in ThreadState, thread' = [thread EXCEPT ![t] = r],
           r.pc \in {"scan", "mark", "place", "copy"} => r.cur \div LOGIC_SZ < DATA_PER_FILE,
           r.pc \in {"mark", "place"} => r.bit \in Bit
    PROVE  thread' \in [Thread -> ThreadState] /\ AtBlock'
<1>1. thread' \in [Thread -> ThreadState]
  BY DEF IInv, TypeOK
<1>2. thread'[t] = r /\ \A u \in Thread \ {t} : thread'[u] = thread[u]
  BY DEF IInv, TypeOK
<1> QED
  BY <1>1, <1>2 DEF IInv, AtBlock, BlockIdx

\* What holds of the files when they stay as they are.
LEMMA FilesStay ==
    ASSUME IInv, UNCHANGED <<inodes, media, history>>, ops' \in {ops, ops + 1}, ops' <= MaxOps,
           thread' \in [Thread -> ThreadState], AtBlock'
    PROVE  IInv'
<1>1. /\ file_size' = file_size /\ data_block_no' = data_block_no /\ data' = data
      /\ map_data' = map_data /\ loaded' = loaded /\ disk' = disk /\ disk_inode' = disk_inode
      /\ life' = life /\ sync' = sync /\ written' = written /\ extent' = extent
      /\ grown' = grown
  BY DEF inodes, media, history
<1>2. TypeOK'
  <2>1. ops' \in 0 .. MaxOps
    BY DEF IInv, TypeOK
  <2> QED
    BY <1>1, <2>1 DEF IInv, TypeOK
<1>3. SlotsInStep'
  BY <1>1 DEF IInv, SlotsInStep, FirstLife
<1> QED
  BY <1>2, <1>3 DEF IInv

\* Every action keeps IInv, one lemma each.
LEMMA StartStep ==
    ASSUME IInv, NEW t \in Thread, NEW op \in {"write", "read"}, NEW f \in File, NEW v \in Cell,
           NEW off \in 0 .. FileMax, NEW len \in 1 .. MaxLen, Start(t, op, f, v, off, len)
    PROVE  IInv'
<1> DEFINE r == IF file_size[f] < off THEN Idle("ESPIPE")
                ELSE [Idle("none") EXCEPT !.pc = "loop", !.op = op, !.file = f, !.val = v,
                                          !.off = off, !.cur = off, !.rem = len]
<1>1. r \in ThreadState /\ r.pc \in {"idle", "loop"}
  <2> DEFINE new == [Idle("none") EXCEPT !.pc = "loop", !.op = op, !.file = f, !.val = v,
                                         !.off = off, !.cur = off, !.rem = len]
  <2>1. new \in ThreadState /\ new.pc = "loop"
    <3>1. Idle("none") \in ThreadState /\ len \in 0 .. MaxLen
      BY Constants
    <3> QED
      BY <3>1 DEF ThreadState
  <2>2. Idle("ESPIPE") \in ThreadState /\ Idle("ESPIPE").pc = "idle"
    BY Constants DEF Idle
  <2> QED
    BY <2>1, <2>2
<1>2. thread' = [thread EXCEPT ![t] = r]
  BY DEF Start
<1> HIDE DEF r
<1>3. thread' \in [Thread -> ThreadState] /\ AtBlock'
  BY <1>1, <1>2, ThreadStep
<1> QED
  <2>1. UNCHANGED <<inodes, media, history>> /\ ops' \in {ops, ops + 1} /\ ops' <= MaxOps
    BY OpsType DEF IInv, Start
  <2> QED
    BY <1>3, <2>1, FilesStay

LEMMA LoopStep == ASSUME IInv, NEW t \in Thread, Loop(t) PROVE IInv'
<1> DEFINE th == thread[t]
           r == IF th.rem = 0 THEN [th EXCEPT !.pc = "load"]
                ELSE IF BlockIdx(t) >= DATA_PER_FILE THEN Idle("ENOSPC")
                ELSE IF data[th.file][BlockIdx(t)] = Null THEN [th EXCEPT !.pc = "scan"]
                ELSE [th EXCEPT !.pc = "copy"]
<1>1. th \in ThreadState /\ th.cur \div LOGIC_SZ \in Nat
  <2>1. th \in ThreadState /\ th.cur \in Nat
    BY Fields DEF IInv
  <2> QED
    BY <2>1, InBlock
<1>2. r \in ThreadState
  BY <1>1, Constants DEF ThreadState
<1>3. /\ r.pc \in {"load", "idle", "scan", "copy"}
      /\ r.pc \in {"scan", "copy"} => r.cur \div LOGIC_SZ < DATA_PER_FILE
  BY <1>1 DEF ThreadState, Idle, BlockIdx
<1>4. thread' = [thread EXCEPT ![t] = r]
  BY DEF Loop
<1> HIDE DEF r
<1>5. thread' \in [Thread -> ThreadState] /\ AtBlock'
  BY <1>2, <1>3, <1>4, ThreadStep
<1> QED
  <2>1. UNCHANGED <<inodes, media, history>> /\ ops' \in {ops, ops + 1} /\ ops' <= MaxOps
    BY OpsType DEF IInv, Loop
  <2> QED
    BY <1>5, <2>1, FilesStay

\* What a scan leaves in its thread.
LEMMA ScanMapMoves ==
    ASSUME TypeOK, NEW t \in Thread, ScanMap(t)
    PROVE  /\ thread'[t].pc \in {"mark", "copy"} /\ thread'[t].file = thread[t].file
           /\ thread'[t].pc = "mark" => thread'[t].bit \in Bit \ map_data
<1>1. thread[t] \in ThreadState /\ thread \in [Thread -> ThreadState]
  BY Fields DEF TypeOK
<1>2. CASE Bit \subseteq map_data
  <2>1. thread' = [thread EXCEPT ![t] = [thread[t] EXCEPT !.bit = None, !.pc = "copy"]]
    BY <1>2 DEF ScanMap
  <2>2. thread'[t] = [thread[t] EXCEPT !.bit = None, !.pc = "copy"]
    BY <1>1, <2>1
  <2>3. thread'[t].pc = "copy" /\ thread'[t].file = thread[t].file
    BY <1>1, <2>2 DEF ThreadState
  <2> QED
    BY <2>3
<1>3. CASE ~(Bit \subseteq map_data)
  <2>1. PICK b \in Bit : /\ IsFirstZero(map_data, b)
                         /\ thread' = [thread EXCEPT ![t].bit = b, ![t].pc = "mark"]
    BY <1>3 DEF ScanMap
  <2>2. thread'[t].pc = "mark" /\ thread'[t].bit = b /\ thread'[t].file = thread[t].file
    BY <1>1, <2>1 DEF ThreadState
  <2> QED
    BY <2>1, <2>2 DEF IsFirstZero
<1> QED
  BY <1>2, <1>3

LEMMA ScanMapStep == ASSUME IInv, NEW t \in Thread, ScanMap(t) PROVE IInv'
<1> DEFINE th == thread[t]
<1>1. th \in ThreadState /\ th.cur \div LOGIC_SZ < DATA_PER_FILE
  BY DEF IInv, TypeOK, AtBlock, ScanMap, At, BlockIdx
<1>2. PICK b \in Bit \cup {None}, pc \in {"mark", "copy"} :
         /\ pc = "mark" => b \in Bit
         /\ thread' = [thread EXCEPT ![t] = [th EXCEPT !.bit = b, !.pc = pc]]
  BY DEF ScanMap, IInv, TypeOK, ThreadState
<1> DEFINE r == [th EXCEPT !.bit = b, !.pc = pc]
<1>3. r \in ThreadState /\ r.pc = pc /\ r.bit = b /\ r.cur = th.cur
  BY <1>1 DEF ThreadState
<1>4. thread' = [thread EXCEPT ![t] = r]
  BY <1>2
<1> HIDE DEF r
<1>5. thread' \in [Thread -> ThreadState] /\ AtBlock'
  BY <1>1, <1>2, <1>3, <1>4, ThreadStep
<1> QED
  <2>1. UNCHANGED <<inodes, media, history>> /\ ops' \in {ops, ops + 1} /\ ops' <= MaxOps
    BY OpsType DEF IInv, ScanMap
  <2> QED
    BY <1>5, <2>1, FilesStay

LEMMA MarkMapStep == ASSUME IInv, NEW t \in Thread, MarkMap(t) PROVE IInv'
<1> DEFINE th == thread[t]
           pc == IF th.bit = max_data THEN "copy" ELSE "place"
           r == [th EXCEPT !.pc = pc]
<1>1. th \in ThreadState /\ th.cur \div LOGIC_SZ < DATA_PER_FILE /\ th.bit \in Bit
  BY DEF IInv, TypeOK, AtBlock, MarkMap, At, BlockIdx
<1>2. r \in ThreadState /\ r.pc = pc /\ r.bit = th.bit /\ r.cur = th.cur
  BY <1>1 DEF ThreadState
<1>3. thread' = [thread EXCEPT ![t] = r]
  BY DEF MarkMap
<1> HIDE DEF r
<1>4. thread' \in [Thread -> ThreadState] /\ AtBlock'
  BY <1>1, <1>2, <1>3, ThreadStep
<1>5. map_data' \subseteq Bit
  BY <1>1 DEF IInv, TypeOK, MarkMap
<1> QED
  BY <1>4, <1>5 DEF IInv, TypeOK, SlotsInStep, FirstLife, MarkMap, media, history

(***************************************************************************)
(* The slot allocate_data fills is the lowest free one, so the slots stay  *)
(* without gaps, and it gets its memory in the same step.                  *)
(***************************************************************************)
LEMMA PlaceStep == ASSUME IInv, NEW t \in Thread, Place(t) PROVE IInv'
<1> DEFINE th == thread[t]
           f == th.file
           free == {i \in Slot : data_block_no[f][i] = None}
           r == [th EXCEPT !.bit = None, !.pc = "copy"]
<1>1. th \in ThreadState /\ f \in File /\ th.cur \div LOGIC_SZ < DATA_PER_FILE /\ th.bit \in Bit
  BY Fields DEF IInv, AtBlock, Place, At, BlockIdx
<1>2. r \in ThreadState /\ r.pc = "copy" /\ r.cur = th.cur
  BY <1>1 DEF ThreadState
<1>3. thread' = [thread EXCEPT ![t] = r]
  BY DEF Place
<1> HIDE DEF r
<1>4. thread' \in [Thread -> ThreadState] /\ AtBlock'
  BY <1>1, <1>2, <1>3, ThreadStep
<1>5. /\ UNCHANGED <<file_size, map_data, media, history, ops>>
      /\ data_block_no \in [File -> [Slot -> Bit \cup {None}]]
      /\ data \in [File -> [Slot -> Buffer \cup {Null}]]
  BY DEF Place, IInv, TypeOK
<1>6. /\ loaded' = loaded /\ disk' = disk /\ disk_inode' = disk_inode
      /\ life' = life /\ sync' = sync /\ written' = written /\ extent' = extent
      /\ grown' = grown
  BY <1>5 DEF media, history
<1>7. CASE free = {}
  <2>1. data_block_no' = data_block_no /\ data' = data
    BY <1>7 DEF Place
  <2>2. UNCHANGED <<inodes, media, history>> /\ ops' \in {ops, ops + 1} /\ ops' <= MaxOps
    BY <1>5, <2>1, OpsType DEF inodes, IInv
  <2> QED
    BY <1>4, <2>2, FilesStay
<1>8. CASE free # {}
  <2> DEFINE k == Min(free)
  <2>1. k \in Slot /\ data_block_no[f][k] = None /\ \A i \in free : k <= i
    <3>1. free \in SUBSET Nat
      BY DEF Slot
    <3> QED
      BY <1>8, <3>1, MinOf
  <2>2. /\ data_block_no' = [data_block_no EXCEPT ![f][k] = th.bit]
        /\ data' = [data EXCEPT ![f][k] = Malloced]
    BY <1>8 DEF Place
  <2>3. \A i \in Slot : i < k => data_block_no[f][i] # None
    BY <2>1 DEF Slot
  <2> HIDE DEF k
  <2>4. /\ data_block_no' \in [File -> [Slot -> Bit \cup {None}]]
        /\ data' \in [File -> [Slot -> Buffer \cup {Null}]]
    BY <1>1, <1>5, <2>1, <2>2, Constants
  <2>5. /\ \A g \in File, i \in Slot : ~(g = f /\ i = k) =>
              data_block_no'[g][i] = data_block_no[g][i] /\ data'[g][i] = data[g][i]
        /\ data_block_no'[f][k] = th.bit /\ data'[f][k] = Malloced
    BY <1>1, <1>5, <2>1, <2>2
  <2>6. TypeOK'
    BY <1>4, <1>5, <1>6, <2>4 DEF IInv, TypeOK
  <2>7. th.bit # None /\ Malloced # Null
    BY <1>1, Constants
  <2>8. SlotsInStep'
    <3> SUFFICES ASSUME FirstLife', NEW g \in File, NEW i \in Slot
                 PROVE  /\ data'[g][i] = Null <=> data_block_no'[g][i] = None
                        /\ data_block_no'[g][i] # None =>
                              \A j \in 0 .. i : data_block_no'[g][j] # None
      BY DEF SlotsInStep
    <3>1. /\ data[g][i] = Null <=> data_block_no[g][i] = None
          /\ data_block_no[g][i] # None => \A j \in 0 .. i : data_block_no[g][j] # None
      BY <1>6 DEF IInv, SlotsInStep, FirstLife
    <3>2. \A j \in 0 .. i : j \in Slot
      BY DEF Slot
    <3>3. CASE g = f /\ i = k
      BY <2>1, <2>3, <2>5, <2>7, <3>2, <3>3 DEF Slot
    <3>4. CASE ~(g = f /\ i = k)
      BY <2>1, <2>5, <2>7, <3>1, <3>2, <3>4
    <3> QED
      BY <3>3, <3>4
  <2> QED
    BY <1>4, <2>6, <2>8 DEF IInv
<1> QED
  BY <1>7, <1>8

\* Where a copy leaves its thread.
LEMMA CopyMoves ==
    ASSUME NEW t \in Thread, Copy(t), thread \in [Thread -> ThreadState]
    PROVE  \/ thread' = thread
           \/ /\ thread'[t].pc = "loop" /\ thread'[t].file = thread[t].file
              /\ thread'[t].op = thread[t].op
<1> DEFINE th == thread[t]
           n == CopyLen(t)
           buf == IF th.op = "write" THEN <<>>
                  ELSE th.buf \o [k \in 1 .. n |->
                                     data[th.file][BlockIdx(t)][BlockOffset(t) + k - 1]]
           r == [th EXCEPT !.pc = "loop", !.rem = th.rem - n, !.cur = th.cur + n, !.buf = buf]
<1>1. thread' = thread \/ thread' = [thread EXCEPT ![t] = r]
  BY DEF Copy
<1> HIDE DEF n, buf
<1>2. r.pc = "loop" /\ r.file = th.file /\ r.op = th.op
  BY DEF ThreadState
<1> HIDE DEF r
<1> QED
  BY <1>1, <1>2

\* The memcpy changes cells of a buffer that is there, or ends the process.
LEMMA CopyStep == ASSUME IInv, NEW t \in Thread, Copy(t) PROVE IInv'
<1> DEFINE th == thread[t]
           f == th.file
           i == BlockIdx(t)
           b == BlockOffset(t)
           n == CopyLen(t)
<1>1. /\ th \in ThreadState /\ f \in File /\ th.val \in Cell /\ th.buf \in Seq(Cell)
      /\ th.cur \in Nat /\ th.rem \in 0 .. MaxLen /\ i < DATA_PER_FILE
  BY Fields DEF IInv, AtBlock, Copy, At
<1>2. /\ i \in Slot /\ b \in Off /\ n \in Nat /\ n <= th.rem /\ n <= LOGIC_SZ - b
      /\ th.cur + n \in 0 .. FileMax
  BY <1>1, CopyBounds DEF IInv
<1>3. /\ file_size' = file_size /\ data_block_no' = data_block_no /\ map_data' = map_data
      /\ loaded' = loaded /\ disk' = disk /\ disk_inode' = disk_inode /\ sync' = sync
      /\ ops' = ops /\ extent' = extent /\ grown' = grown
  BY DEF Copy
<1>4. CASE data[f][i] = Null
  <2>1. /\ life' = Crashed /\ data' = data /\ thread' = thread /\ written' = written
        /\ life = "first" \/ life = "later"
    BY <1>4 DEF Copy, At, Mounted
  <2>2. life' \in {"crashed", "crashed_later"}
    BY <2>1 DEF Crashed
  <2>3. TypeOK'
    BY <1>3, <2>1, <2>2 DEF IInv, TypeOK
  <2>4. AtBlock'
    BY <2>1 DEF IInv, AtBlock, BlockIdx
  <2>5. SlotsInStep'
    BY <2>2 DEF SlotsInStep, FirstLife
  <2> QED
    BY <2>3, <2>4, <2>5 DEF IInv
<1>5. CASE data[f][i] # Null
  <2> DEFINE buf == IF th.op = "write" THEN <<>>
                    ELSE th.buf \o [k \in 1 .. n |-> data[f][i][b + k - 1]]
             r == [th EXCEPT !.pc = "loop", !.rem = th.rem - n, !.cur = th.cur + n, !.buf = buf]
             block == [k \in Off |-> IF k \in b .. b + n - 1 THEN th.val ELSE data[f][i][k]]
             cells == [o \in DOMAIN written[f] |-> IF o \in th.cur .. th.cur + n - 1
                                                   THEN th.val ELSE written[f][o]]
  <2>1. life' = life /\ thread' = [thread EXCEPT ![t] = r]
    <3>1. life' = life
      BY <1>5 DEF Copy
    <3>2. thread' = [thread EXCEPT ![t] = r]
      BY <1>5 DEF Copy
    <3> QED
      BY <3>1, <3>2
  <2>2. data[f][i] \in Buffer /\ data \in [File -> [Slot -> Buffer \cup {Null}]]
    BY <1>1, <1>2, <1>5 DEF IInv, TypeOK
  <2>3. buf \in Seq(Cell)
    <3> DEFINE more == [k \in 1 .. n |-> data[f][i][b + k - 1]]
    <3>1. \A k \in 1 .. n : data[f][i][b + k - 1] \in Cell
      <4> TAKE k \in 1 .. n
      <4>1. b + k - 1 \in Off
        BY <1>2, SizeAssumption DEF Off
      <4> QED
        BY <2>2, <4>1 DEF Buffer
    <3>2. more \in Seq(Cell)
      BY <1>2, <3>1
    <3> HIDE DEF more
    <3> QED
      BY <1>1, <3>2 DEF more
  <2> HIDE DEF buf
  <2>4. r \in ThreadState /\ r.pc = "loop"
    <3>1. th.rem - n \in 0 .. MaxLen
      BY <1>1, <1>2
    <3> QED
      BY <1>1, <1>2, <2>3, <3>1 DEF ThreadState
  <2> HIDE DEF r
  <2>5. thread' \in [Thread -> ThreadState] /\ AtBlock'
    BY <2>1, <2>4, ThreadStep
  <2>6. CASE th.op = "write"
    <3>1. data' = [data EXCEPT ![f][i] = block] /\ written' = [written EXCEPT ![f] = cells]
      BY <1>5, <2>6 DEF Copy
    <3>2. block \in Buffer
      BY <1>1, <2>2 DEF Buffer
    <3>3. cells \in [0 .. FileMax - 1 -> Cell] /\ written \in [File -> [0 .. FileMax - 1 -> Cell]]
      <4>1. written \in [File -> [0 .. FileMax - 1 -> Cell]]
        BY DEF IInv, TypeOK
      <4>2. written[f] \in [0 .. FileMax - 1 -> Cell]
        BY <1>1, <4>1
      <4> QED
        BY <1>1, <4>1, <4>2
    <3> HIDE DEF block, cells
    <3>4. written' \in [File -> [0 .. FileMax - 1 -> Cell]]
      BY <3>1, <3>3
    <3>5. data' \in [File -> [Slot -> Buffer \cup {Null}]]
      BY <1>1, <1>2, <2>2, <3>1, <3>2
    <3>6. \A g \in File, j \in Slot : data'[g][j] = Null <=> data[g][j] = Null
      BY <1>1, <1>2, <1>5, <2>2, <3>1, <3>2, Constants
    <3>7. TypeOK'
      BY <1>3, <2>1, <2>5, <3>4, <3>5 DEF IInv, TypeOK
    <3>8. SlotsInStep'
      BY <1>3, <2>1, <3>6 DEF IInv, SlotsInStep, FirstLife
    <3> QED
      BY <2>5, <3>7, <3>8 DEF IInv
  <2>7. CASE th.op # "write"
    <3>1. data' = data /\ written' = written
      BY <1>5, <2>7 DEF Copy
    <3>2. UNCHANGED <<inodes, media, history>> /\ ops' \in {ops, ops + 1} /\ ops' <= MaxOps
      BY <1>3, <2>1, <3>1, OpsType DEF inodes, media, history, IInv
    <3> QED
      BY <2>5, <3>2, FilesStay
  <2> QED
    BY <2>6, <2>7
<1> QED
  BY <1>4, <1>5

LEMMA LoadSizeStep == ASSUME IInv, NEW t \in Thread, LoadSize(t) PROVE IInv'
<1> DEFINE th == thread[t]
           size == Max({file_size[th.file], th.cur})
           r == [th EXCEPT !.pc = "store", !.size = size]
<1>1. th \in ThreadState /\ th.cur \in 0 .. FileMax /\ file_size[th.file] \in 0 .. FileMax
  BY Fields DEF IInv, TypeOK
<1>2. size \in 0 .. FileMax
  <2> DEFINE e == file_size[th.file]
             c == th.cur
  <2>1. e \in 0 .. FileMax /\ c \in 0 .. FileMax /\ e \in Int /\ c \in Int
    BY <1>1
  <2> HIDE DEF e, c
  <2>2. Max({e, c}) \in {e, c}
    BY <2>1, MaxOfTwo
  <2> QED
    BY <2>1, <2>2 DEF e, c
<1> HIDE DEF size
<1>3. r \in ThreadState /\ r.pc = "store"
  BY <1>1, <1>2 DEF ThreadState
<1>4. thread' = [thread EXCEPT ![t] = r]
  BY DEF LoadSize, size
<1> HIDE DEF r
<1>5. thread' \in [Thread -> ThreadState] /\ AtBlock'
  BY <1>3, <1>4, ThreadStep
<1> QED
  <2>1. UNCHANGED <<inodes, media, history>> /\ ops' \in {ops, ops + 1} /\ ops' <= MaxOps
    BY OpsType DEF IInv, LoadSize
  <2> QED
    BY <1>5, <2>1, FilesStay

LEMMA StoreSizeStep == ASSUME IInv, NEW t \in Thread, StoreSize(t) PROVE IInv'
<1> DEFINE th == thread[t]
           r == Idle("ok")
           m == Max({extent[th.file], th.cur})
<1>1. /\ th.size \in 0 .. FileMax /\ th.file \in File /\ th.cur \in 0 .. FileMax
      /\ extent \in [File -> 0 .. FileMax] /\ file_size \in [File -> 0 .. FileMax]
  BY Fields DEF IInv, TypeOK
<1>2. m \in 0 .. FileMax
  <2> DEFINE e == extent[th.file]
             c == th.cur
  <2>1. e \in 0 .. FileMax /\ c \in 0 .. FileMax /\ e \in Int /\ c \in Int
    BY <1>1
  <2> HIDE DEF e, c
  <2>2. Max({e, c}) \in {e, c}
    BY <2>1, MaxOfTwo
  <2> QED
    BY <2>1, <2>2 DEF e, c
<1>3. /\ file_size' = [file_size EXCEPT ![th.file] = th.size]
      /\ extent' = IF th.op = "write" THEN [extent EXCEPT ![th.file] = m] ELSE extent
      /\ thread' = [thread EXCEPT ![t] = r]
      /\ UNCHANGED <<data_block_no, data, map_data, media, written, grown, ops>>
  BY DEF StoreSize
<1> HIDE DEF m
<1>4. r \in ThreadState /\ r.pc = "idle"
  BY Constants DEF Idle
<1> HIDE DEF r
<1>5. thread' \in [Thread -> ThreadState] /\ AtBlock'
  BY <1>3, <1>4, ThreadStep
<1>6. extent' \in [File -> 0 .. FileMax] /\ file_size' \in [File -> 0 .. FileMax]
  BY <1>1, <1>2, <1>3
<1>7. TypeOK'
  BY <1>3, <1>5, <1>6 DEF IInv, TypeOK, media
<1>8. SlotsInStep'
  BY <1>3 DEF IInv, SlotsInStep, FirstLife, media
<1> QED
  BY <1>5, <1>7, <1>8 DEF IInv

LEMMA TruncateStep ==
    ASSUME IInv, NEW t \in Thread, NEW f \in File, NEW size \in 0 .. FileMax, Truncate(t, f, size)
    PROVE  IInv'
<1>1. /\ file_size' = [file_size EXCEPT ![f] = size]
      /\ extent' = [extent EXCEPT ![f] = size]
      /\ grown' = (grown \/ size > file_size[f])
      /\ ops < MaxOps /\ ops' = ops + 1
      /\ UNCHANGED <<data_block_no, data, map_data, thread, media, written>>
  BY DEF Truncate
<1>2. extent' \in [File -> 0 .. FileMax] /\ file_size' \in [File -> 0 .. FileMax]
  BY <1>1 DEF IInv, TypeOK
<1>3. grown' \in BOOLEAN
  BY <1>1
<1>4. ops' \in 0 .. MaxOps
  BY <1>1 DEF IInv, TypeOK
<1>5. TypeOK'
  BY <1>1, <1>2, <1>3, <1>4 DEF IInv, TypeOK, media
<1>6. AtBlock' /\ SlotsInStep'
  BY <1>1 DEF IInv, AtBlock, BlockIdx, SlotsInStep, FirstLife, media
<1> QED
  BY <1>5, <1>6 DEF IInv
-------------------------------------------------------------------------------
\* The steps of newfs_destroy and of the next mount.
LEMMA UnmountStep == ASSUME IInv, Unmount PROVE IInv'
<1>1. UNCHANGED <<inodes, thread, loaded, disk, disk_inode, history, ops>>
  BY DEF Unmount
<1>2. /\ life \in {"first", "later"} /\ life' \in {"syncing", "resyncing"}
      /\ life' = "syncing" => life = "first"
  BY DEF Unmount, Mounted
<1>3. sync' \in Seq(File)
  <2>1. [k \in File |-> NumFiles + 1 - k] \in Seq(File)
    BY DEF File
  <2>2. [k \in File |-> k] \in Seq(File)
    BY DEF File
  <2> QED
    BY <2>1, <2>2 DEF Unmount
<1>4. TypeOK'
  BY <1>1, <1>2, <1>3 DEF IInv, TypeOK, inodes, history
<1>5. AtBlock' /\ SlotsInStep'
  BY <1>1, <1>2 DEF IInv, AtBlock, BlockIdx, SlotsInStep, FirstLife, inodes
<1> QED
  BY <1>4, <1>5 DEF IInv

\* What sync_inode leaves on the disk has the type of a cell.
LEMMA DiskAfterType ==
    ASSUME TypeOK, NEW f \in File, ~SyncCrashes(f)
    PROVE  DiskAfter(f) \in [Address -> Cell]
<1> DEFINE start(i) == data_block_no[f][i] * LOGIC_SZ
           slots(a) == {i \in Slot : /\ data_block_no[f][i] # None
                                     /\ a \in start(i) .. start(i) + file_size[f] - 1}
           cell(a)  == LET i == Max(slots(a))
                       IN  IF a - start(i) \in Off THEN data[f][i][a - start(i)] ELSE Junk
<1>1. ASSUME NEW a \in Address, slots(a) # {}
      PROVE  cell(a) \in Cell
  <2> DEFINE S == slots(a)
             i == Max(S)
  <2>1. S \in SUBSET (0 .. DATA_PER_FILE - 1) /\ DATA_PER_FILE - 1 \in Nat /\ S # {}
    BY <1>1 DEF Slot
  <2> HIDE DEF S
  <2>2. i \in S
    BY <2>1, MaxOf
  <2>3. /\ i \in Slot /\ data_block_no[f][i] # None
        /\ a \in start(i) .. start(i) + file_size[f] - 1
    BY <2>2 DEF S
  <2> HIDE DEF i
  <2>4. start(i) \in Int /\ file_size[f] \in Nat
    <3>1. data_block_no[f][i] \in Int /\ file_size[f] \in 0 .. FileMax
      BY <2>3 DEF TypeOK, Bit, None
    <3> QED
      BY <3>1, Constants
  <2>5. file_size[f] > 0
    BY <2>3, <2>4
  <2>6. data[f][i] \in Buffer
    BY <2>3, <2>5 DEF TypeOK, SyncCrashes
  <2>7. CASE a - start(i) \in Off
    BY <2>6, <2>7 DEF Buffer, i, S
  <2>8. CASE a - start(i) \notin Off
    BY <2>8 DEF Cell, i, S
  <2> QED
    BY <2>7, <2>8
<1>2. \A a \in Address : disk[a] \in Cell
  BY DEF TypeOK
<1> HIDE DEF cell
<1>3. [a \in Address |-> IF slots(a) = {} THEN disk[a] ELSE cell(a)] \in [Address -> Cell]
  BY <1>1, <1>2
<1> QED
  BY <1>3 DEF DiskAfter, cell

LEMMA SyncFileStep == ASSUME IInv, SyncFile PROVE IInv'
<1> DEFINE f == Head(sync)
<1>1. /\ UNCHANGED <<inodes, thread, loaded, history, ops>>
      /\ life \in {"syncing", "resyncing"} /\ sync # <<>> /\ sync' = Tail(sync)
  BY DEF SyncFile
<1>2. f \in File /\ sync' \in Seq(File)
  BY <1>1 DEF IInv, TypeOK
<1>3. /\ life' \in {"crashed", "crashed_later"} \/ life' = life
      /\ disk' = disk \/ (disk' = DiskAfter(f) /\ ~SyncCrashes(f))
      /\ disk_inode' = disk_inode
            \/ disk_inode' = [disk_inode EXCEPT ![f] =
                                 [size |-> file_size[f], data_block_no |-> data_block_no[f]]]
  BY DEF SyncFile, Crashed
<1>4. disk' \in [Address -> Cell]
  BY <1>2, <1>3, DiskAfterType DEF IInv, TypeOK
<1>5. disk_inode' \in [File -> [size : 0 .. FileMax, data_block_no : [Slot -> Bit \cup {None}]]]
  <2> DEFINE r == [size |-> file_size[f], data_block_no |-> data_block_no[f]]
  <2>1. r \in [size : 0 .. FileMax, data_block_no : [Slot -> Bit \cup {None}]]
    <3>1. file_size[f] \in 0 .. FileMax /\ data_block_no[f] \in [Slot -> Bit \cup {None}]
      BY <1>2 DEF IInv, TypeOK
    <3> QED
      BY <3>1
  <2> HIDE DEF r
  <2>2. disk_inode' = disk_inode \/ disk_inode' = [disk_inode EXCEPT ![f] = r]
    BY <1>3 DEF r
  <2> QED
    BY <1>2, <2>1, <2>2 DEF IInv, TypeOK
<1>6. life' \in {"first", "syncing", "unmounted", "later", "resyncing", "ended",
                "crashed", "crashed_later"}
  BY <1>1, <1>3
<1>7. TypeOK'
  BY <1>1, <1>2, <1>4, <1>5, <1>6 DEF IInv, TypeOK, inodes, history
<1>8. AtBlock' /\ SlotsInStep'
  BY <1>1, <1>3 DEF IInv, AtBlock, BlockIdx, SlotsInStep, FirstLife, inodes
<1> QED
  BY <1>7, <1>8 DEF IInv

LEMMA FinishUnmountStep == ASSUME IInv, FinishUnmount PROVE IInv'
<1>1. /\ UNCHANGED <<inodes, thread, loaded, disk, disk_inode, sync, history, ops>>
      /\ life' \in {"unmounted", "ended"}
      /\ life' = "unmounted" => life = "syncing"
  BY DEF FinishUnmount
<1>2. TypeOK'
  BY <1>1 DEF IInv, TypeOK, inodes, history
<1>3. AtBlock' /\ SlotsInStep'
  BY <1>1 DEF IInv, AtBlock, BlockIdx, SlotsInStep, FirstLife, inodes
<1> QED
  BY <1>2, <1>3 DEF IInv

LEMMA RemountStep == ASSUME IInv, Remount PROVE IInv'
<1>1. /\ life' = "later" /\ loaded' = {}
      /\ file_size' = [f \in File |-> 0]
      /\ data_block_no' = [f \in File |-> [i \in Slot |-> None]]
      /\ data' = [f \in File |-> [i \in Slot |-> Null]]
      /\ thread' = [t \in Thread |-> Idle("none")]
      /\ UNCHANGED <<map_data, disk, disk_inode, sync, history, ops>>
  BY DEF Remount
<1>2. /\ file_size' \in [File -> 0 .. FileMax]
      /\ data_block_no' \in [File -> [Slot -> Bit \cup {None}]]
      /\ data' \in [File -> [Slot -> Buffer \cup {Null}]]
      /\ thread' \in [Thread -> ThreadState]
  BY <1>1, Constants
<1>3. TypeOK'
  BY <1>1, <1>2 DEF IInv, TypeOK, history
<1>4. AtBlock' /\ SlotsInStep'
  BY <1>1 DEF AtBlock, Idle, SlotsInStep, FirstLife
<1> QED
  BY <1>3, <1>4 DEF IInv

LEMMA LoadStep == ASSUME IInv, NEW f \in File, Load(f) PROVE IInv'
<1>1. /\ life = "later" /\ loaded' = loaded \cup {f}
      /\ file_size' = [file_size EXCEPT ![f] = disk_inode[f].size]
      /\ data_block_no' = [data_block_no EXCEPT ![f] = disk_inode[f].data_block_no]
      /\ UNCHANGED <<map_data, thread, disk, disk_inode, life, sync, history, ops>>
  BY DEF Load
<1>2. PICK pointers \in [Slot -> {Null, Malloced}] : data' = [data EXCEPT ![f] = pointers]
  BY DEF Load
<1>3. disk_inode[f].size \in 0 .. FileMax /\ disk_inode[f].data_block_no \in [Slot -> Bit \cup {None}]
  BY DEF IInv, TypeOK
<1>4. pointers \in [Slot -> Buffer \cup {Null}]
  BY Constants
<1>5. /\ file_size' \in [File -> 0 .. FileMax]
      /\ data_block_no' \in [File -> [Slot -> Bit \cup {None}]]
      /\ data' \in [File -> [Slot -> Buffer \cup {Null}]]
  BY <1>1, <1>2, <1>3, <1>4 DEF IInv, TypeOK
<1>6. TypeOK'
  BY <1>1, <1>5 DEF IInv, TypeOK, history
<1>7. AtBlock' /\ SlotsInStep'
  BY <1>1 DEF IInv, AtBlock, BlockIdx, SlotsInStep, FirstLife
<1> QED
  BY <1>6, <1>7 DEF IInv
-------------------------------------------------------------------------------
\* IInv holds from the beginning, and so always.
LEMMA InitInv == Init => IInv
<1> SUFFICES ASSUME Init PROVE IInv
  OBVIOUS
<1>1. TypeOK
  <2>1. /\ file_size \in [File -> 0 .. FileMax]
        /\ data_block_no \in [File -> [Slot -> Bit \cup {None}]]
        /\ data \in [File -> [Slot -> Buffer \cup {Null}]]
        /\ map_data \subseteq Bit
        /\ thread \in [Thread -> ThreadState] /\ loaded \subseteq File
    BY Constants DEF Init, Bit
  <2>2. /\ disk \in [Address -> Cell]
        /\ disk_inode \in [File -> [size : 0 .. FileMax, data_block_no : [Slot -> Bit \cup {None}]]]
        /\ written \in [File -> [0 .. FileMax - 1 -> Cell]]
        /\ extent \in [File -> 0 .. FileMax]
    BY Constants DEF Init, Cell, NewInode
  <2>3. sync \in Seq(File) /\ ops \in 0 .. MaxOps /\ life = "first" /\ grown = FALSE
    BY DEF Init
  <2> QED
    BY <2>1, <2>2, <2>3 DEF TypeOK
<1>2. AtBlock
  BY DEF Init, AtBlock, Idle
<1>3. SlotsInStep
  BY DEF Init, SlotsInStep
<1> QED
  BY <1>1, <1>2, <1>3 DEF IInv

LEMMA NextInv == IInv /\ [Next]_vars => IInv'
<1> SUFFICES ASSUME IInv, [Next]_vars PROVE IInv'
  OBVIOUS
<1>1. CASE UNCHANGED vars
  <2>1. TypeOK'
    BY <1>1 DEF vars, IInv, TypeOK
  <2>2. AtBlock' /\ SlotsInStep'
    BY <1>1 DEF vars, IInv, AtBlock, BlockIdx, SlotsInStep, FirstLife
  <2> QED
    BY <2>1, <2>2 DEF IInv
<1>2. ASSUME NEW t \in Thread, NEW f \in File, NEW off \in 0 .. FileMax, NEW len \in 1 .. MaxLen,
             NEW v \in Value, Start(t, "write", f, v, off, len)
      PROVE  IInv'
  BY <1>2, StartStep DEF Cell
<1>3. ASSUME NEW t \in Thread, NEW f \in File, NEW off \in 0 .. FileMax, NEW len \in 1 .. MaxLen,
             Start(t, "read", f, Junk, off, len)
      PROVE  IInv'
  BY <1>3, StartStep DEF Cell
<1>4. ASSUME NEW t \in Thread,
             \/ Loop(t) \/ ScanMap(t) \/ MarkMap(t) \/ Place(t)
             \/ Copy(t) \/ LoadSize(t) \/ StoreSize(t)
      PROVE  IInv'
  BY <1>4, LoopStep, ScanMapStep, MarkMapStep, PlaceStep, CopyStep, LoadSizeStep, StoreSizeStep
<1>5. ASSUME NEW t \in Thread, NEW f \in File, NEW size \in 0 .. FileMax, Truncate(t, f, size)
      PROVE  IInv'
  BY <1>5, TruncateStep
<1>6. CASE Unmount \/ SyncFile \/ FinishUnmount \/ Remount
  BY <1>6, UnmountStep, SyncFileStep, FinishUnmountStep, RemountStep
<1>7. ASSUME NEW f \in File, Load(f) PROVE IInv'
  BY <1>7, LoadStep
<1> QED
  BY <1>1, <1>2, <1>3, <1>4, <1>5, <1>6, <1>7 DEF Next

LEMMA AlwaysIInv == Spec => []IInv
BY InitInv, NextInv, PTL DEF Spec

\* Every reachable state of the data path is well typed, for any number of
\* threads: in particular no cursor leaves the file and no copy its block.
THEOREM FilesTyped == Spec => []TypeOK
<1>1. IInv => TypeOK
  BY DEF IInv
<1> QED
  BY <1>1, AlwaysIInv, PTL

(***************************************************************************)
(* SlotsFill: for any number of threads, the slots of every inode fill     *)
(* from 0 without gaps and have memory exactly when they have a block,     *)
(* although allocate_data is not told which slot its caller needs.         *)
(***************************************************************************)
THEOREM SlotsFill == Spec => []SlotsInStep
<1>1. IInv => SlotsInStep
  BY DEF IInv
<1> QED
  BY <1>1, AlwaysIInv, PTL
-------------------------------------------------------------------------------
(***************************************************************************)
(* With one thread in the handlers at a time.                              *)
(***************************************************************************)
OneAtATime == \A t, u \in Thread : t = u

\* A size about to be stored covers the file and the request it was loaded for.
SizeInv ==
    FirstLife =>
        /\ \A f \in File : extent[f] <= file_size[f]
        /\ \A t \in Thread : thread[t].pc = "store" =>
              /\ thread[t].size >= file_size[thread[t].file]
              /\ thread[t].size >= thread[t].cur

\* Where the sizes stay and no size is about to be stored.
LEMMA SizesStay ==
    ASSUME SizeInv, file_size' = file_size, extent' = extent, FirstLife' => FirstLife,
           \A t \in Thread : thread'[t].pc # "store"
    PROVE  SizeInv'
BY DEF SizeInv

\* With one thread, a step of it is a step of all.
LEMMA OneMoves ==
    ASSUME OneAtATime, TypeOK, NEW t \in Thread, NEW r, thread' = [thread EXCEPT ![t] = r]
    PROVE  \A u \in Thread : u = t /\ thread'[u] = r
BY DEF OneAtATime, TypeOK

\* Every step keeps SizeInv.
LEMMA SizeStep == ASSUME OneAtATime, IInv, SizeInv, [Next]_vars PROVE SizeInv'
<1> USE DEF inodes, media, history
<1>1. CASE UNCHANGED vars
  BY <1>1 DEF vars, SizeInv, FirstLife
<1>2. ASSUME NEW t \in Thread, NEW f \in File, NEW off \in 0 .. FileMax, NEW len \in 1 .. MaxLen,
             NEW v \in Cell, NEW op \in {"write", "read"}, Start(t, op, f, v, off, len)
      PROVE  SizeInv'
  <2> DEFINE r == IF file_size[f] < off THEN Idle("ESPIPE")
                  ELSE [Idle("none") EXCEPT !.pc = "loop", !.op = op, !.file = f, !.val = v,
                                            !.off = off, !.cur = off, !.rem = len]
  <2>1. thread' = [thread EXCEPT ![t] = r] /\ file_size' = file_size /\ extent' = extent
        /\ life' = life
    BY <1>2 DEF Start
  <2>2. r.pc # "store"
    BY DEF Idle
  <2> HIDE DEF r
  <2>3. \A u \in Thread : thread'[u].pc # "store"
    BY <2>1, <2>2, OneMoves DEF IInv
  <2> QED
    BY <2>1, <2>3, SizesStay DEF FirstLife
<1>3. ASSUME NEW t \in Thread, Loop(t) \/ ScanMap(t) \/ MarkMap(t) \/ Place(t)
      PROVE  SizeInv'
  <2>1. file_size' = file_size /\ extent' = extent /\ life' = life
    BY <1>3 DEF Loop, ScanMap, MarkMap, Place
  <2>2. thread'[t].pc # "store"
    <3>1. thread[t] \in ThreadState /\ thread \in [Thread -> ThreadState]
      BY Fields DEF IInv, TypeOK
    <3>2. CASE Loop(t)
      BY <3>1, <3>2 DEF Loop, Idle, ThreadState
    <3>3. CASE ScanMap(t)
      BY <3>3, ScanMapMoves DEF IInv
    <3>4. CASE MarkMap(t)
      BY <3>1, <3>4 DEF MarkMap, ThreadState
    <3>5. CASE Place(t)
      BY <3>1, <3>5 DEF Place, ThreadState
    <3> QED
      BY <1>3, <3>2, <3>3, <3>4, <3>5
  <2>3. \A u \in Thread : thread'[u].pc # "store"
    BY <2>2 DEF OneAtATime
  <2> QED
    BY <2>1, <2>3, SizesStay DEF FirstLife
<1>4. ASSUME NEW t \in Thread, Copy(t) PROVE SizeInv'
  <2>1. file_size' = file_size /\ extent' = extent /\ life' \in {life, Crashed}
    BY <1>4 DEF Copy
  <2>2. FirstLife' => FirstLife
    BY <2>1 DEF FirstLife, Crashed
  <2>3. thread[t] \in ThreadState /\ thread \in [Thread -> ThreadState] /\ thread[t].pc = "copy"
    BY <1>4, Fields DEF IInv, TypeOK, Copy, At
  <2>4. thread'[t].pc \in {"copy", "loop"}
    BY <1>4, <2>3, CopyMoves
  <2>5. \A u \in Thread : thread'[u].pc # "store"
    BY <2>4 DEF OneAtATime
  <2> QED
    BY <2>1, <2>2, <2>5, SizesStay
<1>5. ASSUME NEW t \in Thread, LoadSize(t) PROVE SizeInv'
  <2> DEFINE e == file_size[thread[t].file]
             c == thread[t].cur
             r == [thread[t] EXCEPT !.pc = "store", !.size = Max({e, c})]
  <2>1. e \in Int /\ c \in Int
    <3>1. thread[t].file \in File /\ thread[t].cur \in 0 .. FileMax
      BY Fields DEF IInv
    <3> QED
      BY <3>1, Constants DEF IInv, TypeOK
  <2>2. /\ thread' = [thread EXCEPT ![t] = r] /\ file_size' = file_size /\ extent' = extent
        /\ life' = life
    BY <1>5 DEF LoadSize
  <2>3. r.size = Max({e, c}) /\ r.cur = c /\ r.file = thread[t].file
    BY Fields DEF IInv, ThreadState
  <2> HIDE DEF r, e, c
  <2>4. Max({e, c}) >= e /\ Max({e, c}) >= c
    BY <2>1, MaxOfTwo
  <2>5. \A u \in Thread : thread'[u] = r
    BY <2>2, OneMoves DEF IInv
  <2> QED
    BY <2>2, <2>3, <2>4, <2>5 DEF SizeInv, FirstLife, e
<1>6. ASSUME NEW t \in Thread, StoreSize(t) PROVE SizeInv'
  <2> SUFFICES ASSUME FirstLife' PROVE SizeInv'
    BY DEF SizeInv
  <2> DEFINE th == thread[t]
             e == extent[th.file]
             c == th.cur
             m == Max({e, c})
  <2>1. /\ th.file \in File /\ th.cur \in 0 .. FileMax /\ th.size \in 0 .. FileMax
        /\ file_size \in [File -> 0 .. FileMax] /\ extent \in [File -> 0 .. FileMax]
    BY Fields DEF IInv, TypeOK
  <2>2. e \in 0 .. FileMax /\ c \in Int /\ e \in Int
    BY <2>1, Constants
  <2>3. /\ file_size' = [file_size EXCEPT ![th.file] = th.size]
        /\ extent' = IF th.op = "write" THEN [extent EXCEPT ![th.file] = m] ELSE extent
        /\ thread' = [thread EXCEPT ![t] = Idle("ok")]
        /\ life' = life /\ thread[t].pc = "store"
    BY <1>6 DEF StoreSize, At
  <2>4. th.size >= file_size[th.file] /\ th.size >= c /\ \A f \in File : extent[f] <= file_size[f]
    BY <2>3 DEF SizeInv, FirstLife
  <2> HIDE DEF e, c
  <2>5. m \in {e, c}
    BY <2>2, MaxOfTwo
  <2>6. th.size >= e /\ th.size >= m /\ m \in Int
    BY <2>1, <2>2, <2>4, <2>5, Constants DEF e
  <2> HIDE DEF m
  <2>7. ASSUME NEW f \in File PROVE extent'[f] <= file_size'[f]
    <3>1. CASE f = th.file
      BY <2>1, <2>3, <2>6, <3>1 DEF e
    <3>2. CASE f # th.file
      BY <2>1, <2>3, <2>4, <3>2
    <3> QED
      BY <3>1, <3>2
  <2>8. \A u \in Thread : thread'[u] = Idle("ok")
    BY <2>3, OneMoves DEF IInv
  <2> QED
    BY <2>7, <2>8 DEF SizeInv, Idle
<1>7. ASSUME NEW t \in Thread, NEW f \in File, NEW size \in 0 .. FileMax, Truncate(t, f, size)
      PROVE  SizeInv'
  <2>1. /\ file_size' = [file_size EXCEPT ![f] = size] /\ extent' = [extent EXCEPT ![f] = size]
        /\ thread' = thread /\ life' = life /\ thread[t].pc = "idle"
        /\ file_size \in [File -> 0 .. FileMax] /\ extent \in [File -> 0 .. FileMax]
    BY <1>7 DEF Truncate, At, IInv, TypeOK
  <2>2. \A u \in Thread : thread[u].pc = "idle"
    BY <2>1 DEF OneAtATime
  <2>3. \A g \in File : \/ extent'[g] = extent[g] /\ file_size'[g] = file_size[g]
                        \/ extent'[g] = size /\ file_size'[g] = size
    BY <2>1
  <2> QED
    BY <2>1, <2>2, <2>3, Constants DEF SizeInv, FirstLife
<1>8. CASE Unmount
  <2>1. /\ file_size' = file_size /\ extent' = extent /\ thread' = thread
        /\ \A t \in Thread : thread[t].pc = "idle"
    BY <1>8 DEF Unmount
  <2>2. FirstLife' => FirstLife
    BY <1>8 DEF Unmount, FirstLife
  <2> QED
    BY <2>1, <2>2, SizesStay
<1>9. CASE SyncFile
  BY <1>9 DEF SyncFile, Crashed, SizeInv, FirstLife
<1>10. CASE FinishUnmount
  BY <1>10 DEF FinishUnmount, SizeInv, FirstLife
<1>11. CASE Remount
  BY <1>11 DEF Remount, SizeInv, FirstLife
<1>12. ASSUME NEW f \in File, Load(f) PROVE SizeInv'
  BY <1>12 DEF Load, SizeInv, FirstLife
<1> QED
  BY <1>1, <1>2, <1>3, <1>4, <1>5, <1>6, <1>7, <1>8, <1>9, <1>10, <1>11, <1>12 DEF Next, Cell

(***************************************************************************)
(* SizesCover: with one thread in the handlers at a time, a file is never  *)
(* shorter than the writes that succeeded since it was last truncated.     *)
(***************************************************************************)
THEOREM SizesCover ==
    ASSUME OneAtATime
    PROVE  Spec => []SizeCoversWrites
<1>1. Init => SizeInv
  BY DEF Init, SizeInv, Idle
<1>2. IInv /\ SizeInv /\ [Next]_vars => SizeInv'
  BY SizeStep
<1>3. IInv /\ SizeInv => SizeCoversWrites
  <2> SUFFICES ASSUME IInv, SizeInv, FirstLife, NEW f \in File PROVE file_size[f] >= extent[f]
    BY DEF SizeCoversWrites
  <2>1. file_size[f] \in Int /\ extent[f] \in Int /\ extent[f] <= file_size[f]
    BY Constants DEF IInv, TypeOK, SizeInv
  <2> QED
    BY <2>1
<1> QED
  BY <1>1, <1>2, <1>3, AlwaysIInv, PTL DEF Spec
-------------------------------------------------------------------------------
\* The blocks file f has: in memory, or on the disk while its inode is there.
Own(f) == IF f \in loaded THEN data_block_no[f] ELSE disk_inode[f].data_block_no

(***************************************************************************)
(* Every block has one owner and is marked; a block on its way from        *)
(* map_data to a slot has none.  That a mount finds no block twice needs   *)
(* that newfs_destroy saves nothing but the blocks in memory.              *)
(***************************************************************************)
OwnersInv ==
    /\ \A f \in File, i \in Slot : Own(f)[i] # None => Own(f)[i] \in map_data
    /\ \A f, g \in File, i, j \in Slot :
          Own(f)[i] = Own(g)[j] /\ Own(f)[i] # None => f = g /\ i = j

LifeInv ==
    /\ \A f \in File \ loaded, i \in Slot : data_block_no[f][i] = None
    /\ FirstLife =>
          /\ loaded = File
          /\ \A f \in File, i \in Slot :
                disk_inode[f].data_block_no[i] \in {None, data_block_no[f][i]}

OnItsWay ==
    \A t \in Thread :
        /\ thread[t].pc # "idle" => thread[t].file \in loaded
        /\ thread[t].pc = "mark" => thread[t].bit \notin map_data
        /\ thread[t].pc = "place" =>
              /\ thread[t].bit \in map_data
              /\ \A f \in File, i \in Slot : Own(f)[i] # thread[t].bit

BlockInv == OwnersInv /\ LifeInv /\ OnItsWay

\* The owners of blocks stay when no block is handed out or taken away.
LEMMA OwnersStay ==
    ASSUME BlockInv, FirstLife' => FirstLife,
           UNCHANGED <<data_block_no, loaded, disk_inode, map_data>>
    PROVE  /\ OwnersInv' /\ LifeInv'
           /\ \A f \in File : Own(f)' = Own(f)
<1>1. \A f \in File : Own(f)' = Own(f)
  BY DEF Own
<1>2. OwnersInv'
  BY <1>1 DEF BlockInv, OwnersInv
<1>3. LifeInv'
  BY DEF BlockInv, LifeInv
<1> QED
  BY <1>1, <1>2, <1>3

\* Every step keeps BlockInv.
LEMMA BlockStep == ASSUME OneAtATime, IInv, BlockInv, [Next]_vars PROVE BlockInv'
<1> USE DEF inodes, media, history
<1>1. CASE UNCHANGED vars
  <2>1. /\ FirstLife' => FirstLife
        /\ UNCHANGED <<data_block_no, loaded, disk_inode, map_data, thread>>
    BY <1>1 DEF vars, FirstLife
  <2> QED
    BY <2>1, OwnersStay DEF BlockInv, OnItsWay
<1>2. ASSUME NEW t \in Thread, NEW f \in File, NEW off \in 0 .. FileMax, NEW len \in 1 .. MaxLen,
             NEW v \in Cell, NEW op \in {"write", "read"}, Start(t, op, f, v, off, len)
      PROVE  BlockInv'
  <2> DEFINE r == IF file_size[f] < off THEN Idle("ESPIPE")
                  ELSE [Idle("none") EXCEPT !.pc = "loop", !.op = op, !.file = f, !.val = v,
                                            !.off = off, !.cur = off, !.rem = len]
  <2>1. /\ thread' = [thread EXCEPT ![t] = r] /\ life' = life /\ f \in loaded
        /\ UNCHANGED <<data_block_no, loaded, disk_inode, map_data>>
    BY <1>2 DEF Start
  <2>2. r.pc \in {"idle", "loop"} /\ (r.pc = "loop" => r.file = f)
    BY DEF Idle
  <2> HIDE DEF r
  <2>3. \A u \in Thread : thread'[u] = r
    BY <2>1, OneMoves DEF IInv
  <2>4. OwnersInv' /\ LifeInv'
    BY <2>1, OwnersStay DEF FirstLife
  <2> QED
    BY <2>1, <2>2, <2>3, <2>4 DEF BlockInv, OnItsWay
<1>3. ASSUME NEW t \in Thread, Loop(t) \/ LoadSize(t) \/ StoreSize(t)
      PROVE  BlockInv'
  <2>1. /\ life' = life /\ thread[t].pc # "idle"
        /\ UNCHANGED <<data_block_no, loaded, disk_inode, map_data>>
    BY <1>3 DEF Loop, LoadSize, StoreSize, At
  <2>2. /\ thread'[t].pc \notin {"mark", "place"}
        /\ thread'[t].pc # "idle" => thread'[t].file = thread[t].file
    <3>1. thread[t] \in ThreadState /\ thread \in [Thread -> ThreadState]
      BY Fields DEF IInv, TypeOK
    <3>2. CASE Loop(t)
      BY <3>1, <3>2 DEF Loop, Idle, ThreadState
    <3>3. CASE LoadSize(t)
      BY <3>1, <3>3 DEF LoadSize, ThreadState
    <3>4. CASE StoreSize(t)
      BY <3>1, <3>4 DEF StoreSize, Idle
    <3> QED
      BY <1>3, <3>2, <3>3, <3>4
  <2>3. OwnersInv' /\ LifeInv'
    BY <2>1, OwnersStay DEF FirstLife
  <2>4. OnItsWay'
    BY <2>1, <2>2 DEF BlockInv, OnItsWay, OneAtATime
  <2> QED
    BY <2>3, <2>4 DEF BlockInv
<1>4. ASSUME NEW t \in Thread, ScanMap(t) PROVE BlockInv'
  <2>1. /\ life' = life /\ thread[t].pc # "idle"
        /\ UNCHANGED <<data_block_no, loaded, disk_inode, map_data>>
    BY <1>4 DEF ScanMap, At
  <2>2. /\ thread'[t].pc \in {"mark", "copy"} /\ thread'[t].file = thread[t].file
        /\ thread'[t].pc = "mark" => thread'[t].bit \notin map_data
    BY <1>4, ScanMapMoves DEF IInv
  <2>3. OwnersInv' /\ LifeInv'
    BY <2>1, OwnersStay DEF FirstLife
  <2>4. OnItsWay'
    BY <2>1, <2>2 DEF BlockInv, OnItsWay, OneAtATime
  <2> QED
    BY <2>3, <2>4 DEF BlockInv
<1>5. ASSUME NEW t \in Thread, MarkMap(t) PROVE BlockInv'
  <2> DEFINE bit == thread[t].bit
  <2>1. /\ life' = life /\ thread[t].pc = "mark" /\ map_data' = map_data \cup {bit}
        /\ UNCHANGED <<data_block_no, loaded, disk_inode>>
    BY <1>5 DEF MarkMap, At
  <2>2. /\ thread'[t].pc \in {"copy", "place"} /\ thread'[t].file = thread[t].file
        /\ thread'[t].bit = bit
    <3>1. thread[t] \in ThreadState /\ thread \in [Thread -> ThreadState]
      BY Fields DEF IInv, TypeOK
    <3> QED
      BY <1>5, <3>1 DEF MarkMap, ThreadState
  <2>3. bit \notin map_data /\ bit \in Bit /\ thread[t].file \in loaded
    BY <2>1 DEF BlockInv, OnItsWay, IInv, AtBlock
  <2>4. \A f \in File : Own(f)' = Own(f)
    BY <2>1 DEF Own
  <2>5. OwnersInv' /\ LifeInv'
    BY <2>1, <2>4 DEF BlockInv, OwnersInv, LifeInv, FirstLife
  <2>6. \A f \in File, i \in Slot : Own(f)[i] # bit
    BY <2>3, Constants DEF BlockInv, OwnersInv
  <2>7. OnItsWay'
    BY <2>1, <2>2, <2>3, <2>4, <2>6 DEF OnItsWay, OneAtATime
  <2> QED
    BY <2>5, <2>7 DEF BlockInv
<1>6. ASSUME NEW t \in Thread, Place(t) PROVE BlockInv'
  <2>1. PICK bit, f, k : /\ bit = thread[t].bit /\ f = thread[t].file
                         /\ k = Min({i \in Slot : data_block_no[f][i] = None})
    OBVIOUS
  <2>2. /\ life' = life /\ map_data' = map_data /\ loaded' = loaded /\ disk_inode' = disk_inode
        /\ thread[t].pc = "place"
    BY <1>6 DEF Place, At
  <2>3. /\ bit \in map_data /\ bit \in Bit /\ f \in loaded /\ f \in File
        /\ \A g \in File, i \in Slot : Own(g)[i] # bit
    BY <2>2, <2>1, Fields DEF BlockInv, OnItsWay, IInv, AtBlock
  <2>4. data_block_no \in [File -> [Slot -> Bit \cup {None}]]
    BY DEF IInv, TypeOK
  <2>5. \/ data_block_no' = data_block_no
        \/ /\ data_block_no' = [data_block_no EXCEPT ![f][k] = bit]
           /\ k \in Slot /\ data_block_no[f][k] = None
    <3> DEFINE free == {i \in Slot : data_block_no[f][i] = None}
    <3>1. CASE free = {}
      BY <1>6, <2>1, <3>1 DEF Place
    <3>2. CASE free # {}
      <4>1. free \in SUBSET Nat
        BY DEF Slot
      <4>2. k \in free
        BY <2>1, <3>2, <4>1, MinOf
      <4> QED
        BY <1>6, <2>1, <3>2, <4>2 DEF Place
    <3> QED
      BY <3>1, <3>2
  <2>6. thread'[t].pc = "copy" /\ thread'[t].file = f
    <3>1. thread[t] \in ThreadState /\ thread \in [Thread -> ThreadState]
      BY Fields DEF IInv, TypeOK
    <3> QED
      BY <1>6, <2>1, <3>1 DEF Place, ThreadState
  <2>7. OnItsWay'
    BY <2>2, <2>3, <2>6 DEF OnItsWay, OneAtATime
  <2>8. CASE data_block_no' = data_block_no
    <3>1. OwnersInv' /\ LifeInv'
      BY <2>2, <2>8, OwnersStay DEF FirstLife
    <3> QED
      BY <2>7, <3>1 DEF BlockInv
  <2>9. CASE /\ data_block_no' = [data_block_no EXCEPT ![f][k] = bit]
             /\ k \in Slot /\ data_block_no[f][k] = None
    <3>1. /\ data_block_no'[f][k] = bit
          /\ \A g \in File, i \in Slot : ~(g = f /\ i = k) =>
                data_block_no'[g][i] = data_block_no[g][i]
      BY <2>3, <2>4, <2>9
    <3>2. Own(f)'[k] = bit
      BY <2>2, <2>3, <3>1 DEF Own
    <3>3. \A g \in File, i \in Slot : ~(g = f /\ i = k) => Own(g)'[i] = Own(g)[i]
      BY <2>2, <3>1 DEF Own
    <3>4. \A g \in File, i \in Slot : Own(g)'[i] # None => Own(g)'[i] \in map_data'
      BY <2>2, <2>3, <3>2, <3>3 DEF BlockInv, OwnersInv
    <3>5. ASSUME NEW g \in File, NEW h \in File, NEW i \in Slot, NEW j \in Slot,
                 Own(g)'[i] = Own(h)'[j], Own(g)'[i] # None
          PROVE  g = h /\ i = j
      <4>1. CASE g = f /\ i = k
        BY <2>3, <3>2, <3>3, <3>5, <4>1
      <4>2. CASE h = f /\ j = k
        BY <2>3, <3>2, <3>3, <3>5, <4>2
      <4>3. CASE ~(g = f /\ i = k) /\ ~(h = f /\ j = k)
        BY <3>3, <3>5, <4>3 DEF BlockInv, OwnersInv
      <4> QED
        BY <4>1, <4>2, <4>3
    <3>6. OwnersInv'
      BY <3>4, <3>5 DEF OwnersInv
    <3>7. LifeInv'
      BY <2>2, <2>3, <2>9, <3>1 DEF BlockInv, LifeInv, FirstLife
    <3> QED
      BY <2>7, <3>6, <3>7 DEF BlockInv
  <2> QED
    BY <2>5, <2>8, <2>9
<1>7. ASSUME NEW t \in Thread, Copy(t) PROVE BlockInv'
  <2>1. /\ life' \in {life, Crashed} /\ thread[t].pc = "copy"
        /\ UNCHANGED <<data_block_no, loaded, disk_inode, map_data>>
    BY <1>7 DEF Copy, At
  <2>2. FirstLife' => FirstLife
    BY <2>1 DEF FirstLife, Crashed
  <2>3. thread'[t].pc \in {"copy", "loop"} /\ thread'[t].file = thread[t].file
    BY <1>7, <2>1, CopyMoves DEF IInv, TypeOK
  <2>4. OwnersInv' /\ LifeInv'
    BY <2>1, <2>2, OwnersStay
  <2>5. OnItsWay'
    BY <2>1, <2>3 DEF BlockInv, OnItsWay, OneAtATime
  <2> QED
    BY <2>4, <2>5 DEF BlockInv
<1>8. ASSUME NEW t \in Thread, NEW f \in File, NEW size \in 0 .. FileMax, Truncate(t, f, size)
      PROVE  BlockInv'
  <2>1. UNCHANGED <<life, data_block_no, loaded, disk_inode, map_data, thread>>
    BY <1>8 DEF Truncate
  <2> QED
    BY <2>1, OwnersStay DEF BlockInv, OnItsWay, FirstLife
<1>9. CASE Unmount \/ FinishUnmount
  <2>1. UNCHANGED <<data_block_no, loaded, disk_inode, map_data, thread>>
    BY <1>9 DEF Unmount, FinishUnmount
  <2>2. FirstLife' => FirstLife
    BY <1>9 DEF Unmount, FinishUnmount, FirstLife
  <2> QED
    BY <2>1, <2>2, OwnersStay DEF BlockInv, OnItsWay
<1>10. CASE SyncFile
  <2> DEFINE f == Head(sync)
             r == [size |-> file_size[f], data_block_no |-> data_block_no[f]]
  <2>1. /\ UNCHANGED <<data_block_no, loaded, map_data, thread>>
        /\ life' = life \/ life' = Crashed
        /\ life \in {"syncing", "resyncing"}
        /\ disk_inode' = disk_inode
              \/ (f \in loaded /\ disk_inode' = [disk_inode EXCEPT ![f] = r])
        /\ sync # <<>>
    BY <1>10 DEF SyncFile
  <2>2. FirstLife' => FirstLife
    BY <2>1 DEF FirstLife, Crashed
  <2>3. CASE disk_inode' = disk_inode
    BY <2>1, <2>2, <2>3, OwnersStay DEF BlockInv, OnItsWay
  <2>4. CASE f \in loaded /\ disk_inode' = [disk_inode EXCEPT ![f] = r]
    <3>1. disk_inode \in [File -> [size : 0 .. FileMax, data_block_no : [Slot -> Bit \cup {None}]]]
          /\ f \in File
      BY <2>4 DEF IInv, TypeOK
    <3>2. r.data_block_no = data_block_no[f]
      OBVIOUS
    <3> HIDE DEF r
    <3>3. /\ disk_inode'[f] = r
          /\ \A g \in File : g # f => disk_inode'[g] = disk_inode[g]
      BY <2>4, <3>1
    <3>4. \A g \in File : Own(g)' = Own(g)
      BY <2>1, <2>4, <3>3 DEF Own
    <3>5. OwnersInv' /\ OnItsWay'
      BY <2>1, <3>4 DEF BlockInv, OwnersInv, OnItsWay
    <3>6. LifeInv'
      BY <2>1, <2>2, <3>2, <3>3 DEF BlockInv, LifeInv
    <3> QED
      BY <3>5, <3>6 DEF BlockInv
  <2> QED
    BY <2>1, <2>3, <2>4
<1>11. CASE Remount
  <2>1. /\ life = "unmounted" /\ life' = "later" /\ loaded' = {}
        /\ data_block_no' = [f \in File |-> [i \in Slot |-> None]]
        /\ thread' = [t \in Thread |-> Idle("none")]
        /\ map_data' = map_data /\ disk_inode' = disk_inode
    BY <1>11 DEF Remount
  <2>2. \A f \in File : Own(f)' = disk_inode[f].data_block_no
    BY <2>1 DEF Own
  <2>3. /\ loaded = File
        /\ \A f \in File, i \in Slot :
              disk_inode[f].data_block_no[i] \in {None, data_block_no[f][i]}
    BY <2>1 DEF BlockInv, LifeInv, FirstLife
  <2>4. \A f \in File, i \in Slot : Own(f)'[i] # None => Own(f)'[i] = Own(f)[i]
    BY <2>2, <2>3 DEF Own
  <2>5. OwnersInv'
    BY <2>1, <2>4 DEF BlockInv, OwnersInv
  <2>6. LifeInv'
    BY <2>1 DEF LifeInv, FirstLife
  <2>7. OnItsWay'
    BY <2>1 DEF OnItsWay, Idle
  <2> QED
    BY <2>5, <2>6, <2>7 DEF BlockInv
<1>12. ASSUME NEW f \in File, Load(f) PROVE BlockInv'
  <2>1. /\ life = "later" /\ life' = life /\ f \notin loaded /\ loaded' = loaded \cup {f}
        /\ data_block_no' = [data_block_no EXCEPT ![f] = disk_inode[f].data_block_no]
        /\ UNCHANGED <<map_data, thread, disk_inode>>
    BY <1>12 DEF Load
  <2>2. data_block_no \in [File -> [Slot -> Bit \cup {None}]]
    BY DEF IInv, TypeOK
  <2>3. \A g \in File : Own(g)' = Own(g)
    BY <2>1, <2>2 DEF Own
  <2>4. OwnersInv' /\ OnItsWay'
    BY <2>1, <2>3 DEF BlockInv, OwnersInv, OnItsWay
  <2>5. LifeInv'
    BY <2>1, <2>2 DEF BlockInv, LifeInv, FirstLife
  <2> QED
    BY <2>4, <2>5 DEF BlockInv
<1> QED
  BY <1>1, <1>2, <1>3, <1>4, <1>5, <1>6, <1>7, <1>8, <1>9, <1>10, <1>11, <1>12 DEF Next, Cell

\* With one thread in the handlers at a time every block has one owner.
LEMMA BlocksAlways ==
    ASSUME OneAtATime
    PROVE  Spec => [](BlockInv /\ BlocksNotShared)
<1>1. Init => BlockInv
  <2> SUFFICES ASSUME Init PROVE BlockInv
    OBVIOUS
  <2>1. \A f \in File, i \in Slot : Own(f)[i] = None
    BY DEF Init, Own
  <2>2. OwnersInv
    BY <2>1 DEF OwnersInv
  <2>3. LifeInv
    BY DEF Init, LifeInv, NewInode
  <2>4. OnItsWay
    BY DEF Init, OnItsWay, Idle
  <2> QED
    BY <2>2, <2>3, <2>4 DEF BlockInv
<1>2. IInv /\ BlockInv /\ [Next]_vars => BlockInv'
  BY BlockStep
<1>3. BlockInv => BlocksNotShared
  <2> SUFFICES ASSUME BlockInv, NEW f \in File, NEW g \in File, NEW i \in Slot, NEW j \in Slot,
                      data_block_no[f][i] = data_block_no[g][j], data_block_no[f][i] # None
               PROVE  f = g /\ i = j
    BY DEF BlocksNotShared
  <2>1. f \in loaded /\ g \in loaded
    BY DEF BlockInv, LifeInv
  <2>2. Own(f)[i] = data_block_no[f][i] /\ Own(g)[j] = data_block_no[g][j]
    BY <2>1 DEF Own
  <2> QED
    BY <2>2 DEF BlockInv, OwnersInv
<1> QED
  BY <1>1, <1>2, <1>3, AlwaysIInv, PTL DEF Spec

(***************************************************************************)
(* OneOwner: with one thread in the handlers at a time, no two slots of    *)
(* the files hold one data block, through writes, a full disk, crashes of  *)
(* the copy, an unmount and a mount (with two, NewfsFileRace refutes it).  *)
(***************************************************************************)
THEOREM OneOwner ==
    ASSUME OneAtATime
    PROVE  Spec => []BlocksNotShared
  BY BlocksAlways, PTL
-------------------------------------------------------------------------------
(***************************************************************************)
(* A cell somebody wrote is in the buffer of its block, and a reader has   *)
(* as many cells as its cursor has passed.                                 *)
(***************************************************************************)
ContentsInv ==
    \A f \in File, o \in 0 .. FileMax - 1 : written[f][o] \in Value =>
        /\ data[f][o \div LOGIC_SZ] # Null
        /\ data[f][o \div LOGIC_SZ][o % LOGIC_SZ] = written[f][o]

CursorInv ==
    \A t \in Thread : thread[t].op = "read" =>
        Len(thread[t].buf) = thread[t].cur - thread[t].off

ReadInv == life = "first" => ContentsInv /\ CursorInv /\ ReadsReturnWrites

SameReader(old, new) ==
    /\ old.op = "read" /\ new.file = old.file
    /\ new.off = old.off /\ new.cur = old.cur /\ new.buf = old.buf

\* The steps between two copies leave the reader where it is, or end it.
LEMMA ReaderMoves ==
    ASSUME TypeOK, NEW t \in Thread, thread'[t].op = "read",
           \/ Loop(t) \/ ScanMap(t) \/ MarkMap(t) \/ Place(t)
           \/ LoadSize(t) \/ StoreSize(t)
    PROVE  SameReader(thread[t], thread'[t])
<1>1. thread[t] \in ThreadState /\ thread \in [Thread -> ThreadState]
  BY Fields DEF TypeOK
<1>2. CASE Loop(t)
  <2>1. \/ thread'[t].op = "none"
        \/ \E p \in {"load", "scan", "copy"} : thread'[t] = [thread[t] EXCEPT !.pc = p]
    BY <1>1, <1>2 DEF Loop, Idle
  <2>2. PICK p \in {"load", "scan", "copy"} : thread'[t] = [thread[t] EXCEPT !.pc = p]
    BY <2>1
  <2> QED
    BY <1>1, <2>2 DEF ThreadState, SameReader
<1>3. CASE ScanMap(t)
  <2>1. CASE Bit \subseteq map_data
    <3>1. thread' = [thread EXCEPT ![t] = [thread[t] EXCEPT !.bit = None, !.pc = "copy"]]
      BY <1>3, <2>1 DEF ScanMap
    <3>2. thread'[t] = [thread[t] EXCEPT !.bit = None, !.pc = "copy"]
      BY <1>1, <3>1
    <3> QED
      BY <1>1, <3>2 DEF ThreadState, SameReader
  <2>2. CASE ~(Bit \subseteq map_data)
    <3>1. PICK b \in Bit : thread' = [thread EXCEPT ![t].bit = b, ![t].pc = "mark"]
      BY <1>3, <2>2 DEF ScanMap
    <3> QED
      BY <1>1, <3>1 DEF ThreadState, SameReader
  <2> QED
    BY <2>1, <2>2
<1>4. CASE MarkMap(t)
  BY <1>1, <1>4 DEF MarkMap, ThreadState, SameReader
<1>5. CASE Place(t)
  BY <1>1, <1>5 DEF Place, ThreadState, SameReader
<1>6. CASE LoadSize(t)
  BY <1>1, <1>6 DEF LoadSize, ThreadState, SameReader
<1>7. CASE StoreSize(t)
  BY <1>1, <1>7 DEF StoreSize, Idle
<1> QED
  BY <1>2, <1>3, <1>4, <1>5, <1>6, <1>7

\* What a read has gathered stays with it, or is handed over.
LEMMA ReaderStays ==
    ASSUME OneAtATime, ReadInv, NEW t \in Thread, life' = "first" => life = "first",
           written' = written, life' = "first" => ContentsInv',
           thread'[t].op = "read" =>
              /\ thread[t].op = "read" /\ thread'[t].file = thread[t].file
              /\ thread'[t].off = thread[t].off /\ thread'[t].cur = thread[t].cur
              /\ thread'[t].buf = thread[t].buf
    PROVE  ReadInv'
<1> SUFFICES ASSUME life' = "first" PROVE ContentsInv' /\ CursorInv' /\ ReadsReturnWrites'
  BY DEF ReadInv
<1>1. CursorInv /\ ReadsReturnWrites /\ life = "first"
  BY DEF ReadInv
<1>2. CursorInv'
  BY <1>1 DEF CursorInv, OneAtATime
<1>3. ReadsReturnWrites'
  BY <1>1 DEF ReadsReturnWrites, OneAtATime
<1> QED
  BY <1>2, <1>3

\* The elements of two sequences put together.
LEMMA Concatenation ==
    ASSUME NEW S, NEW s \in Seq(S), NEW u \in Seq(S)
    PROVE  /\ Len(s) \in Nat /\ Len(u) \in Nat /\ Len(s \o u) = Len(s) + Len(u)
           /\ \A k \in 1 .. Len(s) : (s \o u)[k] = s[k]
           /\ \A k \in Len(s) + 1 .. Len(s) + Len(u) : (s \o u)[k] = u[k - Len(s)]
OBVIOUS

\* Where a cell of block i lies.
LEMMA CellOfBlock ==
    ASSUME TypeOK, NEW t \in Thread, NEW o \in Nat, NEW n \in Nat,
           n <= LOGIC_SZ - BlockOffset(t)
    PROVE  o \in thread[t].cur .. thread[t].cur + n - 1
              <=> /\ o \div LOGIC_SZ = BlockIdx(t)
                  /\ o % LOGIC_SZ \in BlockOffset(t) .. BlockOffset(t) + n - 1
<1> DEFINE L == LOGIC_SZ
           c == thread[t].cur
           i == BlockIdx(t)
           b == BlockOffset(t)
           i2 == o \div L
           b2 == o % L
<1>1. c \in Nat /\ L \in Nat \ {0}
  BY Fields
<1>2. i \in Nat /\ b \in 0 .. L - 1 /\ c = L * i + b
  BY <1>1, InBlock DEF BlockIdx, BlockOffset
<1>3. i2 \in Nat /\ b2 \in 0 .. L - 1 /\ o = L * i2 + b2
  BY <1>1, InBlock
<1>4. c <= o /\ o < c + (L - b) => i2 = i /\ b2 = b + (o - c)
  BY <1>1, SameBlock DEF BlockIdx, BlockOffset
<1> HIDE DEF L, c, i, b, i2, b2
<1>5. ASSUME o \in c .. c + n - 1 PROVE i2 = i /\ b2 \in b .. b + n - 1
  <2>1. c <= o /\ o < c + (L - b)
    BY <1>1, <1>2, <1>5 DEF L, b
  <2> QED
    BY <1>1, <1>2, <1>4, <1>5, <2>1
<1>6. ASSUME i2 = i, b2 \in b .. b + n - 1 PROVE o \in c .. c + n - 1
  BY <1>1, <1>2, <1>3, <1>6
<1> QED
  BY <1>5, <1>6 DEF L, c, i, b, i2, b2

\* A new block goes to a slot without memory, so no written cell is lost.
LEMMA PlaceKeepsContents ==
    ASSUME IInv, ReadInv, NEW t \in Thread, Place(t), life = "first"
    PROVE  ContentsInv'
<1> SUFFICES ASSUME NEW g \in File, NEW o \in 0 .. FileMax - 1, written'[g][o] \in Value
             PROVE  /\ data'[g][o \div LOGIC_SZ] # Null
                    /\ data'[g][o \div LOGIC_SZ][o % LOGIC_SZ] = written'[g][o]
  BY DEF ContentsInv
<1>1. PICK f, k, free : /\ f = thread[t].file /\ k = Min(free)
                        /\ free = {i \in Slot : data_block_no[f][i] = None}
  OBVIOUS
<1>2. written' = written /\ life' = life
  BY DEF Place, media, history
<1>3. \/ data' = data
      \/ free # {} /\ data' = [data EXCEPT ![f][k] = Malloced]
  BY <1>1 DEF Place
<1>4. /\ data[g][o \div LOGIC_SZ] # Null
      /\ data[g][o \div LOGIC_SZ][o % LOGIC_SZ] = written[g][o]
  BY <1>2 DEF ReadInv, ContentsInv
<1>5. CASE data' = data
  BY <1>2, <1>4, <1>5
<1>6. CASE free # {} /\ data' = [data EXCEPT ![f][k] = Malloced]
  <2>1. f \in File /\ data \in [File -> [Slot -> Buffer \cup {Null}]]
    BY <1>1, Fields DEF IInv, TypeOK
  <2>2. k \in Slot /\ data_block_no[f][k] = None
    <3>1. free \in SUBSET Nat
      BY <1>1 DEF Slot
    <3>2. k \in free
      BY <1>1, <1>6, <3>1, MinOf
    <3> QED
      BY <1>1, <3>2
  <2>3. data[f][k] = Null
    BY <2>1, <2>2 DEF IInv, SlotsInStep, FirstLife
  <2>4. ~(g = f /\ o \div LOGIC_SZ = k)
    BY <1>4, <2>3
  <2>5. data'[g][o \div LOGIC_SZ] = data[g][o \div LOGIC_SZ]
    BY <1>6, <2>1, <2>4
  <2> QED
    BY <1>2, <1>4, <2>5
<1> QED
  BY <1>3, <1>5, <1>6

\* A copy puts a written cell where it is looked for, and reads it there.
LEMMA CopyKeepsReads ==
    ASSUME OneAtATime, IInv, ReadInv, NEW t \in Thread, Copy(t), life' = "first"
    PROVE  ContentsInv' /\ CursorInv' /\ ReadsReturnWrites'
<1>1. PICK th, f, i, b, n :
         th = thread[t] /\ f = th.file /\ i = BlockIdx(t) /\ b = BlockOffset(t) /\ n = CopyLen(t)
  OBVIOUS
<1>2. /\ life = "first" /\ data[f][i] # Null /\ th.pc = "copy"
      /\ th.op = "write" \/ (data' = data /\ written' = written)
  BY <1>1 DEF Copy, Crashed, At, Mounted
<1>3. ContentsInv /\ CursorInv /\ ReadsReturnWrites
  BY <1>2 DEF ReadInv
<1>4. /\ th \in ThreadState /\ f \in File /\ th.cur \in Nat /\ th.buf \in Seq(Cell)
      /\ th.off \in 0 .. FileMax /\ i < DATA_PER_FILE
  BY <1>1, <1>2, Fields DEF IInv, AtBlock, ThreadState
<1>5. /\ i \in Slot /\ b \in Off /\ n \in Nat /\ n <= LOGIC_SZ - b
      /\ th.cur + n \in 0 .. FileMax
  BY <1>1, <1>4, CopyBounds DEF IInv
<1>6. \A o \in Nat : o \in th.cur .. th.cur + n - 1
                        <=> o \div LOGIC_SZ = i /\ o % LOGIC_SZ \in b .. b + n - 1
  BY <1>1, <1>5, CellOfBlock DEF IInv
<1>7. data \in [File -> [Slot -> Buffer \cup {Null}]] /\ data[f][i] \in [Off -> Cell]
  BY <1>2, <1>4, <1>5 DEF IInv, TypeOK, Buffer
<1>8. written \in [File -> [0 .. FileMax - 1 -> Cell]]
  BY DEF IInv, TypeOK
<1>9. CASE th.op = "write"
  <2>1. PICK block, cells :
           /\ block = [k \in Off |-> IF k \in b .. b + n - 1 THEN th.val ELSE data[f][i][k]]
           /\ cells = [o \in DOMAIN written[f] |-> IF o \in th.cur .. th.cur + n - 1
                                                   THEN th.val ELSE written[f][o]]
    OBVIOUS
  <2>2. data' = [data EXCEPT ![f][i] = block] /\ written' = [written EXCEPT ![f] = cells]
    BY <1>1, <1>2, <1>9, <2>1 DEF Copy
  <2>3. ASSUME NEW g \in File, NEW o \in 0 .. FileMax - 1, written'[g][o] \in Value
        PROVE  /\ data'[g][o \div LOGIC_SZ] # Null
               /\ data'[g][o \div LOGIC_SZ][o % LOGIC_SZ] = written'[g][o]
    <3>1. o \in Nat /\ o % LOGIC_SZ \in Off /\ o \div LOGIC_SZ \in Nat
      <4>1. o \in Nat
        BY Constants
      <4> QED
        BY <4>1, InBlock, SizeAssumption DEF Off
    <3>2. PICK j, k : j = o \div LOGIC_SZ /\ k = o % LOGIC_SZ
      OBVIOUS
    <3>3. written[f] \in [0 .. FileMax - 1 -> Cell]
      BY <1>4, <1>8
    <3>4. CASE g # f
      BY <1>3, <1>4, <1>7, <1>8, <2>2, <2>3, <3>4 DEF ContentsInv
    <3>5. CASE g = f /\ o \in th.cur .. th.cur + n - 1
      <4>1. j = i /\ k \in b .. b + n - 1
        BY <1>6, <3>1, <3>2, <3>5
      <4>2. written'[g][o] = th.val
        BY <1>4, <1>8, <2>1, <2>2, <3>3, <3>5
      <4>3. data'[g][j] = block
        BY <1>4, <1>5, <1>7, <2>2, <3>5, <4>1
      <4>4. block[k] = th.val
        BY <2>1, <3>1, <3>2, <4>1
      <4>5. block # Null
        <5>1. block \in Buffer
          BY <1>1, <1>7, <2>1, Fields DEF Buffer, IInv
        <5> QED
          BY <5>1, Constants
      <4> QED
        BY <3>2, <4>2, <4>3, <4>4, <4>5
    <3>6. CASE g = f /\ o \notin th.cur .. th.cur + n - 1
      <4>1. ~(j = i /\ k \in b .. b + n - 1)
        BY <1>6, <3>1, <3>2, <3>6
      <4>2. written'[g][o] = written[g][o]
        BY <1>4, <1>8, <2>1, <2>2, <3>3, <3>6
      <4>3. data[g][j] # Null /\ data[g][j][k] = written[g][o]
        BY <1>3, <2>3, <3>2, <4>2 DEF ContentsInv
      <4>4. CASE j # i
        <5>1. data'[g][j] = data[g][j]
          BY <1>4, <1>5, <1>7, <2>2, <4>4
        <5> QED
          BY <3>2, <4>2, <4>3, <5>1
      <4>5. CASE j = i
        <5>1. data'[g][j] = block
          BY <1>4, <1>5, <1>7, <2>2, <3>6, <4>5
        <5>2. block[k] = data[f][i][k]
          BY <2>1, <3>1, <3>2, <4>1, <4>5
        <5>3. block # Null
          <6>1. block \in Buffer
            BY <1>1, <1>7, <2>1, Fields DEF Buffer, IInv
          <6> QED
            BY <6>1, Constants
        <5> QED
          BY <3>2, <3>6, <4>2, <4>3, <4>5, <5>1, <5>2, <5>3
      <4> QED
        BY <4>4, <4>5
    <3> QED
      BY <3>4, <3>5, <3>6
  <2>4. ContentsInv'
    BY <2>3 DEF ContentsInv
  <2>5. thread'[t].op = "write"
    BY <1>1, <1>9, CopyMoves DEF IInv, TypeOK
  <2> QED
    BY <2>4, <2>5 DEF CursorInv, ReadsReturnWrites, OneAtATime
<1>10. CASE th.op # "write"
  <2>1. data' = data /\ written' = written
    BY <1>2, <1>10
  <2>2. ContentsInv'
    BY <1>3, <2>1 DEF ContentsInv
  <2>3. PICK more : more = [k \in 1 .. n |-> data[f][i][b + k - 1]]
    OBVIOUS
  <2>4. /\ thread' = [thread EXCEPT ![t] =
              [th EXCEPT !.pc = "loop", !.rem = th.rem - n, !.cur = th.cur + n,
                         !.buf = th.buf \o more]]
    BY <1>1, <1>2, <1>10, <2>3 DEF Copy
  <2>5. /\ thread'[t].buf = th.buf \o more /\ thread'[t].cur = th.cur + n
        /\ thread'[t].off = th.off /\ thread'[t].file = f /\ thread'[t].op = th.op
    BY <1>1, <1>4, <2>4 DEF IInv, TypeOK, ThreadState
  <2>6. more \in Seq(Cell) /\ Len(more) = n /\ \A k \in 1 .. n : more[k] = data[f][i][b + k - 1]
    <3>1. \A k \in 1 .. n : b + k - 1 \in Off
      BY <1>5, SizeAssumption DEF Off
    <3>2. \A k \in 1 .. n : data[f][i][b + k - 1] \in Cell
      BY <1>7, <3>1
    <3> QED
      BY <1>5, <2>3, <3>2
  <2>7. CASE th.op # "read"
    BY <2>2, <2>5, <2>7 DEF CursorInv, ReadsReturnWrites, OneAtATime
  <2>8. CASE th.op = "read"
    <3>1. PICK old, all, off, c : old = th.buf /\ all = old \o more /\ off = th.off /\ c = th.cur
      OBVIOUS
    <3>2. /\ off \in Nat /\ c \in Nat /\ old \in Seq(Cell)
          /\ Len(old) \in Nat /\ Len(old) = c - off
      <4>1. off \in Nat /\ c \in Nat /\ old \in Seq(Cell)
        BY <1>4, <3>1, Constants
      <4>2. Len(old) = c - off
        BY <1>1, <1>3, <2>8, <3>1 DEF CursorInv
      <4> QED
        BY <4>1, <4>2
    <3>3. /\ Len(all) = Len(old) + n
          /\ \A k \in 1 .. Len(old) : all[k] = old[k]
          /\ \A k \in Len(old) + 1 .. Len(old) + n : all[k] = more[k - Len(old)]
      <4>1. /\ Len(old \o more) = Len(old) + Len(more)
            /\ \A k \in 1 .. Len(old) : (old \o more)[k] = old[k]
            /\ \A k \in Len(old) + 1 .. Len(old) + Len(more) :
                  (old \o more)[k] = more[k - Len(old)]
        <5>1. old \in Seq(Cell) /\ more \in Seq(Cell)
          BY <2>6, <3>2
        <5> QED
          BY <5>1, Concatenation
      <4>2. Len(more) = n
        BY <2>6
      <4> QED
        BY <3>1, <4>1, <4>2, Zenon
    <3>4. /\ thread'[t].buf = all /\ thread'[t].cur = c + n
          /\ thread'[t].off = off /\ thread'[t].file = f
      BY <2>5, <3>1
    <3>5. CursorInv'
      <4>1. Len(thread'[t].buf) = thread'[t].cur - thread'[t].off
        BY <1>5, <3>2, <3>3, <3>4
      <4> QED
        BY <4>1 DEF CursorInv, OneAtATime
    <3>6. ASSUME NEW k \in 1 .. Len(all), NEW o, o = off + k - 1, written[f][o] \in Value
          PROVE  all[k] = written[f][o]
      <4>1. CASE k \in 1 .. Len(old)
        BY <1>1, <1>2, <1>3, <2>8, <3>1, <3>3, <3>6, <4>1 DEF ReadsReturnWrites
      <4>2. CASE k \notin 1 .. Len(old)
        <5>1. PICK m : m = k - Len(old)
          OBVIOUS
        <5>2. /\ m \in 1 .. n /\ all[k] = more[m] /\ o = c + m - 1 /\ o \in Nat
              /\ o \in c .. c + n - 1
          <6>1. PICK l : l = Len(old) /\ l \in Nat /\ l = c - off /\ k \in l + 1 .. l + n
            BY <1>5, <3>2, <3>3, <3>6, <4>2
          <6>2. m \in 1 .. n /\ o = c + m - 1 /\ o \in Nat /\ o \in c .. c + n - 1
            BY <1>5, <3>2, <3>6, <5>1, <6>1
          <6> QED
            BY <3>3, <5>1, <6>1, <6>2
        <5>3. o % LOGIC_SZ = b + m - 1
          <6>1. c % LOGIC_SZ = b
            BY <1>1, <3>1 DEF BlockOffset
          <6>2. b \in Int /\ n \in Nat /\ b + n <= LOGIC_SZ /\ LOGIC_SZ \in Nat \ {0}
            BY <1>5, SizeAssumption DEF Off
          <6>3. c \in Nat /\ o \in Nat /\ m \in Nat \ {0} /\ m <= n /\ o = c + m - 1
            BY <3>2, <5>2, <6>2
          <6>4. c <= o /\ o < c + (LOGIC_SZ - b)
            BY <6>2, <6>3
          <6>5. o % LOGIC_SZ = b + (o - c)
            <7>1. c <= o /\ o < c + (LOGIC_SZ - (c % LOGIC_SZ))
              BY <6>1, <6>4, Zenon
            <7>2. LOGIC_SZ \in Nat \ {0} /\ c \in Nat /\ o \in Nat
              BY <6>2, <6>3, Zenon
            <7>3. o % LOGIC_SZ = (c % LOGIC_SZ) + (o - c)
              BY <7>1, <7>2, SameBlock, Zenon
            <7> QED
              BY <6>1, <7>3, Zenon
          <6>6. b + (o - c) = b + m - 1
            BY <6>2, <6>3
          <6> QED
            BY <6>5, <6>6, Zenon
        <5>4. o \div LOGIC_SZ = i
          BY <1>6, <3>1, <5>2
        <5>5. o \in 0 .. FileMax - 1
          <6>1. c + n <= FileMax /\ FileMax \in Nat /\ n \in Nat
            BY <1>5, <3>1, Constants
          <6>2. c \in Nat /\ o \in Nat /\ o \in c .. c + n - 1
            BY <3>2, <5>2, Zenon
          <6> QED
            BY <6>1, <6>2
        <5>6. data[f][i][b + m - 1] = written[f][o]
          <6>1. data[f][o \div LOGIC_SZ][o % LOGIC_SZ] = written[f][o]
            BY <1>3, <1>4, <3>6, <5>5, Zenon DEF ContentsInv
          <6> QED
            BY <5>3, <5>4, <6>1, Zenon
        <5> QED
          BY <2>6, <5>2, <5>6
      <4> QED
        BY <4>1, <4>2
    <3>7. \A k \in 1 .. Len(all) : written[f][off + k - 1] \in Value
                                   => all[k] = written[f][off + k - 1]
      BY <3>6
    <3>8. ReadsReturnWrites'
      BY <2>1, <3>4, <3>7 DEF ReadsReturnWrites, OneAtATime
    <3> QED
      BY <2>2, <3>5, <3>8
  <2> QED
    BY <2>7, <2>8
<1> QED
  BY <1>9, <1>10

\* Every step keeps ReadInv.
LEMMA ReadStep == ASSUME OneAtATime, IInv, ReadInv, [Next]_vars PROVE ReadInv'
<1> USE DEF inodes, media, history
<1>1. CASE UNCHANGED vars
  BY <1>1 DEF vars, ReadInv, ContentsInv, CursorInv, ReadsReturnWrites
<1>2. CASE life' # "first"
  BY <1>2 DEF ReadInv
<1>3. ASSUME NEW t \in Thread, NEW f \in File, NEW off \in 0 .. FileMax, NEW len \in 1 .. MaxLen,
             NEW v \in Cell, NEW op \in {"write", "read"}, Start(t, op, f, v, off, len)
      PROVE  ReadInv'
  <2> SUFFICES ASSUME life' = "first" PROVE ContentsInv' /\ CursorInv' /\ ReadsReturnWrites'
    BY DEF ReadInv
  <2> DEFINE r == IF file_size[f] < off THEN Idle("ESPIPE")
                  ELSE [Idle("none") EXCEPT !.pc = "loop", !.op = op, !.file = f, !.val = v,
                                            !.off = off, !.cur = off, !.rem = len]
  <2>1. /\ thread' = [thread EXCEPT ![t] = r] /\ life' = life
        /\ data' = data /\ written' = written
    BY <1>3 DEF Start
  <2>2. r.buf = <<>> /\ (r.op = "read" => r.cur = off /\ r.off = off)
    BY DEF Idle
  <2>3. off - off = 0
    OBVIOUS
  <2> HIDE DEF r
  <2>4. \A u \in Thread : thread'[u] = r
    BY <2>1, OneMoves DEF IInv
  <2>5. ContentsInv'
    BY <2>1 DEF ReadInv, ContentsInv
  <2>6. Len(r.buf) = 0
    BY <2>2
  <2>7. CursorInv'
    BY <2>2, <2>3, <2>4, <2>6 DEF CursorInv
  <2>8. ReadsReturnWrites'
    BY <2>4, <2>6 DEF ReadsReturnWrites
  <2> QED
    BY <2>5, <2>7, <2>8
<1>4. ASSUME NEW t \in Thread,
             Loop(t) \/ ScanMap(t) \/ MarkMap(t) \/ LoadSize(t) \/ StoreSize(t)
      PROVE  ReadInv'
  <2>1. life' = life /\ data' = data /\ written' = written
    BY <1>4 DEF Loop, ScanMap, MarkMap, LoadSize, StoreSize
  <2>2. thread'[t].op = "read" => SameReader(thread[t], thread'[t])
    BY <1>4, ReaderMoves DEF IInv
  <2>3. life' = "first" => ContentsInv'
    BY <2>1 DEF ReadInv, ContentsInv
  <2> QED
    BY <2>1, <2>2, <2>3, ReaderStays DEF SameReader
<1>5. ASSUME NEW t \in Thread, Place(t) PROVE ReadInv'
  <2>1. life' = life /\ written' = written
    BY <1>5 DEF Place
  <2>2. life' = "first" => ContentsInv'
    BY <1>5, <2>1, PlaceKeepsContents
  <2>3. thread'[t].op = "read" => SameReader(thread[t], thread'[t])
    BY <1>5, ReaderMoves DEF IInv
  <2> QED
    BY <2>1, <2>2, <2>3, ReaderStays DEF SameReader
<1>6. ASSUME NEW t \in Thread, Copy(t) PROVE ReadInv'
  BY <1>6, CopyKeepsReads DEF ReadInv
<1>7. ASSUME NEW t \in Thread, NEW f \in File, NEW size \in 0 .. FileMax, Truncate(t, f, size)
      PROVE  ReadInv'
  BY <1>7 DEF Truncate, ReadInv, ContentsInv, CursorInv, ReadsReturnWrites
<1>8. Unmount \/ SyncFile \/ FinishUnmount \/ Remount => life' # "first"
  BY DEF Unmount, SyncFile, FinishUnmount, Remount, Crashed
<1>9. ASSUME NEW f \in File, Load(f) PROVE life' # "first"
  BY <1>9 DEF Load
<1> QED
  BY <1>1, <1>2, <1>3, <1>4, <1>5, <1>6, <1>7, <1>8, <1>9 DEF Next, Cell

(***************************************************************************)
(* ReadsExact: with one thread in the handlers at a time, and whatever the *)
(* sizes of blocks, files and requests, the index arithmetic of newfs_read *)
(* finds every cell where newfs_write has put it, in the first mount.      *)
(***************************************************************************)
THEOREM ReadsExact ==
    ASSUME OneAtATime
    PROVE  Spec => []ReadsReturnWrites
<1>1. Init => ReadInv
  BY Constants, FileAssumption
     DEF Init, ReadInv, ContentsInv, CursorInv, ReadsReturnWrites, Idle
<1>2. IInv /\ ReadInv /\ [Next]_vars => ReadInv'
  BY ReadStep
<1>3. ReadInv => ReadsReturnWrites
  BY DEF ReadInv, ReadsReturnWrites
<1> QED
  BY <1>1, <1>2, <1>3, AlwaysIInv, PTL DEF Spec
-------------------------------------------------------------------------------
(***************************************************************************)
(* When the memcpy of a handler may end the process, and what              *)
(* newfs_destroy leaves on the disk.                                       *)
(***************************************************************************)

\* Every block that ends at or before cell c of file f is there.
BlockEnd(i) == LOGIC_SZ * (i + 1)
Reach(f, c) == \A i \in Slot : BlockEnd(i) <= c => data_block_no[f][i] # None

(***************************************************************************)
(* While no truncate has made a file longer and the limit has not been     *)
(* hit, sizes and cursors never pass the first free slot by more than a    *)
(* block, so the slot allocate_data fills is the one its caller needs.     *)
(***************************************************************************)
Unharmed == life \in {"first", "syncing"} /\ ~grown /\ MaxData \notin map_data

FilesReach == \A f \in File : Reach(f, file_size[f])

ThreadReaches(t) ==
    /\ thread[t].pc \notin {"idle", "store"} => Reach(thread[t].file, thread[t].cur)
    /\ thread[t].pc = "store" => Reach(thread[t].file, thread[t].size)
    /\ thread[t].pc = "copy" => data[thread[t].file][BlockIdx(t)] # Null

NoHole == Unharmed => FilesReach /\ \A t \in Thread : ThreadReaches(t)

\* No slot is emptied.
Kept ==
    /\ \A f \in File, i \in Slot : data_block_no[f][i] # None => data_block_no'[f][i] # None
    /\ \A f \in File, i \in Slot : data[f][i] # Null => data'[f][i] # Null

\* What is reached stays reached, and so does all before it.
LEMMA ReachStays ==
    ASSUME NEW f \in File, NEW c, Kept, Reach(f, c)
    PROVE  Reach(f, c)'
BY DEF Kept, Reach

LEMMA ReachLess ==
    ASSUME NEW f \in File, NEW c \in Int, NEW d \in Int, d <= c, Reach(f, c)
    PROVE  Reach(f, d)
<1>1. ASSUME NEW i \in Slot, BlockEnd(i) <= d PROVE data_block_no[f][i] # None
  <2>1. BlockEnd(i) \in Int
    BY DEF Slot, BlockEnd
  <2>2. BlockEnd(i) <= c
    BY <1>1, <2>1
  <2> QED
    BY <2>2 DEF Reach
<1> QED
  BY <1>1 DEF Reach

\* Behind cell 0 no block is wanted.
LEMMA ReachNone == ASSUME NEW f \in File PROVE Reach(f, 0)
<1>1. ASSUME NEW i \in Slot PROVE ~(BlockEnd(i) <= 0)
  <2> DEFINE L == LOGIC_SZ
  <2>1. L \in Nat \ {0} /\ i \in Nat
    BY DEF Slot
  <2> HIDE DEF L
  <2>2. L * (i + 1) = L * i + L /\ L * i >= 0
    BY <2>1
  <2>3. L * (i + 1) > 0
    BY <2>1, <2>2
  <2> QED
    BY <2>1, <2>3 DEF L, BlockEnd
<1> QED
  BY <1>1 DEF Reach

\* A copy in block i reaches no farther than the end of that block.
LEMMA ReachBlock ==
    ASSUME NEW f \in File, NEW i \in Slot, NEW c \in Int, c <= BlockEnd(i),
           \A j \in 0 .. i : data_block_no[f][j] # None
    PROVE  Reach(f, c)
<1>1. ASSUME NEW j \in Slot, BlockEnd(j) <= c PROVE data_block_no[f][j] # None
  <2> DEFINE L == LOGIC_SZ
  <2>1. L \in Nat \ {0} /\ i \in Nat /\ j \in Nat /\ L * (j + 1) <= c /\ c <= L * (i + 1)
    BY <1>1 DEF Slot, BlockEnd
  <2> HIDE DEF L
  <2>2. CASE i + 1 <= j
    <3>1. L * (i + 1) <= L * j
      BY <2>1, <2>2, Grows
    <3>2. L * (j + 1) = L * j + L
      BY <2>1
    <3>3. L * (j + 1) \in Int /\ L * (i + 1) \in Int /\ L * j \in Int
      BY <2>1
    <3> QED
      BY <2>1, <3>1, <3>2, <3>3
  <2>3. CASE j <= i
    <3>1. j \in 0 .. i
      BY <2>1, <2>3
    <3> QED
      BY <3>1
  <2> QED
    BY <2>1, <2>2, <2>3
<1> QED
  BY <1>1 DEF Reach

\* A thread that did not move.
LEMMA ThreadStays ==
    ASSUME IInv, NEW t \in Thread, Kept, thread'[t] = thread[t], ThreadReaches(t)
    PROVE  ThreadReaches(t)'
<1> DEFINE th == thread[t]
<1>1. th.file \in File /\ BlockIdx(t)' = BlockIdx(t)
  BY Fields DEF IInv, BlockIdx
<1>2. th.pc = "copy" => data'[th.file][BlockIdx(t)] # Null
  <2> SUFFICES ASSUME th.pc = "copy" PROVE data'[th.file][BlockIdx(t)] # Null
    OBVIOUS
  <2>1. BlockIdx(t) \in Slot
    BY CopyBounds DEF IInv, AtBlock
  <2> QED
    BY <1>1, <2>1 DEF ThreadReaches, Kept
<1>3. \A c : Reach(th.file, c) => Reach(th.file, c)'
  BY <1>1, ReachStays
<1> QED
  BY <1>1, <1>2, <1>3 DEF ThreadReaches

\* A thread that moved and kept its cursor.
LEMMA CursorStays ==
    ASSUME IInv, NEW t \in Thread, Kept, ThreadReaches(t), thread[t].pc \notin {"idle", "store"},
           thread'[t].pc \notin {"idle", "store"},
           thread'[t].file = thread[t].file, thread'[t].cur = thread[t].cur,
           thread'[t].pc = "copy" => data'[thread[t].file][BlockIdx(t)] # Null
    PROVE  ThreadReaches(t)'
<1>1. PICK f, c : f = thread[t].file /\ c = thread[t].cur
  OBVIOUS
<1>2. f \in File /\ Reach(f, c)
  BY <1>1, Fields DEF IInv, ThreadReaches
<1>3. Reach(f, c)'
  BY <1>2, ReachStays
<1>4. BlockIdx(t)' = BlockIdx(t)
  BY DEF BlockIdx
<1> QED
  BY <1>1, <1>3, <1>4 DEF ThreadReaches

\* When one thread moves and the files keep their sizes, it alone has to be looked at.
LEMMA OneReaches ==
    ASSUME IInv, NoHole, NEW t \in Thread, Unharmed' => Unharmed, Kept, file_size' = file_size,
           NEW r, thread' = [thread EXCEPT ![t] = r],
           ASSUME Unharmed, Unharmed', FilesReach, ThreadReaches(t) PROVE ThreadReaches(t)'
    PROVE  NoHole'
<1> SUFFICES ASSUME Unharmed' PROVE FilesReach' /\ \A u \in Thread : ThreadReaches(u)'
  BY DEF NoHole
<1>1. Unharmed /\ FilesReach /\ \A u \in Thread : ThreadReaches(u)
  BY DEF NoHole
<1>2. FilesReach'
  BY <1>1, ReachStays DEF FilesReach
<1>3. \A u \in Thread : u # t => thread'[u] = thread[u]
  BY DEF IInv, TypeOK
<1>4. \A u \in Thread : ThreadReaches(u)'
  BY <1>1, <1>3, ThreadStays
<1> QED
  BY <1>2, <1>4
-------------------------------------------------------------------------------
\* Every action keeps NoHole.
LEMMA StartReaches ==
    ASSUME IInv, NoHole, NEW t \in Thread, NEW op \in {"write", "read"}, NEW f \in File,
           NEW v \in Cell, NEW off \in 0 .. FileMax, NEW len \in 1 .. MaxLen,
           Start(t, op, f, v, off, len)
    PROVE  NoHole'
<1> DEFINE r == IF file_size[f] < off THEN Idle("ESPIPE")
                ELSE [Idle("none") EXCEPT !.pc = "loop", !.op = op, !.file = f, !.val = v,
                                          !.off = off, !.cur = off, !.rem = len]
<1>1. /\ thread' = [thread EXCEPT ![t] = r] /\ life' = life /\ file_size' = file_size
      /\ data_block_no' = data_block_no /\ data' = data /\ map_data' = map_data
      /\ grown' = grown
  BY DEF Start, inodes, media, history
<1>2. Kept /\ (Unharmed' => Unharmed)
  BY <1>1 DEF Kept, Unharmed
<1>3. r.pc \in {"idle", "loop"} /\ (r.pc = "loop" => r.file = f /\ r.cur = off /\ ~(file_size[f] < off))
  BY DEF Idle
<1> HIDE DEF r
<1>4. ASSUME FilesReach PROVE ThreadReaches(t)'
  <2>1. thread'[t] = r
    BY <1>1 DEF IInv, TypeOK
  <2>2. CASE r.pc = "idle"
    BY <2>1, <2>2 DEF ThreadReaches
  <2>3. CASE r.pc = "loop"
    <3>1. file_size[f] \in Int /\ off \in Int /\ off <= file_size[f]
      BY <1>3, <2>3, Constants DEF IInv, TypeOK
    <3>2. Reach(f, off)
      BY <1>4, <3>1, ReachLess DEF FilesReach
    <3>3. Reach(f, off)'
      BY <1>2, <3>2, ReachStays
    <3> QED
      BY <1>3, <2>1, <2>3, <3>3 DEF ThreadReaches
  <2> QED
    BY <1>3, <2>2, <2>3
<1> QED
  BY <1>1, <1>2, <1>4, OneReaches

LEMMA LoopReaches == ASSUME IInv, NoHole, NEW t \in Thread, Loop(t) PROVE NoHole'
<1> DEFINE th == thread[t]
           r == IF th.rem = 0 THEN [th EXCEPT !.pc = "load"]
                ELSE IF BlockIdx(t) >= DATA_PER_FILE THEN Idle("ENOSPC")
                ELSE IF data[th.file][BlockIdx(t)] = Null THEN [th EXCEPT !.pc = "scan"]
                ELSE [th EXCEPT !.pc = "copy"]
<1>1. /\ thread' = [thread EXCEPT ![t] = r] /\ life' = life /\ file_size' = file_size
      /\ data_block_no' = data_block_no /\ data' = data /\ map_data' = map_data
      /\ grown' = grown /\ th.pc = "loop"
  BY DEF Loop, At, inodes, media, history
<1>2. Kept /\ (Unharmed' => Unharmed)
  BY <1>1 DEF Kept, Unharmed
<1>3. /\ r.pc \in {"load", "idle", "scan", "copy"}
      /\ r.pc # "idle" => r.file = th.file /\ r.cur = th.cur
      /\ r.pc = "copy" => data[th.file][BlockIdx(t)] # Null
  <2>1. th \in ThreadState
    BY Fields DEF IInv
  <2> QED
    BY <2>1 DEF ThreadState, Idle
<1> HIDE DEF r
<1>4. ASSUME ThreadReaches(t) PROVE ThreadReaches(t)'
  <2>1. thread'[t] = r
    BY <1>1 DEF IInv, TypeOK
  <2>2. CASE r.pc = "idle"
    BY <2>1, <2>2 DEF ThreadReaches
  <2>3. CASE r.pc # "idle"
    BY <1>1, <1>2, <1>3, <1>4, <2>1, <2>3, CursorStays
  <2> QED
    BY <2>2, <2>3
<1> QED
  BY <1>1, <1>2, <1>4, OneReaches

LEMMA ScanMapReaches == ASSUME IInv, NoHole, NEW t \in Thread, ScanMap(t) PROVE NoHole'
<1>1. /\ life' = life /\ file_size' = file_size /\ data_block_no' = data_block_no
      /\ data' = data /\ map_data' = map_data /\ grown' = grown /\ thread[t].pc = "scan"
  BY DEF ScanMap, At, inodes, media, history
<1>2. Kept /\ (Unharmed' => Unharmed)
  BY <1>1 DEF Kept, Unharmed
<1>3. PICK r : thread' = [thread EXCEPT ![t] = r] /\ (r.pc = "copy" => Bit \subseteq map_data)
               /\ r.pc \in {"mark", "copy"} /\ r.file = thread[t].file /\ r.cur = thread[t].cur
  <2>1. thread[t] \in ThreadState
    BY Fields DEF IInv
  <2>2. CASE Bit \subseteq map_data
    <3> DEFINE c == [thread[t] EXCEPT !.bit = None, !.pc = "copy"]
    <3>1. thread' = [thread EXCEPT ![t] = c]
      BY <2>2 DEF ScanMap
    <3>2. c.pc = "copy" /\ c.file = thread[t].file /\ c.cur = thread[t].cur
      BY <2>1 DEF ThreadState
    <3> HIDE DEF c
    <3> QED
      BY <2>2, <3>1, <3>2
  <2>3. CASE ~(Bit \subseteq map_data)
    <3>1. PICK b \in Bit :
             thread' = [thread EXCEPT ![t] = [thread[t] EXCEPT !.bit = b, !.pc = "mark"]]
      BY <2>3 DEF ScanMap
    <3> DEFINE c == [thread[t] EXCEPT !.bit = b, !.pc = "mark"]
    <3>2. thread' = [thread EXCEPT ![t] = c]
      BY <3>1
    <3>3. c.pc = "mark" /\ c.file = thread[t].file /\ c.cur = thread[t].cur
      BY <2>1 DEF ThreadState
    <3> HIDE DEF c
    <3> QED
      BY <3>2, <3>3
  <2> QED
    BY <2>2, <2>3
<1>4. MaxData \in Bit
  BY DEF Bit
<1>5. ASSUME Unharmed, ThreadReaches(t) PROVE ThreadReaches(t)'
  <2>1. thread'[t] = r
    BY <1>3 DEF IInv, TypeOK
  <2>2. r.pc = "mark"
    BY <1>3, <1>4, <1>5 DEF Unharmed
  <2> QED
    BY <1>1, <1>2, <1>3, <1>5, <2>1, <2>2, CursorStays
<1> QED
  BY <1>1, <1>2, <1>3, <1>5, OneReaches

LEMMA MarkMapReaches == ASSUME IInv, NoHole, NEW t \in Thread, MarkMap(t) PROVE NoHole'
<1> DEFINE pc == IF thread[t].bit = max_data THEN "copy" ELSE "place"
           r == [thread[t] EXCEPT !.pc = pc]
<1>1. /\ life' = life /\ file_size' = file_size /\ data_block_no' = data_block_no
      /\ data' = data /\ grown' = grown /\ thread[t].pc = "mark" /\ Mounted
      /\ map_data' = map_data \cup {thread[t].bit}
      /\ thread' = [thread EXCEPT ![t] = r]
  BY DEF MarkMap, At, media, history
<1>2. Kept /\ (Unharmed' => Unharmed)
  BY <1>1 DEF Kept, Unharmed
<1>3. r.pc = pc /\ r.file = thread[t].file /\ r.cur = thread[t].cur
  <2>1. thread[t] \in ThreadState
    BY Fields DEF IInv
  <2> QED
    BY <2>1 DEF ThreadState
<1> HIDE DEF r
<1>4. ASSUME Unharmed, Unharmed', ThreadReaches(t) PROVE ThreadReaches(t)'
  <2>1. thread'[t] = r
    BY <1>1 DEF IInv, TypeOK
  <2>2. life = "first"
    BY <1>1, <1>4 DEF Unharmed, Mounted
  <2>3. thread[t].bit # max_data
    BY <1>1, <1>4, <2>2 DEF Unharmed, max_data
  <2> QED
    BY <1>1, <1>2, <1>3, <1>4, <2>1, <2>3, CursorStays
<1> QED
  BY <1>1, <1>2, <1>4, OneReaches

(***************************************************************************)
(* The slot allocate_data fills is the one of the cursor: all slots before *)
(* it are taken, since the file reaches the cursor.                        *)
(***************************************************************************)
LEMMA PlaceReaches == ASSUME IInv, NoHole, NEW t \in Thread, Place(t) PROVE NoHole'
<1>1. PICK f, i, free : /\ f = thread[t].file /\ i = BlockIdx(t)
                        /\ free = {k \in Slot : data_block_no[f][k] = None}
  OBVIOUS
<1> DEFINE r == [thread[t] EXCEPT !.bit = None, !.pc = "copy"]
<1>2. /\ life' = life /\ file_size' = file_size /\ map_data' = map_data /\ grown' = grown
      /\ thread[t].pc = "place" /\ Mounted /\ thread' = [thread EXCEPT ![t] = r]
      /\ free = {} => data_block_no' = data_block_no /\ data' = data
      /\ free # {} => /\ data_block_no' =
                            [data_block_no EXCEPT ![f][Min(free)] = thread[t].bit]
                      /\ data' = [data EXCEPT ![f][Min(free)] = Malloced]
  BY <1>1 DEF Place, At, media, history
<1>3. r.pc = "copy" /\ r.file = thread[t].file /\ r.cur = thread[t].cur
  <2>1. thread[t] \in ThreadState
    BY Fields DEF IInv
  <2> QED
    BY <2>1 DEF ThreadState
<1> HIDE DEF r
<1>4. thread'[t] = r
  BY <1>2 DEF IInv, TypeOK
<1>5. f \in File /\ i \in Slot /\ thread[t].bit \in Bit /\ thread[t].bit # None
  <2>1. f \in File /\ thread[t].bit \in Bit /\ BlockIdx(t) < DATA_PER_FILE
    BY <1>1, <1>2, Fields DEF IInv, AtBlock
  <2> QED
    BY <1>1, <2>1, CopyBounds, Constants DEF IInv
<1>6. free # {} => Min(free) \in Slot /\ data_block_no[f][Min(free)] = None
                   /\ \A k \in free : Min(free) <= k
  <2>1. free \in SUBSET Nat
    BY <1>1 DEF Slot
  <2> QED
    BY <1>1, <2>1, MinOf
<1>7. /\ data_block_no \in [File -> [Slot -> Bit \cup {None}]]
      /\ data \in [File -> [Slot -> Buffer \cup {Null}]]
  BY DEF IInv, TypeOK
<1>8. Kept
  <2>1. CASE free = {}
    BY <1>2, <2>1 DEF Kept
  <2>2. CASE free # {}
    <3>1. PICK k : k = Min(free)
      OBVIOUS
    <3>2. /\ k \in Slot /\ data_block_no' = [data_block_no EXCEPT ![f][k] = thread[t].bit]
          /\ data' = [data EXCEPT ![f][k] = Malloced] /\ Malloced # Null
      BY <1>2, <1>6, <2>2, <3>1, Constants
    <3>3. \A g \in File, j \in Slot : \/ data_block_no'[g][j] = data_block_no[g][j]
                                      \/ data_block_no'[g][j] = thread[t].bit
      BY <1>5, <1>7, <3>2
    <3>4. \A g \in File, j \in Slot : data'[g][j] = data[g][j] \/ data'[g][j] = Malloced
      BY <1>5, <1>7, <3>2
    <3> QED
      BY <1>5, <3>2, <3>3, <3>4 DEF Kept
  <2> QED
    BY <2>1, <2>2
<1>9. Unharmed' => Unharmed
  BY <1>2 DEF Unharmed
<1>10. ASSUME Unharmed, ThreadReaches(t) PROVE data'[f][i] # Null
  <2>1. Reach(f, thread[t].cur)
    BY <1>1, <1>2, <1>10 DEF ThreadReaches
  <2>2. \A j \in Slot : data[f][j] = Null <=> data_block_no[f][j] = None
    BY <1>5, <1>10 DEF IInv, SlotsInStep, FirstLife, Unharmed
  <2>3. \A j \in Slot : j < i => data_block_no[f][j] # None
    <3> SUFFICES ASSUME NEW j \in Slot, j < i PROVE BlockEnd(j) <= thread[t].cur
      BY <2>1 DEF Reach
    <3>1. PICK c, L : c = thread[t].cur /\ L = LOGIC_SZ
      OBVIOUS
    <3>2. /\ L \in Nat \ {0} /\ c \in Nat /\ i = c \div L /\ j \in Nat /\ j + 1 <= i /\ i \in Nat
      BY <1>1, <1>5, <3>1, Fields DEF IInv, BlockIdx, Slot
    <3>3. c = L * i + (c % L) /\ c % L \in 0 .. L - 1
      BY <3>2, InBlock
    <3>4. L * (j + 1) <= L * i
      BY <3>2, Grows
    <3>5. L * (j + 1) \in Int /\ L * i \in Int
      BY <3>2
    <3>6. L * (j + 1) <= c
      BY <3>2, <3>3, <3>4, <3>5
    <3> QED
      BY <3>1, <3>6 DEF BlockEnd
  <2>4. CASE free = {}
    BY <1>1, <1>2, <1>5, <2>2, <2>4
  <2>5. CASE free # {} /\ data[f][i] # Null
    BY <1>5, <1>8, <2>5 DEF Kept
  <2>6. CASE free # {} /\ data[f][i] = Null
    <3>1. PICK k : k = Min(free)
      OBVIOUS
    <3>2. k \in Slot /\ data_block_no[f][k] = None /\ k <= i
      BY <1>1, <1>5, <1>6, <2>2, <2>6, <3>1
    <3>3. k = i
      BY <1>5, <2>3, <3>2 DEF Slot
    <3>4. data'[f][i] = Malloced
      BY <1>2, <1>5, <1>7, <2>6, <3>1, <3>3
    <3> QED
      BY <3>4, Constants
  <2> QED
    BY <2>4, <2>5, <2>6
<1>11. ASSUME Unharmed, ThreadReaches(t) PROVE ThreadReaches(t)'
  BY <1>1, <1>2, <1>3, <1>4, <1>8, <1>10, <1>11, CursorStays
<1> QED
  BY <1>2, <1>8, <1>9, <1>11, OneReaches

(***************************************************************************)
(* The memcpy ends the process or leaves the cursor inside its block,      *)
(* which is there.                                                         *)
(***************************************************************************)
LEMMA CopyReaches == ASSUME IInv, NoHole, NEW t \in Thread, Copy(t) PROVE NoHole'
<1>1. PICK th, f, i, n : th = thread[t] /\ f = th.file /\ i = BlockIdx(t) /\ n = CopyLen(t)
  OBVIOUS
<1>2. /\ file_size' = file_size /\ data_block_no' = data_block_no /\ map_data' = map_data
      /\ grown' = grown /\ th.pc = "copy" /\ Mounted
  BY <1>1 DEF Copy, At
<1>3. th \in ThreadState /\ f \in File /\ th.cur \in Nat /\ i < DATA_PER_FILE
  BY <1>1, <1>2, Fields DEF IInv, AtBlock
<1>4. /\ i \in Slot /\ n \in Nat /\ BlockOffset(t) \in Off /\ n <= LOGIC_SZ - BlockOffset(t)
      /\ th.cur + n \in Int
  <2>1. /\ i \in Slot /\ n \in Nat /\ BlockOffset(t) \in Off /\ n <= LOGIC_SZ - BlockOffset(t)
    BY <1>1, <1>3, CopyBounds DEF IInv
  <2> QED
    BY <1>3, <2>1
<1>5. CASE data[f][i] = Null
  <2>1. life' = Crashed
    BY <1>1, <1>5 DEF Copy
  <2> QED
    BY <2>1 DEF NoHole, Unharmed, Crashed
<1>6. CASE data[f][i] # Null
  <2>1. PICK buf : thread' = [thread EXCEPT ![t] =
                      [th EXCEPT !.pc = "loop", !.rem = th.rem - n, !.cur = th.cur + n,
                                 !.buf = buf]]
    BY <1>1, <1>6 DEF Copy
  <2> DEFINE r == [th EXCEPT !.pc = "loop", !.rem = th.rem - n, !.cur = th.cur + n, !.buf = buf]
  <2>2. thread' = [thread EXCEPT ![t] = r]
    BY <2>1
  <2>3. r.pc = "loop" /\ r.file = f /\ r.cur = th.cur + n
    BY <1>1, <1>3 DEF ThreadState
  <2> HIDE DEF r
  <2>4. life' = life
    BY <1>1, <1>6 DEF Copy
  <2>5. Unharmed' => Unharmed
    BY <1>2, <2>4 DEF Unharmed
  <2>6. Kept
    <3>1. \A g \in File, j \in Slot : data[g][j] # Null => data'[g][j] # Null
      <4>1. CASE data' = data
        BY <4>1
      <4>2. CASE th.op = "write"
        <5>1. PICK block :
                 /\ block = [k \in Off |-> IF k \in BlockOffset(t) .. BlockOffset(t) + n - 1
                                         THEN th.val ELSE data[f][i][k]]
                 /\ data' = [data EXCEPT ![f][i] = block]
          BY <1>1, <1>6, <4>2 DEF Copy
        <5>2. /\ data \in [File -> [Slot -> Buffer \cup {Null}]]
              /\ data[f][i] \in Buffer /\ th.val \in Cell
          <6>1. th.val \in Cell
            BY <1>1, Fields DEF IInv
          <6> QED
            BY <1>3, <1>4, <1>6, <6>1 DEF IInv, TypeOK
        <5>3. block \in Buffer
          BY <5>1, <5>2 DEF Buffer
        <5>4. block # Null
          BY <5>3, Constants
        <5> QED
          BY <1>3, <1>4, <5>1, <5>2, <5>4
      <4>3. data' = data \/ th.op = "write"
        BY <1>1, <1>6 DEF Copy
      <4> QED
        BY <4>1, <4>2, <4>3
    <3> QED
      BY <1>2, <3>1 DEF Kept
  <2>7. ASSUME Unharmed PROVE Reach(f, th.cur + n)
    <3>1. life = "first" \/ life = "syncing"
      BY <2>7 DEF Unharmed
    <3>2. \A j \in 0 .. i : data_block_no[f][j] # None
      BY <1>3, <1>4, <1>6, <3>1 DEF IInv, SlotsInStep, FirstLife
    <3>3. th.cur + n <= BlockEnd(i)
      <4>1. PICK c, L, b : c = th.cur /\ L = LOGIC_SZ /\ b = BlockOffset(t)
        OBVIOUS
      <4>2. c \in Nat /\ L \in Nat \ {0} /\ b = c % L /\ i = c \div L /\ n <= L - b /\ n \in Nat
        BY <1>1, <1>3, <1>4, <4>1 DEF BlockIdx, BlockOffset
      <4>3. c = L * i + b /\ i \in Nat /\ b \in Nat
        BY <4>2, InBlock
      <4>4. L * (i + 1) = L * i + L /\ L * i \in Int
        BY <4>2, <4>3
      <4> QED
        BY <4>1, <4>2, <4>3, <4>4 DEF BlockEnd
    <3> QED
      BY <1>3, <1>4, <3>2, <3>3, ReachBlock
  <2>8. ASSUME Unharmed PROVE ThreadReaches(t)'
    <3>1. PICK d : d = th.cur + n
      OBVIOUS
    <3>2. Reach(f, d)'
      BY <1>3, <2>6, <2>7, <2>8, <3>1, ReachStays
    <3>3. thread'[t] = r
      BY <2>2 DEF IInv, TypeOK
    <3> QED
      BY <2>3, <3>1, <3>2, <3>3 DEF ThreadReaches
  <2> QED
    BY <1>2, <2>2, <2>5, <2>6, <2>8, OneReaches
<1> QED
  BY <1>5, <1>6

LEMMA LoadSizeReaches == ASSUME IInv, NoHole, NEW t \in Thread, LoadSize(t) PROVE NoHole'
<1>1. PICK f, c, e : f = thread[t].file /\ c = thread[t].cur /\ e = file_size[f]
  OBVIOUS
<1>2. f \in File /\ c \in Int /\ e \in Int
  <2>1. f \in File /\ c \in Nat /\ e \in 0 .. FileMax
    BY <1>1, Fields DEF IInv, TypeOK
  <2> QED
    BY <2>1, Constants
<1> DEFINE r == [thread[t] EXCEPT !.pc = "store", !.size = Max({e, c})]
<1>3. /\ life' = life /\ file_size' = file_size /\ data_block_no' = data_block_no
      /\ data' = data /\ map_data' = map_data /\ grown' = grown /\ thread[t].pc = "load"
      /\ thread' = [thread EXCEPT ![t] = r]
  BY <1>1 DEF LoadSize, At, inodes, media, history
<1>4. Kept /\ (Unharmed' => Unharmed)
  BY <1>3 DEF Kept, Unharmed
<1>5. r.pc = "store" /\ r.file = f /\ r.size \in {e, c}
  <2>1. thread[t] \in ThreadState
    BY Fields DEF IInv
  <2>2. Max({e, c}) \in {e, c}
    BY <1>2, MaxOfTwo
  <2> QED
    BY <1>1, <2>1, <2>2 DEF ThreadState
<1> HIDE DEF r
<1>6. ASSUME FilesReach, ThreadReaches(t) PROVE ThreadReaches(t)'
  <2>1. Reach(f, e) /\ Reach(f, c)
    BY <1>1, <1>2, <1>3, <1>6 DEF FilesReach, ThreadReaches
  <2>2. Reach(f, e)' /\ Reach(f, c)'
    BY <1>2, <1>4, <2>1, ReachStays
  <2>3. thread'[t] = r
    BY <1>3 DEF IInv, TypeOK
  <2> QED
    BY <1>5, <2>2, <2>3 DEF ThreadReaches
<1> QED
  BY <1>3, <1>4, <1>6, OneReaches

LEMMA StoreSizeReaches == ASSUME IInv, NoHole, NEW t \in Thread, StoreSize(t) PROVE NoHole'
<1>1. PICK f, z : f = thread[t].file /\ z = thread[t].size
  OBVIOUS
<1>2. /\ life' = life /\ file_size' = [file_size EXCEPT ![f] = z] /\ data_block_no' = data_block_no
      /\ data' = data /\ map_data' = map_data /\ grown' = grown /\ thread[t].pc = "store"
      /\ thread' = [thread EXCEPT ![t] = Idle("ok")]
  BY <1>1 DEF StoreSize, At, media
<1>3. Kept /\ (Unharmed' => Unharmed)
  BY <1>2 DEF Kept, Unharmed
<1> SUFFICES ASSUME Unharmed' PROVE FilesReach' /\ \A u \in Thread : ThreadReaches(u)'
  BY DEF NoHole
<1>4. FilesReach /\ \A u \in Thread : ThreadReaches(u)
  BY <1>3 DEF NoHole
<1>5. Reach(f, z)
  BY <1>1, <1>2, <1>4 DEF ThreadReaches
<1>6. FilesReach'
  <2> SUFFICES ASSUME NEW g \in File PROVE Reach(g, file_size[g])'
    BY DEF FilesReach
  <2>1. PICK e : e = file_size'[g]
    OBVIOUS
  <2>2. Reach(g, e)
    <3>1. CASE g = f
      BY <1>2, <1>5, <2>1, <3>1 DEF IInv, TypeOK
    <3>2. CASE g # f
      BY <1>2, <1>4, <2>1, <3>2 DEF IInv, TypeOK, FilesReach
    <3> QED
      BY <3>1, <3>2
  <2>3. Reach(g, e)'
    BY <1>3, <2>2, ReachStays
  <2> QED
    BY <2>1, <2>3
<1>7. ASSUME NEW u \in Thread PROVE ThreadReaches(u)'
  <2>1. CASE u = t
    <3>1. thread'[u] = Idle("ok")
      BY <1>2, <2>1 DEF IInv, TypeOK
    <3> QED
      BY <3>1 DEF ThreadReaches, Idle
  <2>2. CASE u # t
    <3>1. thread'[u] = thread[u]
      BY <1>2, <2>2 DEF IInv, TypeOK
    <3> QED
      BY <1>3, <1>4, <3>1, ThreadStays
  <2> QED
    BY <2>1, <2>2
<1> QED
  BY <1>6, <1>7

\* A truncate that makes no file longer leaves it within its blocks.
LEMMA TruncateReaches ==
    ASSUME IInv, NoHole, NEW t \in Thread, NEW f \in File, NEW size \in 0 .. FileMax,
           Truncate(t, f, size)
    PROVE  NoHole'
<1>1. /\ life' = life /\ file_size' = [file_size EXCEPT ![f] = size]
      /\ data_block_no' = data_block_no /\ data' = data /\ map_data' = map_data
      /\ grown' = (grown \/ size > file_size[f]) /\ thread' = thread
  BY DEF Truncate, media
<1>2. Kept /\ (Unharmed' => Unharmed)
  BY <1>1 DEF Kept, Unharmed
<1> SUFFICES ASSUME Unharmed' PROVE FilesReach' /\ \A u \in Thread : ThreadReaches(u)'
  BY DEF NoHole
<1>3. FilesReach /\ \A u \in Thread : ThreadReaches(u)
  BY <1>2 DEF NoHole
<1>4. size \in Int /\ file_size[f] \in Int /\ size <= file_size[f]
  <2>1. size \in Int /\ file_size[f] \in Int
    BY Constants DEF IInv, TypeOK
  <2>2. ~(size > file_size[f])
    BY <1>1 DEF Unharmed
  <2> QED
    BY <2>1, <2>2
<1>5. FilesReach'
  <2> SUFFICES ASSUME NEW g \in File PROVE Reach(g, file_size[g])'
    BY DEF FilesReach
  <2>1. PICK e : e = file_size'[g]
    OBVIOUS
  <2>2. Reach(g, e)
    <3>1. CASE g = f
      <4>1. e = size
        BY <1>1, <2>1, <3>1 DEF IInv, TypeOK
      <4> QED
        BY <1>3, <1>4, <3>1, <4>1, ReachLess DEF FilesReach
    <3>2. CASE g # f
      BY <1>1, <1>3, <2>1, <3>2 DEF IInv, TypeOK, FilesReach
    <3> QED
      BY <3>1, <3>2
  <2>3. Reach(g, e)'
    BY <1>2, <2>2, ReachStays
  <2> QED
    BY <2>1, <2>3
<1>6. ASSUME NEW u \in Thread PROVE ThreadReaches(u)'
  BY <1>1, <1>2, <1>3, ThreadStays
<1> QED
  BY <1>5, <1>6

\* Unmounting and writing back leave the inodes and the threads alone.
LEMMA UnmountReaches == ASSUME IInv, NoHole, Unmount \/ SyncFile PROVE NoHole'
<1>1. /\ UNCHANGED <<inodes, thread, history>>
      /\ life' \in {"first", "syncing"} => life \in {"first", "syncing"}
  BY DEF Unmount, SyncFile, Mounted, Crashed
<1>2. /\ file_size' = file_size /\ data_block_no' = data_block_no /\ data' = data
      /\ map_data' = map_data /\ thread' = thread /\ grown' = grown
  BY <1>1 DEF inodes, history
<1>3. Unharmed' => Unharmed
  BY <1>1, <1>2 DEF Unharmed
<1>4. Kept
  BY <1>2 DEF Kept
<1> SUFFICES ASSUME Unharmed' PROVE FilesReach' /\ \A u \in Thread : ThreadReaches(u)'
  BY DEF NoHole
<1>5. FilesReach /\ \A u \in Thread : ThreadReaches(u)
  BY <1>3 DEF NoHole
<1> QED
  BY <1>2, <1>4, <1>5, ThreadStays, ReachStays DEF FilesReach

LEMMA InitReaches == Init => NoHole
<1> SUFFICES ASSUME Init PROVE FilesReach /\ \A t \in Thread : ThreadReaches(t)
  BY DEF NoHole
<1>1. FilesReach
  BY ReachNone DEF Init, FilesReach
<1>2. \A t \in Thread : ThreadReaches(t)
  BY DEF Init, ThreadReaches, Idle
<1> QED
  BY <1>1, <1>2

LEMMA StepReaches == IInv /\ NoHole /\ [Next]_vars => NoHole'
<1> SUFFICES ASSUME IInv, NoHole, [Next]_vars PROVE NoHole'
  OBVIOUS
<1>1. CASE UNCHANGED vars
  BY <1>1 DEF vars, NoHole, Unharmed, FilesReach, ThreadReaches, Reach, BlockIdx
<1>2. ASSUME NEW t \in Thread, NEW f \in File, NEW off \in 0 .. FileMax, NEW len \in 1 .. MaxLen,
             \/ \E v \in Value : Start(t, "write", f, v, off, len)
             \/ Start(t, "read", f, Junk, off, len)
      PROVE  NoHole'
  BY <1>2, StartReaches DEF Cell
<1>3. ASSUME NEW t \in Thread,
             \/ Loop(t) \/ ScanMap(t) \/ MarkMap(t) \/ Place(t)
             \/ Copy(t) \/ LoadSize(t) \/ StoreSize(t)
      PROVE  NoHole'
  BY <1>3, LoopReaches, ScanMapReaches, MarkMapReaches, PlaceReaches, CopyReaches,
     LoadSizeReaches, StoreSizeReaches
<1>4. ASSUME NEW t \in Thread, NEW f \in File, NEW size \in 0 .. FileMax, Truncate(t, f, size)
      PROVE  NoHole'
  BY <1>4, TruncateReaches
<1>5. CASE FinishUnmount \/ Remount
  BY <1>5 DEF FinishUnmount, Remount, NoHole, Unharmed
<1>6. ASSUME NEW f \in File, Load(f) PROVE NoHole'
  BY <1>6 DEF Load, NoHole, Unharmed
<1> QED
  BY <1>1, <1>2, <1>3, <1>4, <1>5, <1>6, UnmountReaches DEF Next

(***************************************************************************)
(* A step into "crashed" is a memcpy whose buffer is not there, which      *)
(* NoHole excludes, or newfs_destroy finding a block without memory, which *)
(* SlotsInStep excludes; a hole or a full map is never undone.             *)
(***************************************************************************)
LEMMA CrashStep ==
    IInv /\ NoHole /\ CrashNeedsHoleOrFullDisk /\ [Next]_vars => CrashNeedsHoleOrFullDisk'
<1> SUFFICES ASSUME IInv, NoHole, CrashNeedsHoleOrFullDisk, [Next]_vars, life' = "crashed"
             PROVE  grown' \/ MaxData \in map_data'
  BY DEF CrashNeedsHoleOrFullDisk
<1> USE DEF inodes, media, history
<1>1. CASE life = "crashed"
  <2>1. grown \/ MaxData \in map_data
    BY <1>1 DEF CrashNeedsHoleOrFullDisk
  <2>2. UNCHANGED <<grown, map_data>>
    BY <1>1 DEF Next, vars, Start, Loop, ScanMap, MarkMap, Place, Copy, LoadSize, StoreSize,
                Truncate, Unmount, SyncFile, FinishUnmount, Remount, Load, At, Mounted
  <2> QED
    BY <2>1, <2>2
<1>2. CASE life # "crashed"
  <2>1. \/ \E t \in Thread : Copy(t)
        \/ SyncFile
    BY <1>2 DEF Next, vars, Start, Loop, ScanMap, MarkMap, Place, LoadSize, StoreSize,
                Truncate, Unmount, FinishUnmount, Remount, Load, At, Mounted
  <2>2. ASSUME NEW t \in Thread, Copy(t) PROVE grown' \/ MaxData \in map_data'
    <3>1. /\ data[thread[t].file][BlockIdx(t)] = Null /\ life \in {"first", "syncing"}
          /\ thread[t].pc = "copy" /\ UNCHANGED <<grown, map_data>>
      BY <1>2, <2>2 DEF Copy, Crashed, At
    <3> QED
      BY <3>1 DEF NoHole, Unharmed, ThreadReaches
  <2>3. ~SyncFile
    <3> SUFFICES ASSUME SyncFile PROVE FALSE
      OBVIOUS
    <3>1. SyncCrashes(Head(sync)) /\ life = "syncing" /\ sync # <<>>
      BY <1>2 DEF SyncFile, Crashed
    <3>2. Head(sync) \in File
      BY <3>1 DEF IInv, TypeOK
    <3> QED
      BY <3>1, <3>2 DEF SyncCrashes, IInv, SlotsInStep, FirstLife
  <2> QED
    BY <2>1, <2>2, <2>3
<1> QED
  BY <1>1, <1>2

(***************************************************************************)
(* CrashIsExplained: for every number of threads in the handlers at once,  *)
(* the memcpy of newfs_write and newfs_read never loses its block in the   *)
(* first mount but behind a hole or on a full data area.                   *)
(***************************************************************************)
THEOREM CrashIsExplained == Spec => []CrashNeedsHoleOrFullDisk
<1>1. Init => NoHole /\ CrashNeedsHoleOrFullDisk
  BY InitReaches DEF Init, CrashNeedsHoleOrFullDisk
<1>2. IInv /\ NoHole /\ CrashNeedsHoleOrFullDisk /\ [Next]_vars
         => NoHole' /\ CrashNeedsHoleOrFullDisk'
  BY StepReaches, CrashStep
<1> QED
  BY <1>1, <1>2, AlwaysIInv, PTL DEF Spec
-------------------------------------------------------------------------------
(***************************************************************************)
(* What newfs_destroy has written so far.  A cell of a block of a file     *)
(* that fits in one block is written once, from the file's own memory.     *)
(***************************************************************************)
Pending == {sync[k] : k \in DOMAIN sync}

Small == \A f \in File : file_size[f] <= LOGIC_SZ

Saved(f) ==
    /\ disk_inode[f].size = file_size[f]
    /\ disk_inode[f].data_block_no = data_block_no[f]
    /\ \A i \in Slot, k \in Off :
          data_block_no[f][i] # None /\ k < file_size[f]
             => disk[data_block_no[f][i] * LOGIC_SZ + k] = data[f][i][k]

SavedInv ==
    /\ life \in {"syncing", "unmounted"} /\ Small => \A f \in File : f \in Pending \/ Saved(f)
    /\ life = "unmounted" => sync = <<>>

\* Two cells at one address are one cell of one block.
LEMMA OneAddress ==
    ASSUME NEW L \in Nat \ {0}, NEW p \in Int, NEW q \in Int,
           NEW j \in 0 .. L - 1, NEW k \in 0 .. L - 1, p * L + j = q * L + k
    PROVE  p = q /\ j = k
<1>1. p * L = L * p /\ q * L = L * q /\ L * p \in Int /\ L * q \in Int
  OBVIOUS
<1>2. ~(p + 1 <= q)
  <2> SUFFICES ASSUME p + 1 <= q PROVE FALSE
    OBVIOUS
  <2>1. L * (p + 1) <= L * q
    BY Grows
  <2>2. L * (p + 1) = L * p + L
    OBVIOUS
  <2> QED
    BY <1>1, <2>1, <2>2
<1>3. ~(q + 1 <= p)
  <2> SUFFICES ASSUME q + 1 <= p PROVE FALSE
    OBVIOUS
  <2>1. L * (q + 1) <= L * p
    BY Grows
  <2>2. L * (q + 1) = L * q + L
    OBVIOUS
  <2> QED
    BY <1>1, <2>1, <2>2
<1>4. p = q
  BY <1>2, <1>3
<1> QED
  BY <1>1, <1>4

\* The blocks are inside the data area.
LEMMA InArea ==
    ASSUME NEW b \in Bit, NEW k \in Off
    PROVE  b * LOGIC_SZ + k \in Address
<1>1. PICK L : L = LOGIC_SZ
  OBVIOUS
<1>2. L \in Nat \ {0} /\ b \in Nat /\ b + 1 <= MapBits /\ k \in 0 .. L - 1
  BY <1>1 DEF Bit, Off
<1>3. L * (b + 1) <= L * MapBits
  BY <1>2, Grows
<1>4. L * (b + 1) = L * b + L /\ L * b = b * L /\ L * MapBits = MapBits * L /\ b * L \in Nat
  BY <1>2
<1>5. b * L + k \in 0 .. MapBits * L - 1
  BY <1>2, <1>3, <1>4
<1> QED
  BY <1>1, <1>5 DEF Address

\* sync_inode on a file that fits in a block: its own cells, and no other's.
LEMMA DiskAfterSmall ==
    ASSUME TypeOK, NEW f \in File, file_size[f] <= LOGIC_SZ, BlocksNotShared,
           NEW b \in Bit, NEW k \in Off
    PROVE  /\ \A i \in Slot : data_block_no[f][i] = b /\ k < file_size[f]
                 => DiskAfter(f)[b * LOGIC_SZ + k] = data[f][i][k]
           /\ (\A i \in Slot : data_block_no[f][i] # b)
                 => DiskAfter(f)[b * LOGIC_SZ + k] = disk[b * LOGIC_SZ + k]
<1> DEFINE start(i) == data_block_no[f][i] * LOGIC_SZ
           slots(a) == {i \in Slot : /\ data_block_no[f][i] # None
                                     /\ a \in start(i) .. start(i) + file_size[f] - 1}
           cell(a)  == LET i == Max(slots(a))
                       IN  IF a - start(i) \in Off THEN data[f][i][a - start(i)] ELSE Junk
<1>1. PICK a : a = b * LOGIC_SZ + k
  OBVIOUS
<1>2. a \in Address /\ a \in Int
  <2>1. a \in Address
    BY <1>1, InArea
  <2> QED
    BY <2>1 DEF Address
<1>3. DiskAfter(f)[a] = IF slots(a) = {} THEN disk[a] ELSE cell(a)
  BY <1>2 DEF DiskAfter
<1>4. \A i \in Slot : data_block_no[f][i] \in Bit \cup {None}
  BY DEF TypeOK
<1>5. file_size[f] \in Nat
  BY Constants DEF TypeOK
<1>6. ASSUME NEW j \in slots(a) PROVE j \in Slot /\ data_block_no[f][j] = b
  <2>1. PICK L, c, z : L = LOGIC_SZ /\ c = data_block_no[f][j] /\ z = file_size[f]
    OBVIOUS
  <2>2. /\ L \in Nat \ {0} /\ c \in Bit /\ a \in c * L .. c * L + z - 1 /\ z \in Nat /\ z <= L
        /\ a = b * L + k /\ k \in 0 .. L - 1
    BY <1>1, <1>4, <1>5, <1>6, <2>1 DEF Off
  <2>3. c \in Int /\ b \in Int /\ c * L \in Int
    BY <2>2 DEF Bit
  <2>4. PICK h : h = a - c * L
    OBVIOUS
  <2>5. h \in 0 .. L - 1 /\ c * L + h = b * L + k
    <3>1. PICK s : s = c * L /\ s \in Int
      BY <2>3
    <3>2. a \in s .. s + z - 1 /\ h = a - s
      BY <2>2, <2>4, <3>1
    <3>3. h \in 0 .. L - 1 /\ s + h = a
      BY <1>2, <2>2, <3>1, <3>2
    <3> QED
      BY <2>2, <3>1, <3>3
  <2>6. c = b
    BY <2>2, <2>3, <2>5, OneAddress
  <2> QED
    BY <1>6, <2>1, <2>6
<1>7. ASSUME NEW i \in Slot, data_block_no[f][i] = b, k < file_size[f]
      PROVE  DiskAfter(f)[a] = data[f][i][k]
  <2>1. b # None
    BY Constants
  <2>2. slots(a) \subseteq {i}
    BY <1>6, <1>7, <2>1 DEF BlocksNotShared
  <2>3. i \in slots(a)
    <3>1. PICK s, z : s = start(i) /\ z = file_size[f]
      OBVIOUS
    <3>2. s \in Int /\ z \in Nat /\ k \in Nat /\ k < z /\ a = s + k
      BY <1>1, <1>5, <1>7, <3>1 DEF Bit, Off
    <3>3. a \in s .. s + z - 1
      BY <3>2
    <3> QED
      BY <1>7, <2>1, <3>1, <3>3
  <2>4. slots(a) = {i}
    BY <2>2, <2>3
  <2>5. Max({i}) = i
    <3>1. i \in Int
      BY DEF Slot
    <3> QED
      BY <3>1, MaxOfTwo
  <2>6. a - start(i) = k
    <3>1. PICK s : s = start(i)
      OBVIOUS
    <3>2. s \in Int /\ k \in Int /\ a = s + k
      BY <1>1, <1>7, <3>1 DEF Bit, Off
    <3>3. a - s = k
      BY <3>2
    <3> QED
      BY <3>1, <3>3
  <2>7. cell(a) = data[f][i][k]
    BY <2>4, <2>5, <2>6
  <2>8. slots(a) # {}
    BY <2>3
  <2> HIDE DEF slots, cell
  <2> QED
    BY <1>3, <2>7, <2>8
<1>8. ASSUME \A i \in Slot : data_block_no[f][i] # b PROVE DiskAfter(f)[a] = disk[a]
  BY <1>3, <1>6, <1>8
<1> QED
  BY <1>1, <1>7, <1>8

\* One file is written: it is saved, and what was saved before stays.
LEMMA SyncSaves ==
    ASSUME IInv, BlockInv, BlocksNotShared, SavedInv, SyncFile, life' = "syncing", Small
    PROVE  \A g \in File : g \in Pending' \/ Saved(g)'
<1>1. PICK f : f = Head(sync)
  OBVIOUS
<1>2. sync \in Seq(File) /\ sync # <<>> /\ sync' = Tail(sync) /\ f \in File
  BY <1>1 DEF SyncFile, IInv, TypeOK
<1>3. life = "syncing" /\ f \in loaded /\ ~SyncCrashes(f)
  <2>1. life = "syncing"
    BY DEF SyncFile, Crashed
  <2>2. f \in loaded
    BY <1>2, <2>1 DEF BlockInv, LifeInv, FirstLife
  <2> QED
    BY <1>1, <2>1, <2>2 DEF SyncFile, Crashed
<1>4. /\ disk' = DiskAfter(f)
      /\ disk_inode' = [disk_inode EXCEPT ![f] =
                           [size |-> file_size[f], data_block_no |-> data_block_no[f]]]
      /\ file_size' = file_size /\ data_block_no' = data_block_no /\ data' = data
  BY <1>1, <1>3 DEF SyncFile, inodes
<1>5. ASSUME NEW g \in File, g \in Pending, g # f PROVE g \in Pending'
  <2>1. PICK k \in 1 .. Len(sync) : sync[k] = g
    BY <1>2, <1>5 DEF Pending
  <2>2. k # 1
    BY <1>1, <1>2, <1>5, <2>1
  <2>3. k - 1 \in 1 .. Len(Tail(sync)) /\ Tail(sync)[k - 1] = g
    BY <1>2, <2>1, <2>2
  <2>4. DOMAIN Tail(sync) = 1 .. Len(Tail(sync))
    BY <1>2
  <2> QED
    BY <1>2, <2>3, <2>4 DEF Pending
<1>6. /\ disk_inode'[f].size = file_size[f] /\ disk_inode'[f].data_block_no = data_block_no[f]
      /\ \A g \in File : g # f => disk_inode'[g] = disk_inode[g]
  BY <1>2, <1>4 DEF IInv, TypeOK
<1>7. \A g \in File, i \in Slot : data_block_no[g][i] \in Bit \cup {None}
  BY DEF IInv, TypeOK
<1>8. Saved(f)'
  <2>1. ASSUME NEW i \in Slot, NEW k \in Off, data_block_no[f][i] # None, k < file_size[f]
        PROVE  disk'[data_block_no[f][i] * LOGIC_SZ + k] = data[f][i][k]
    BY <1>2, <1>4, <1>7, <2>1, DiskAfterSmall DEF Small, IInv
  <2> QED
    BY <1>4, <1>6, <2>1 DEF Saved
<1>9. ASSUME NEW g \in File, g # f, Saved(g) PROVE Saved(g)'
  <2>1. ASSUME NEW i \in Slot, NEW k \in Off, data_block_no[g][i] # None, k < file_size[g]
        PROVE  disk'[data_block_no[g][i] * LOGIC_SZ + k] = data[g][i][k]
    <3>1. data_block_no[g][i] \in Bit
      BY <1>7, <2>1
    <3>2. \A j \in Slot : data_block_no[f][j] # data_block_no[g][i]
      BY <1>2, <1>9, <2>1 DEF BlocksNotShared
    <3>3. disk'[data_block_no[g][i] * LOGIC_SZ + k] = disk[data_block_no[g][i] * LOGIC_SZ + k]
      BY <1>2, <1>4, <3>1, <3>2, DiskAfterSmall DEF Small, IInv
    <3> QED
      BY <1>9, <2>1, <3>3 DEF Saved
  <2> QED
    BY <1>4, <1>6, <1>9, <2>1 DEF Saved
<1> QED
  BY <1>3, <1>5, <1>8, <1>9 DEF SavedInv

LEMMA SavedStep ==
    IInv /\ BlockInv /\ BlocksNotShared /\ SavedInv /\ [Next]_vars => SavedInv'
<1> SUFFICES ASSUME IInv, BlockInv, BlocksNotShared, SavedInv, [Next]_vars PROVE SavedInv'
  OBVIOUS
<1> USE DEF inodes, media, history
<1>1. CASE UNCHANGED vars
  BY <1>1 DEF vars, SavedInv, Pending, Small, Saved
<1>2. CASE life' \notin {"syncing", "unmounted"}
  BY <1>2 DEF SavedInv
<1>3. CASE life' \in {"syncing", "unmounted"} /\ Next
  <2>1. Unmount \/ SyncFile \/ FinishUnmount
    <3>1. ASSUME NEW t \in Thread PROVE ~Copy(t)
      BY <1>3 DEF Copy, At, Mounted, Crashed
    <3>2. ASSUME NEW t \in Thread
          PROVE  ~(Loop(t) \/ ScanMap(t) \/ MarkMap(t) \/ Place(t) \/ LoadSize(t) \/ StoreSize(t))
      BY <1>3 DEF Loop, ScanMap, MarkMap, Place, LoadSize, StoreSize, At, Mounted
    <3>3. ASSUME NEW t \in Thread, NEW op, NEW f, NEW v, NEW off, NEW len
          PROVE  ~Start(t, op, f, v, off, len) /\ ~Truncate(t, f, off)
      BY <1>3 DEF Start, Truncate, At, Mounted
    <3>4. ASSUME NEW f \in File PROVE ~Load(f) /\ ~Remount
      BY <1>3 DEF Load, Remount
    <3>5. File # {}
      BY Constants
    <3> QED
      BY <1>3, <3>1, <3>2, <3>3, <3>4, <3>5 DEF Next
  <2>2. CASE Unmount
    <3>1. life' = "syncing" /\ sync' = [k \in File |-> NumFiles + 1 - k]
      BY <1>3, <2>2 DEF Unmount
    <3>2. \A f \in File : f \in Pending'
      <4> SUFFICES ASSUME NEW f \in File PROVE \E k \in File : NumFiles + 1 - k = f
        BY <3>1 DEF Pending
      <4>1. NumFiles + 1 - f \in File /\ NumFiles + 1 - (NumFiles + 1 - f) = f
        BY DEF File
      <4> QED
        BY <4>1
    <3> QED
      BY <3>1, <3>2 DEF SavedInv
  <2>3. CASE SyncFile
    <3>1. life' = "syncing" /\ file_size' = file_size
      BY <1>3, <2>3 DEF SyncFile, Crashed
    <3>2. Small' => Small
      BY <3>1 DEF Small
    <3> QED
      BY <2>3, <3>1, <3>2, SyncSaves DEF SavedInv
  <2>4. CASE FinishUnmount
    <3>1. /\ life = "syncing" /\ sync = <<>>
          /\ UNCHANGED <<file_size, data_block_no, data, disk, disk_inode, sync>>
      BY <1>3, <2>4 DEF FinishUnmount
    <3> QED
      BY <3>1 DEF SavedInv, Pending, Small, Saved
  <2> QED
    BY <2>1, <2>2, <2>3, <2>4
<1> QED
  BY <1>1, <1>2, <1>3

(***************************************************************************)
(* SmallFilesSaved: with one thread in the handlers at a time, when        *)
(* newfs_destroy is done and no file is longer than a block, every size    *)
(* and every cell of every file is on the disk, in the file's own block.   *)
(***************************************************************************)
THEOREM SmallFilesSaved ==
    ASSUME OneAtATime
    PROVE  Spec => []SmallFilesReachDisk
<1>1. Init => SavedInv
  BY DEF Init, SavedInv
<1>2. IInv /\ BlockInv /\ BlocksNotShared /\ SavedInv /\ [Next]_vars => SavedInv'
  BY SavedStep
<1>3. IInv /\ SavedInv => SmallFilesReachDisk
  <2> SUFFICES ASSUME IInv, SavedInv, life = "unmounted", Small, NEW f \in File
               PROVE  disk_inode[f].size = file_size[f] /\ OnDisk(f)
    BY DEF SmallFilesReachDisk, Small
  <2>1. Saved(f)
    BY DEF SavedInv, Pending
  <2>2. ASSUME NEW o \in 0 .. disk_inode[f].size - 1
        PROVE  o \div LOGIC_SZ = 0 /\ o % LOGIC_SZ = o /\ o \in Off /\ o < file_size[f]
    <3>1. PICK L, z : L = LOGIC_SZ /\ z = file_size[f]
      OBVIOUS
    <3>2. L \in Nat \ {0} /\ z \in Nat /\ z <= L /\ o \in 0 .. z - 1
      BY <2>1, <3>1, Constants DEF IInv, TypeOK, Small, Saved
    <3>3. o \div L = 0 /\ o % L = o /\ o \in 0 .. L - 1 /\ o < z
      BY <3>2
    <3> QED
      BY <3>1, <3>3 DEF Off
  <2>3. OnDisk(f)
    BY <2>1, <2>2, Constants DEF OnDisk, Saved
  <2> QED
    BY <2>1, <2>3 DEF Saved
<1>4. Spec => [](BlockInv /\ BlocksNotShared)
  BY BlocksAlways
<1> QED
  BY <1>1, <1>2, <1>3, <1>4, AlwaysIInv, PTL DEF Spec
====
