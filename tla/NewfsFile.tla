------------------------------- MODULE NewfsFile -------------------------------
(***************************************************************************)
(* The data path of newfs: newfs_write, newfs_read and newfs_truncate on   *)
(* regular files, the block allocation they do, and what newfs_destroy and *)
(* the next mount make of the contents.                                    *)
(*                                                                         *)
(* FUSE calls the handlers from several threads (the tests start newfs     *)
(* without -s) and newfs takes no lock, so a handler is a sequence of      *)
(* steps: the loop test, the parts of allocate_data, the memcpy and the    *)
(* update of file_size.  Sizes and offsets are counted in cells, of which  *)
(* a block has LOGIC_SZ; a cell stands for a run of bytes.                 *)
(***************************************************************************)
EXTENDS Bitmap, FiniteSets, Sequences, FiniteSetsExt

CONSTANTS
    Thread,         \* FUSE's worker threads
    NumFiles,       \* the files of the root directory, numbered by creation
    Value,          \* what a program may write to a cell
    Junk,           \* a cell nobody wrote: memory as malloc returns it
    Null,           \* the NULL pointer
    LOGIC_SZ,       \* cells of a block
    DATA_PER_FILE,  \* block slots of an inode
    MaxData,        \* super.max_data
    MaxOps,         \* bound: reads, writes and truncates of a behaviour
    MaxLen          \* bound: cells of one read or write

ASSUME FileAssumption == Thread # {} /\ NumFiles \in Nat \ {0} /\ Junk \notin Value
ASSUME SizeAssumption == LOGIC_SZ \in Nat \ {0} /\ DATA_PER_FILE \in Nat \ {0}
ASSUME DataAssumption == MaxData \in 1 .. MapBits - 1
ASSUME NullAssumption == Null \notin [0 .. LOGIC_SZ - 1 -> Value \cup {Junk}]
ASSUME BoundAssumption == MaxOps \in Nat /\ MaxLen \in Nat

VARIABLES
    file_size, data_block_no, data,  \* in memory: the fields of the inodes
    map_data,                        \* in memory: super.map_data
    thread,                          \* what every thread is doing
    loaded,                          \* files whose inode is in memory
    disk,                            \* the cells of the data area
    disk_inode,                      \* file_size and data_block_no of the inode_d
    life,                            \* mounted for the first time, unmounting, ...
    sync,                            \* files newfs_destroy still has to write
    ops,                             \* operations started
    written, extent, grown           \* history, see below

vars == <<file_size, data_block_no, data, map_data, thread, loaded, disk,
          disk_inode, life, sync, ops, written, extent, grown>>
history == <<written, extent, grown>>
inodes  == <<file_size, data_block_no, data, map_data>>
media   == <<loaded, disk, disk_inode, life, sync>>
-------------------------------------------------------------------------------
File    == 1 .. NumFiles
Slot    == 0 .. DATA_PER_FILE - 1
Off     == 0 .. LOGIC_SZ - 1
FileMax == DATA_PER_FILE * LOGIC_SZ
Cell    == Value \cup {Junk}
Buffer  == [Off -> Cell]
Address == 0 .. MapBits * LOGIC_SZ - 1

Malloced == [k \in Off |-> Junk]

\* A thread between two handlers; ret is what its last handler returned.
Idle(ret) == [pc |-> "idle", op |-> "none", file |-> 1, val |-> Junk, off |-> 0,
              cur |-> 0, rem |-> 0, bit |-> None, size |-> 0, buf |-> <<>>, ret |-> ret]

ThreadState ==
    [pc : {"idle", "loop", "scan", "mark", "place", "copy", "load", "store"},
     op : {"none", "write", "read"}, file : File, val : Cell,
     off : 0 .. FileMax, cur : 0 .. FileMax, rem : 0 .. MaxLen,
     bit : Bit \cup {None}, size : 0 .. FileMax, buf : Seq(Cell),
     ret : {"none", "ok", "ESPIPE", "ENOSPC"}]

TypeOK ==
    /\ file_size \in [File -> 0 .. FileMax]
    /\ data_block_no \in [File -> [Slot -> Bit \cup {None}]]
    /\ data \in [File -> [Slot -> Buffer \cup {Null}]]
    /\ map_data \subseteq Bit
    /\ thread \in [Thread -> ThreadState]
    /\ loaded \subseteq File
    /\ disk \in [Address -> Cell]
    /\ disk_inode \in [File -> [size : 0 .. FileMax, data_block_no : [Slot -> Bit \cup {None}]]]
    /\ life \in {"first", "syncing", "unmounted", "later", "resyncing", "ended",
                "crashed", "crashed_later"}
    /\ sync \in Seq(File)
    /\ ops \in 0 .. MaxOps
    /\ written \in [File -> [0 .. FileMax - 1 -> Cell]]
    /\ extent \in [File -> 0 .. FileMax]
    /\ grown \in BOOLEAN

NewInode == [size |-> 0, data_block_no |-> [i \in Slot |-> None]]

\* Block 0 holds the dentries of the root; every file has just been created.
Init ==
    /\ file_size = [f \in File |-> 0]
    /\ data_block_no = [f \in File |-> [i \in Slot |-> None]]
    /\ data = [f \in File |-> [i \in Slot |-> Null]]
    /\ map_data = {0}
    /\ thread = [t \in Thread |-> Idle("none")]
    /\ loaded = File
    /\ disk = [a \in Address |-> Junk]
    /\ disk_inode = [f \in File |-> NewInode]
    /\ life = "first" /\ sync = <<>> /\ ops = 0
    /\ written = [f \in File |-> [o \in 0 .. FileMax - 1 |-> Junk]]
    /\ extent = [f \in File |-> 0]
    /\ grown = FALSE
-------------------------------------------------------------------------------
Mounted == life \in {"first", "later"}

\* A NULL pointer has been dereferenced: the daemon is gone.
Crashed == IF life \in {"first", "syncing"} THEN "crashed" ELSE "crashed_later"

\* super.max_data, which newfs_init only computes for a new disk.
max_data == IF life = "first" THEN MaxData ELSE 0

At(t, pc) == Mounted /\ thread[t].pc = pc

BlockIdx(t)    == thread[t].cur \div LOGIC_SZ
\* A slip in BlockOffset: taken from the start of the request, not from cur_offset.
BlockOffsetOfStart(t) == thread[t].off % LOGIC_SZ

BlockOffset(t) == thread[t].cur % LOGIC_SZ

\* The kernel holds the inode lock of a file during a write or a truncate.
Writing(f) == \E t \in Thread : thread[t].op = "write" /\ thread[t].file = f

\* A slip in Start: no test of the offset against file_size.
StartAnywhere(t, op, f, v, off, len) ==
    /\ At(t, "idle") /\ f \in loaded /\ ops < MaxOps
    /\ op = "write" => ~Writing(f)
    /\ ops' = ops + 1
    /\ thread' = [thread EXCEPT ![t] =
          [Idle("none") EXCEPT !.pc = "loop", !.op = op, !.file = f, !.val = v,
                               !.off = off, !.cur = off, !.rem = len]]
    /\ UNCHANGED <<inodes, media, history>>

(***************************************************************************)
(* newfs_write and newfs_read of len cells at off: the checks up to the    *)
(* loop.  A program may ask for any range; the kernel turns a small read   *)
(* into one of whole pages.                                                *)
(***************************************************************************)
Start(t, op, f, v, off, len) ==
    /\ At(t, "idle") /\ f \in loaded /\ ops < MaxOps
    /\ op = "write" => ~Writing(f)
    /\ ops' = ops + 1
    /\ thread' = [thread EXCEPT ![t] =
          IF file_size[f] < off
          THEN Idle("ESPIPE")
          ELSE [Idle("none") EXCEPT !.pc = "loop", !.op = op, !.file = f, !.val = v,
                                    !.off = off, !.cur = off, !.rem = len]]
    /\ UNCHANGED <<inodes, media, history>>

\* The head of the while loop: the end, the size limit, or the next block.
Loop(t) ==
    /\ At(t, "loop")
    /\ thread' = [thread EXCEPT ![t] =
          IF thread[t].rem = 0 THEN [@ EXCEPT !.pc = "load"]
          ELSE IF BlockIdx(t) >= DATA_PER_FILE THEN Idle("ENOSPC")
          ELSE IF data[thread[t].file][BlockIdx(t)] = Null THEN [@ EXCEPT !.pc = "scan"]
          ELSE [@ EXCEPT !.pc = "copy"]]
    /\ UNCHANGED <<inodes, media, history, ops>>

\* allocate_data, first part: look for a clear bit.
ScanMap(t) ==
    /\ At(t, "scan")
    /\ IF Bit \subseteq map_data
       THEN thread' = [thread EXCEPT ![t].bit = None, ![t].pc = "copy"]
       ELSE \E b \in Bit : /\ IsFirstZero(map_data, b)
                           /\ thread' = [thread EXCEPT ![t].bit = b, ![t].pc = "mark"]
    /\ UNCHANGED <<inodes, media, history, ops>>

\* A slip in MarkMap: the bit is not set.
MarkMapNot(t) ==
    /\ At(t, "mark")
    /\ thread' = [thread EXCEPT ![t].pc = IF thread[t].bit = max_data THEN "copy" ELSE "place"]
    /\ UNCHANGED <<inodes, media, history, ops>>

\* Second part: set the bit, then compare it with the limit.
MarkMap(t) ==
    /\ At(t, "mark")
    /\ map_data' = map_data \cup {thread[t].bit}
    /\ thread' = [thread EXCEPT ![t].pc = IF thread[t].bit = max_data THEN "copy" ELSE "place"]
    /\ UNCHANGED <<file_size, data_block_no, data, media, history, ops>>

\* A slip in Place: without the break the last free slot gets the block.
PlaceLast(t) ==
    LET f == thread[t].file
        free == {i \in Slot : data_block_no[f][i] = None}
    IN  /\ At(t, "place")
        /\ IF free = {}
           THEN UNCHANGED <<data_block_no, data>>
           ELSE /\ data_block_no' = [data_block_no EXCEPT ![f][Max(free)] = thread[t].bit]
                /\ data' = [data EXCEPT ![f][Max(free)] = Malloced]
        /\ thread' = [thread EXCEPT ![t].bit = None, ![t].pc = "copy"]
        /\ UNCHANGED <<file_size, map_data, media, history, ops>>

\* Third part: the first slot that holds -1 gets the block and its memory.
Place(t) ==
    LET f == thread[t].file
        free == {i \in Slot : data_block_no[f][i] = None}
    IN  /\ At(t, "place")
        /\ IF free = {}
           THEN UNCHANGED <<data_block_no, data>>
           ELSE /\ data_block_no' = [data_block_no EXCEPT ![f][Min(free)] = thread[t].bit]
                /\ data' = [data EXCEPT ![f][Min(free)] = Malloced]
        /\ thread' = [thread EXCEPT ![t].bit = None, ![t].pc = "copy"]
        /\ UNCHANGED <<file_size, map_data, media, history, ops>>

\* The cells the memcpy moves: the rest of the request or of the block.
CopyLen(t) == Min({thread[t].rem, LOGIC_SZ - BlockOffset(t)})

\* The memcpy ends the process when allocate_data has not filled data[block_idx].
Copy(t) ==
    LET th == thread[t]
        f  == th.file
        i  == BlockIdx(t)
        n  == CopyLen(t)
    IN  /\ At(t, "copy")
        /\ UNCHANGED <<file_size, data_block_no, map_data, loaded, disk, disk_inode, sync,
                       ops, extent, grown>>
        /\ IF data[f][i] = Null
           THEN life' = Crashed /\ UNCHANGED <<data, thread, written>>
           ELSE /\ UNCHANGED life
                /\ IF th.op = "write"
                   THEN /\ data' = [data EXCEPT ![f][i] =
                              [k \in Off |-> IF k \in BlockOffset(t) .. BlockOffset(t) + n - 1
                                             THEN th.val ELSE @[k]]]
                        /\ written' = [written EXCEPT ![f] =
                              [o \in DOMAIN @ |-> IF o \in th.cur .. th.cur + n - 1
                                                  THEN th.val ELSE @[o]]]
                   ELSE UNCHANGED <<data, written>>
                /\ thread' = [thread EXCEPT ![t] =
                      [th EXCEPT !.pc = "loop", !.rem = th.rem - n, !.cur = th.cur + n,
                                 !.buf = IF th.op = "write" THEN <<>>
                                         ELSE th.buf \o [k \in 1 .. n |->
                                                  data[f][i][BlockOffset(t) + k - 1]]]]

\* A slip in LoadSize: the file ends where the write ended.
LoadSizeOfWrite(t) ==
    /\ At(t, "load")
    /\ thread' = [thread EXCEPT ![t].pc = "store", ![t].size = thread[t].cur]
    /\ UNCHANGED <<inodes, media, history, ops>>

\* A slip in LoadSize: every write adds to the size.
LoadSizeAdds(t) ==
    /\ At(t, "load")
    /\ thread' = [thread EXCEPT ![t].pc = "store",
                                ![t].size = file_size[thread[t].file] + thread[t].cur]
    /\ UNCHANGED <<inodes, media, history, ops>>

\* "file_size > cur_offset ? file_size : cur_offset" reads, then assigns.
LoadSize(t) ==
    /\ At(t, "load")
    /\ thread' = [thread EXCEPT ![t].pc = "store",
                                ![t].size = Max({file_size[thread[t].file], thread[t].cur})]
    /\ UNCHANGED <<inodes, media, history, ops>>

StoreSize(t) ==
    LET th == thread[t]
    IN  /\ At(t, "store")
        /\ file_size' = [file_size EXCEPT ![th.file] = th.size]
        /\ extent' = IF th.op = "write"
                     THEN [extent EXCEPT ![th.file] = Max({@, th.cur})]
                     ELSE extent
        /\ thread' = [thread EXCEPT ![t] = Idle("ok")]
        /\ UNCHANGED <<data_block_no, data, map_data, media, written, grown, ops>>

\* newfs_truncate only assigns file_size, up or down.
Truncate(t, f, size) ==
    /\ At(t, "idle") /\ f \in loaded /\ ops < MaxOps /\ ~Writing(f)
    /\ file_size' = [file_size EXCEPT ![f] = size]
    /\ extent' = [extent EXCEPT ![f] = size]
    /\ grown' = (grown \/ size > file_size[f])
    /\ ops' = ops + 1
    /\ UNCHANGED <<data_block_no, data, map_data, thread, media, written>>
-------------------------------------------------------------------------------
(***************************************************************************)
(* newfs_destroy runs when no handler does: sync_inode on the files in the *)
(* order of the root's dentry list, newest first in the first mount and,   *)
(* since read_inode also inserts at the head, oldest first in the second.  *)
(***************************************************************************)
Unmount ==
    /\ Mounted /\ \A t \in Thread : thread[t].pc = "idle"
    /\ sync' = IF life = "first" THEN [k \in File |-> NumFiles + 1 - k] ELSE [k \in File |-> k]
    /\ life' = IF life = "first" THEN "syncing" ELSE "resyncing"
    /\ UNCHANGED <<inodes, thread, loaded, disk, disk_inode, history, ops>>

\* A slip in DiskAfter: room for all slots is written from each one.
DiskAfterWholeFile(f) ==
    LET start(i) == data_block_no[f][i] * LOGIC_SZ
        slots(a) == {i \in Slot : /\ data_block_no[f][i] # None
                                  /\ a \in start(i) .. start(i) + FileMax - 1
                                  /\ file_size[f] > 0}
        cell(a)  == LET i == Max(slots(a))
                    IN  IF a - start(i) \in Off THEN data[f][i][a - start(i)] ELSE Junk
    IN  [a \in Address |-> IF slots(a) = {} THEN disk[a] ELSE cell(a)]

(***************************************************************************)
(* The file branch of sync_inode writes file_size cells from every data[i] *)
(* that has a block, each at the start of its block: what does not fit     *)
(* goes over the blocks behind it, and comes from the memory behind        *)
(* data[i].  The slots are written in order, so the last one wins.         *)
(***************************************************************************)
DiskAfter(f) ==
    LET start(i) == data_block_no[f][i] * LOGIC_SZ
        slots(a) == {i \in Slot : /\ data_block_no[f][i] # None
                                  /\ a \in start(i) .. start(i) + file_size[f] - 1}
        cell(a)  == LET i == Max(slots(a))
                    IN  IF a - start(i) \in Off THEN data[f][i][a - start(i)] ELSE Junk
    IN  [a \in Address |-> IF slots(a) = {} THEN disk[a] ELSE cell(a)]

\* A block without memory behind it is a copy from NULL; one of size 0 is not.
SyncCrashes(f) ==
    \E i \in Slot : data_block_no[f][i] # None /\ data[f][i] = Null /\ file_size[f] > 0

SyncFile ==
    LET f == Head(sync)
    IN  /\ life \in {"syncing", "resyncing"} /\ sync # <<>>
        /\ sync' = Tail(sync)
        /\ IF f \in loaded /\ SyncCrashes(f)
           THEN life' = Crashed /\ UNCHANGED <<disk, disk_inode>>
           ELSE /\ UNCHANGED life
                /\ disk' = IF f \in loaded THEN DiskAfter(f) ELSE disk
                /\ disk_inode' = IF f \in loaded
                                 THEN [disk_inode EXCEPT ![f] =
                                         [size |-> file_size[f],
                                          data_block_no |-> data_block_no[f]]]
                                 ELSE disk_inode
        /\ UNCHANGED <<inodes, thread, loaded, history, ops>>

\* The rest of newfs_destroy, which NewfsAllocs models.
FinishUnmount ==
    /\ life \in {"syncing", "resyncing"} /\ sync = <<>>
    /\ life' = IF life = "syncing" THEN "unmounted" ELSE "ended"
    /\ UNCHANGED <<inodes, thread, loaded, disk, disk_inode, sync, history, ops>>

\* newfs_init again: no inode but the root's is in memory.
Remount ==
    /\ life = "unmounted"
    /\ life' = "later"
    /\ loaded' = {}
    /\ file_size' = [f \in File |-> 0]
    /\ data_block_no' = [f \in File |-> [i \in Slot |-> None]]
    /\ data' = [f \in File |-> [i \in Slot |-> Null]]
    /\ thread' = [t \in Thread |-> Idle("none")]
    /\ UNCHANGED <<map_data, disk, disk_inode, sync, history, ops>>

(***************************************************************************)
(* lookup calls read_inode for a file that is not in memory.  The test     *)
(* "data_block_no[i] > -1" compares an unsigned number and is never true,  *)
(* so data[] keeps what malloc returned: NULL, or the address of memory    *)
(* that is not the file's.                                                 *)
(***************************************************************************)
Load(f) ==
    /\ life = "later" /\ f \notin loaded
    /\ loaded' = loaded \cup {f}
    /\ file_size' = [file_size EXCEPT ![f] = disk_inode[f].size]
    /\ data_block_no' = [data_block_no EXCEPT ![f] = disk_inode[f].data_block_no]
    /\ \E pointers \in [Slot -> {Null, Malloced}] : data' = [data EXCEPT ![f] = pointers]
    /\ UNCHANGED <<map_data, thread, disk, disk_inode, life, sync, history, ops>>

Next ==
    \/ \E t \in Thread, f \in File, off \in 0 .. FileMax, len \in 1 .. MaxLen :
          \/ \E v \in Value : Start(t, "write", f, v, off, len)
          \/ Start(t, "read", f, Junk, off, len)
    \/ \E t \in Thread : \/ Loop(t) \/ ScanMap(t) \/ MarkMap(t) \/ Place(t)
                         \/ Copy(t) \/ LoadSize(t) \/ StoreSize(t)
    \/ \E t \in Thread, f \in File, size \in 0 .. FileMax : Truncate(t, f, size)
    \/ Unmount \/ SyncFile \/ FinishUnmount \/ Remount
    \/ \E f \in File : Load(f)

Spec == Init /\ [][Next]_vars
-------------------------------------------------------------------------------
(***************************************************************************)
(* The history variables.  written: the last value a write put in every    *)
(* cell of the file, whether the write as a whole succeeded or not.        *)
(* extent: where a program that only looks at what its writes and          *)
(* truncates returned takes the end of the file to be.  grown: some        *)
(* truncate has made a file longer.                                        *)
(***************************************************************************)

FirstLife == life \in {"first", "syncing", "unmounted"}

(***************************************************************************)
(* In the mount that wrote them, cells read back are the cells last        *)
(* written there, across block boundaries, partial writes and truncates:   *)
(* the index arithmetic of newfs_read agrees with that of newfs_write and  *)
(* with the slots allocate_data fills.                                     *)
(***************************************************************************)
ReadsReturnWrites ==
    life = "first" => \A t \in Thread :
        thread[t].op = "read" => \A k \in 1 .. Len(thread[t].buf) :
            LET o == thread[t].off + k - 1
            IN  written[thread[t].file][o] \in Value
                   => thread[t].buf[k] = written[thread[t].file][o]

(***************************************************************************)
(* The slots of an inode fill from 0 without gaps, and a slot has memory   *)
(* exactly when it has a block.  allocate_data ignores which block_idx the *)
(* caller wants, so this is what makes newfs_write find its block there.   *)
(***************************************************************************)
SlotsInStep ==
    FirstLife => \A f \in File, i \in Slot :
        /\ data[f][i] = Null <=> data_block_no[f][i] = None
        /\ data_block_no[f][i] # None => \A j \in 0 .. i : data_block_no[f][j] # None

(***************************************************************************)
(* In the first mount the process dies in a memcpy only if a truncate has  *)
(* made a file longer (the write behind the hole then wants a slot that    *)
(* allocate_data does not fill) or the data area is used up (allocate_data *)
(* returns without a block and without telling).                           *)
(***************************************************************************)
CrashNeedsHoleOrFullDisk ==
    life = "crashed" => grown \/ MaxData \in map_data

(***************************************************************************)
(* A file is never shorter than the writes that succeeded since it was     *)
(* last truncated, also when an earlier write failed half way.             *)
(***************************************************************************)
SizeCoversWrites == FirstLife => \A f \in File : file_size[f] >= extent[f]

(***************************************************************************)
(* While no file is longer than a block, newfs_destroy leaves every cell   *)
(* of every file in the file's own block, whatever was written after it.   *)
(***************************************************************************)
OnDisk(f) ==
    \A o \in 0 .. disk_inode[f].size - 1 :
        LET b == disk_inode[f].data_block_no[o \div LOGIC_SZ]
        IN  b # None => disk[b * LOGIC_SZ + (o % LOGIC_SZ)] = data[f][o \div LOGIC_SZ][o % LOGIC_SZ]

SmallFilesReachDisk ==
    life = "unmounted" /\ (\A f \in File : file_size[f] <= LOGIC_SZ)
        => \A f \in File : disk_inode[f].size = file_size[f] /\ OnDisk(f)

\* No two slots of the files hold one data block.
BlocksNotShared ==
    \A f, g \in File, i, j \in Slot :
        /\ data_block_no[f][i] = data_block_no[g][j]
        /\ data_block_no[f][i] # None
        => f = g /\ i = j

(***************************************************************************)
(* remount.sh takes it that newfs_destroy writes the data to their place   *)
(* in the data area.  sync_inode writes file_size bytes per block, so the  *)
(* last block of a long file runs over the block behind it.                *)
(***************************************************************************)
DataReachesDisk == life = "unmounted" => \A f \in File : OnDisk(f)
===============================================================================
