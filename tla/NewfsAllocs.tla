------------------------------ MODULE NewfsAllocs ------------------------------
(***************************************************************************)
(* The allocator of newfs (newfs_allocs.c) over the life of a disk: who    *)
(* owns which inode number and which data block, through mounts, clean     *)
(* unmounts and crashes.                                                   *)
(*                                                                         *)
(* tree is the tree of dentries as an allocator sees it: a function from   *)
(* the dentries that are linked to the inode each points to.  Names,       *)
(* nesting and file contents are left to the modules Newfs and NewfsFile.  *)
(* newfs has no unlink, rmdir or rename (the operations table holds NULL   *)
(* for them), so nothing is ever given back.                               *)
(***************************************************************************)
EXTENDS Bitmap, FiniteSets

CONSTANTS
    Dentry,        \* the dentries that may be created
    Root,          \* the one newfs_init creates
    MaxIno,        \* super.max_ino  as newfs_init computes it for a new disk
    MaxData,       \* super.max_data as newfs_init computes it for a new disk
    DATA_PER_FILE  \* the number of block slots of an inode

ASSUME RootAssumption == Root \in Dentry
\* The inode area and the data area are non-empty and smaller than a bitmap.
ASSUME LimitAssumption == MaxIno \in 1 .. MapBits - 1 /\ MaxData \in 1 .. MapBits - 1
ASSUME SlotAssumption  == DATA_PER_FILE \in Nat \ {0}

VARIABLES
    super,  \* in memory: the two limits and the two bitmaps
    tree,   \* in memory: the inode of every linked dentry
    fresh,  \* the dentries whose inode was allocated since the last mount
    disk,   \* on disk: magic, the two bitmaps and the tree
    pc,     \* "unmounted", "mounted", or how far newfs_destroy has come
    torn    \* history: a crash has cut newfs_destroy in two

vars == <<super, tree, fresh, disk, pc, torn>>
-------------------------------------------------------------------------------
Slot     == 0 .. DATA_PER_FILE - 1
FileType == {"NFS_REG_FILE", "NFS_DIR"}
BlockNo  == Bit \cup {None}

Inode == [ino : Bit \cup {None}, file_type : FileType, data_block_no : [Slot -> BlockNo]]
Super == [max_ino : {0, MaxIno}, max_data : {0, MaxData},
          map_inode : SUBSET Bit, map_data : SUBSET Bit]

IsTree(t) == DOMAIN t \subseteq Dentry /\ t \in [DOMAIN t -> Inode]
EmptyTree == [d \in {} |-> None]

\* The writes of newfs_destroy that are done while the process still runs it.
Destroying == {"synced", "super", "map_inode"}

TypeOK ==
    /\ super \in Super
    /\ IsTree(tree)
    /\ fresh \subseteq Dentry
    /\ disk \in [magic : BOOLEAN, map_inode : SUBSET Bit, map_data : SUBSET Bit,
                 tree : {disk.tree}]
    /\ IsTree(disk.tree)
    /\ pc \in {"unmounted", "mounted"} \cup Destroying
    /\ torn \in BOOLEAN
-------------------------------------------------------------------------------
\* Inode numbers and data blocks a tree refers to.
Inos(t)   == {t[d].ino : d \in DOMAIN t} \ {None}
Blocks(t) == {t[d].data_block_no[i] : d \in DOMAIN t, i \in Slot} \ {None}

NoBlocks == [i \in Slot |-> None]

\* The first slot whose data_block_no is -1.
IsFreeSlot(blocks, i) == blocks[i] = None /\ \A j \in 0 .. i - 1 : blocks[j] # None

HasFreeSlot(blocks) == \E i \in Slot : blocks[i] = None

\* The block a new inode starts with: a directory asks for one at once.
FirstBlock(s, ft, ino) ==
    IF ft = "NFS_DIR" /\ ino # None
    THEN Scan(s.map_data, s.max_data)
    ELSE {[map |-> s.map_data, no |-> None]}

\* A slip in allocate_inode: data_block_no is reset after the first block came.
allocate_inode_ResetsLate(s, ft) ==
    UNION {{[inode |-> [ino |-> r.no, file_type |-> ft, data_block_no |-> NoBlocks],
             super |-> [s EXCEPT !.map_inode = r.map, !.map_data = b.map]] :
               b \in FirstBlock(s, ft, r.no)} :
                   r \in Scan(s.map_inode, s.max_ino)}

(***************************************************************************)
(* allocate_inode for a dentry of type ft: the inode and the super block   *)
(* it leaves.  On refusal the dentry keeps ino -1 and has no inode, and    *)
(* the callers link it all the same; when only the block is refused,       *)
(* nobody is told.                                                         *)
(***************************************************************************)
allocate_inode(s, ft) ==
    UNION {{[inode |-> [ino |-> r.no, file_type |-> ft,
                        data_block_no |-> [NoBlocks EXCEPT ![0] = b.no]],
             super |-> [s EXCEPT !.map_inode = r.map, !.map_data = b.map]] :
               b \in FirstBlock(s, ft, r.no)} :
                   r \in Scan(s.map_inode, s.max_ino)}

\* A slip in Place: the test for -1 is missing, slot 0 is always the one.
PlaceInSlot0(blocks, no) ==
    IF no = None THEN {blocks} ELSE {[blocks EXCEPT ![0] = no]}

(***************************************************************************)
(* allocate_data: the block goes to the first slot that holds -1, whatever *)
(* block_idx the caller wanted; without such a slot the bit stays set and  *)
(* the block belongs to nobody.                                            *)
(***************************************************************************)
Place(blocks, no) ==
    IF no = None \/ ~HasFreeSlot(blocks)
    THEN {blocks}
    ELSE {[blocks EXCEPT ![i] = no] : i \in {j \in Slot : IsFreeSlot(blocks, j)}}

\* Linking dentry d with inode r (allocate_dentry in the parent's list).
Link(t, d, r) == [x \in DOMAIN t \cup {d} |-> IF x = d THEN r ELSE t[x]]
-------------------------------------------------------------------------------
NewDisk == [magic |-> FALSE, map_inode |-> {}, map_data |-> {}, tree |-> EmptyTree]
NoSuper == [max_ino |-> 0, max_data |-> 0, map_inode |-> {}, map_data |-> {}]

\* A zeroed device and no process.
Init ==
    /\ super = NoSuper /\ tree = EmptyTree /\ fresh = {}
    /\ disk = NewDisk
    /\ pc = "unmounted"
    /\ torn = FALSE

(***************************************************************************)
(* newfs_init on a disk without the magic number computes the limits,      *)
(* takes the bitmaps as they are on the disk, allocates the root and       *)
(* writes its inode; the magic number is left to newfs_destroy.            *)
(***************************************************************************)
MountNew ==
    /\ pc = "unmounted" /\ ~disk.magic
    /\ \E a \in allocate_inode([max_ino |-> MaxIno, max_data |-> MaxData,
                                map_inode |-> disk.map_inode,
                                map_data |-> disk.map_data], "NFS_DIR") :
          /\ super' = a.super
          /\ tree' = Link(EmptyTree, Root, a.inode)
          /\ disk' = [disk EXCEPT !.tree = tree']
    /\ fresh' = {}
    /\ pc' = "mounted"
    /\ UNCHANGED torn

\* newfs_init on a disk that has it reads all back, except the two limits.
MountOld ==
    /\ pc = "unmounted" /\ disk.magic
    /\ super' = [max_ino |-> 0, max_data |-> 0,
                 map_inode |-> disk.map_inode, map_data |-> disk.map_data]
    /\ tree' = disk.tree
    /\ fresh' = {}
    /\ pc' = "mounted"
    /\ UNCHANGED <<disk, torn>>

\* newfs_mkdir and newfs_mknod: a new dentry, with or without an inode.
Create(d, ft) ==
    /\ pc = "mounted" /\ d \notin DOMAIN tree
    /\ \E a \in allocate_inode(super, ft) :
          /\ super' = a.super
          /\ tree' = Link(tree, d, a.inode)
    /\ fresh' = fresh \cup {d}
    /\ UNCHANGED <<disk, pc, torn>>

(***************************************************************************)
(* allocate_data as newfs_write and newfs_read call it: for a regular file *)
(* with data[block_idx] = NULL.  In an inode allocated since the mount     *)
(* that means a slot is free; in one that read_inode built, data[] is      *)
(* never initialised and may be NULL in every slot.                        *)
(***************************************************************************)
AllocateData(d) ==
    /\ pc = "mounted" /\ d \in DOMAIN tree
    /\ tree[d].file_type = "NFS_REG_FILE" /\ tree[d].ino # None
    /\ d \notin fresh \/ HasFreeSlot(tree[d].data_block_no)
    /\ \E r \in Scan(super.map_data, super.max_data) :
          /\ super' = [super EXCEPT !.map_data = r.map]
          /\ \E blocks \in Place(tree[d].data_block_no, r.no) :
                tree' = [tree EXCEPT ![d].data_block_no = blocks]
    /\ UNCHANGED <<fresh, disk, pc, torn>>

\* The four writes of newfs_destroy, in its order.
SyncRoot ==
    /\ pc = "mounted"
    /\ disk' = [disk EXCEPT !.tree = tree]
    /\ pc' = "synced"
    /\ UNCHANGED <<super, tree, fresh, torn>>

WriteSuper ==
    /\ pc = "synced"
    /\ disk' = [disk EXCEPT !.magic = TRUE]
    /\ pc' = "super"
    /\ UNCHANGED <<super, tree, fresh, torn>>

WriteMapInode ==
    /\ pc = "super"
    /\ disk' = [disk EXCEPT !.map_inode = super.map_inode]
    /\ pc' = "map_inode"
    /\ UNCHANGED <<super, tree, fresh, torn>>

\* The process ends after the last write: what it had in memory is gone.
Gone == super' = NoSuper /\ tree' = EmptyTree /\ fresh' = {} /\ pc' = "unmounted"

\* A slip in WriteMapData: the other bitmap is written.
WriteMapDataWrongMap ==
    /\ pc = "map_inode"
    /\ disk' = [disk EXCEPT !.map_data = super.map_inode]
    /\ Gone
    /\ UNCHANGED torn

WriteMapData ==
    /\ pc = "map_inode"
    /\ disk' = [disk EXCEPT !.map_data = super.map_data]
    /\ Gone
    /\ UNCHANGED torn

(***************************************************************************)
(* The process is killed.  A crash inside newfs_destroy is the one that    *)
(* can leave a tree on the disk whose numbers its bitmaps do not know;     *)
(* before the first magic number is written that tree is not read again.   *)
(***************************************************************************)
Crash ==
    /\ pc # "unmounted"
    /\ Gone
    /\ torn' = (torn \/ (pc \in Destroying /\ disk.magic))
    /\ UNCHANGED disk

Next ==
    \/ MountNew \/ MountOld
    \/ \E d \in Dentry, ft \in FileType : Create(d, ft)
    \/ \E d \in Dentry : AllocateData(d)
    \/ SyncRoot \/ WriteSuper \/ WriteMapInode \/ WriteMapData
    \/ Crash

Spec == Init /\ [][Next]_vars
-------------------------------------------------------------------------------
\* No two dentries of t have one inode number, no two slots one data block.
InoUnique(t) ==
    \A d, e \in DOMAIN t : t[d].ino = t[e].ino /\ t[d].ino # None => d = e

BlockUnique(t) ==
    \A d, e \in DOMAIN t, i, j \in Slot :
        /\ t[d].data_block_no[i] = t[e].data_block_no[j]
        /\ t[d].data_block_no[i] # None
        => d = e /\ i = j

Covers(map_inode, map_data, t) == Inos(t) \subseteq map_inode /\ Blocks(t) \subseteq map_data

(***************************************************************************)
(* Two files or directories never share an inode number or a data block,   *)
(* whatever the interleaving of creations, writes, unmounts, mounts and    *)
(* crashes, unless a crash has cut newfs_destroy in two.  Were it broken,  *)
(* sync_inode would write one file over another.                           *)
(***************************************************************************)
OwnedOnce == torn \/ (InoUnique(tree) /\ BlockUnique(tree))

(***************************************************************************)
(* What the next mount will read is safe to allocate from: on a disk with  *)
(* the magic number, and with no newfs_destroy under way or cut in two,    *)
(* every number the tree refers to is marked in the bitmaps.  This is what *)
(* the write order of newfs_destroy has to keep.                           *)
(***************************************************************************)
DiskMapsCoverTree ==
    disk.magic /\ pc \notin Destroying /\ ~torn
        => Covers(disk.map_inode, disk.map_data, disk.tree)

(***************************************************************************)
(* While the limits of newfs_init are in force (the first mount) and none  *)
(* has been hit, every inode lies in the inode area and every block in the *)
(* data area.  INO_OFS of a larger number is an offset inside the data     *)
(* area, so such an inode would be written over a data block.              *)
(***************************************************************************)
InsideAreas ==
    /\ super.max_ino = MaxIno /\ MaxIno \notin super.map_inode
          => \A n \in Inos(tree) : n < MaxIno
    /\ super.max_data = MaxData /\ MaxData \notin super.map_data
          => \A n \in Blocks(tree) : n < MaxData

(***************************************************************************)
(* In the first mount the scan wastes nothing but the number it refuses:   *)
(* every other marked bit belongs to a linked dentry.  (After a remount    *)
(* allocate_data also wastes a block whenever no slot is free.)            *)
(***************************************************************************)
OnlyRefusedBitsLeak ==
    super.max_ino = MaxIno =>
        /\ super.map_inode \subseteq Inos(tree) \cup {MaxIno}
        /\ super.map_data \subseteq Blocks(tree) \cup {MaxData}

(***************************************************************************)
(* While mounted, no operation takes an inode number or a block from a     *)
(* dentry that has it, nor moves a block to another slot: data[] is        *)
(* indexed by slot and would no longer agree with data_block_no[].         *)
(***************************************************************************)
Keeps(old, new) ==
    \A d \in DOMAIN old :
        /\ d \in DOMAIN new
        /\ new[d].ino = old[d].ino
        /\ \A i \in Slot : old[d].data_block_no[i] # None
              => new[d].data_block_no[i] = old[d].data_block_no[i]

GrantsAreKept == [][pc # "unmounted" /\ pc' # "unmounted" => Keeps(tree, tree')]_vars
===============================================================================
