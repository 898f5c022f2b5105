--------------------------------- MODULE Newfs ---------------------------------
(***************************************************************************)
(* The namespace of newfs: the tree of dentries and inodes in memory, its  *)
(* image on the disk, and the handlers that move between the two - lookup, *)
(* mkdir, mknod, getattr, readdir, newfs_init and newfs_destroy - with     *)
(* crashes between any two writes.                                         *)
(*                                                                         *)
(* File contents and all block slots but the first of a directory are left *)
(* to NewfsFile.  The kernel calls a handler on a path only after it has   *)
(* looked up every directory on the way, and it holds the lock of the      *)
(* directory meanwhile: handlers are not interleaved here.                 *)
(***************************************************************************)
EXTENDS Bitmap, Sequences, SequencesExt

CONSTANTS
    Name,       \* names of files and directories
    StartsWith, \* the pairs <<n, m>> such that name n begins with name m
    MaxIno,     \* super.max_ino of a new disk: blocks of the inode area
    MaxData,    \* super.max_data of a new disk
    Cells,      \* dentries that fit a block
    MaxDepth,   \* bound: components of a path
    MaxMade     \* bound: dentries created in a behaviour

ASSUME NameAssumption == \A n \in Name : <<n, n>> \in StartsWith
ASSUME AreaAssumption == MaxIno \in 1 .. MapBits - 1 /\ MaxData \in 1 .. MapBits - 1
ASSUME CellsAssumption == Cells \in Nat \ {0}
ASSUME BoundAssumption == MaxDepth \in Nat /\ MaxMade \in Nat

VARIABLES
    dentry,    \* in memory: the dentries, 1 being the root's
    inode,     \* in memory: the inodes, 1 being the root's
    super,     \* in memory: limits and bitmaps
    disk,      \* on disk: magic, bitmaps, and the cells of the two areas
    pc,        \* "unmounted", "mounted", or a stage of newfs_destroy
    work,      \* the stack of sync_inode's recursion
    ls,        \* a directory listing under way
    confused,  \* bytes of one type have been read as another
    spoilt,    \* history: which of "torn", "outside" and "overfull" happened
    live,      \* history: what mkdir and mknod have promised since
    durable,   \* history: what the last complete newfs_destroy has saved
    made       \* bound: dentries created so far

vars == <<dentry, inode, super, disk, pc, work, ls, confused, spoilt, live, durable, made>>
-------------------------------------------------------------------------------
Path     == UNION {[1 .. k -> Name] : k \in 1 .. MaxDepth}
FileType == {"NFS_REG_FILE", "NFS_DIR"}
NULL     == 0
Root     == 1
BlockNo  == Bit \cup {None}

Dentry == [name : Name \cup {"/"}, ino : BlockNo, file_type : FileType, inode : Nat]
Inode  == [ino : BlockNo, dentry : Nat \ {0}, dir_dentry_cnt : 0 .. MaxMade,
           dentries : Seq(Nat \ {0}), data_block_no : BlockNo]

\* The two areas in cells; number -1 of an area lies in front of it.
INO_OFS(ino)    == ino * Cells
\* A slip in DENTRY_OFS: the data area starts one block too early.
DENTRY_OFS_TooLow(no) == (MaxIno + no - 1) * Cells

DENTRY_OFS(no)  == (MaxIno + no) * Cells
Address         == 0 .. (MaxIno + MapBits + 1) * Cells - 1

Zero == [type |-> "zero"]
InodeD(i)  == [type |-> "inode", ino |-> i.ino, dir_dentry_cnt |-> i.dir_dentry_cnt,
               data_block_no |-> i.data_block_no]
DentryD(d) == [type |-> "dentry", name |-> d.name, ino |-> d.ino, file_type |-> d.file_type]

\* What a cell of the disk may hold, and what it holds.
Holds(a, type) == a \in Address /\ disk.cell[a].type = type

DiskCell == {Zero} \cup
            [type : {"inode"}, ino : BlockNo, dir_dentry_cnt : 0 .. MaxMade,
             data_block_no : BlockNo] \cup
            [type : {"dentry"}, name : Name, ino : BlockNo, file_type : FileType]

Destroying == {"sync", "super", "map_inode", "map_data"}

NoListing == [on |-> FALSE, path |-> <<>>, offset |-> 0, had |-> {}, seen |-> {}]

(***************************************************************************)
(* What the properties make allowance for: a crash inside newfs_destroy    *)
(* over a file system the disk already held, an inode or block number      *)
(* refused or outside its area, and a directory of more dentries than its  *)
(* block holds.                                                            *)
(***************************************************************************)
Mishap == {"torn", "outside", "overfull"}

TypeOK ==
    /\ dentry \in Seq(Dentry) /\ inode \in Seq(Inode)
    /\ \A d \in DOMAIN dentry : /\ dentry[d].inode \in {NULL} \cup DOMAIN inode
                                /\ d # Root => dentry[d].name \in Name
    /\ \A i \in DOMAIN inode : /\ inode[i].dentry \in DOMAIN dentry
                               /\ ToSet(inode[i].dentries) \subseteq DOMAIN dentry \ {Root}
                               /\ inode[i].dir_dentry_cnt = Len(inode[i].dentries)
                               /\ inode[i].dir_dentry_cnt <= made
    /\ super \in [max_ino : {0, MaxIno}, max_data : {0, MaxData},
                 map_inode : SUBSET Bit, map_data : SUBSET Bit]
    /\ disk \in [magic : BOOLEAN, map_inode : SUBSET Bit, map_data : SUBSET Bit,
                cell : [Address -> DiskCell]]
    /\ \A a \in Address : Holds(a, "inode") => disk.cell[a].dir_dentry_cnt <= made
    /\ pc \in {"unmounted", "read_root", "mounted"} \cup Destroying
    /\ work \in Seq([inode : DOMAIN inode, next : Nat])
    /\ ls \in [on : BOOLEAN, path : Path \cup {<<>>}, offset : 0 .. made,
              had : SUBSET Name, seen : SUBSET Name]
    /\ confused \in BOOLEAN /\ spoilt \subseteq Mishap
    /\ live \subseteq Path \X FileType /\ durable \subseteq Path \X FileType
    /\ made \in 0 .. MaxMade
-------------------------------------------------------------------------------
NoSuper == [max_ino |-> 0, max_data |-> 0, map_inode |-> {}, map_data |-> {}]

Init ==
    /\ dentry = <<>> /\ inode = <<>> /\ super = NoSuper
    /\ disk = [magic |-> FALSE, map_inode |-> {}, map_data |-> {},
               cell |-> [a \in Address |-> Zero]]
    /\ pc = "unmounted" /\ work = <<>> /\ ls = NoListing
    /\ confused = FALSE /\ spoilt = {}
    /\ live = {} /\ durable = {} /\ made = 0

(***************************************************************************)
(* lookup: the walk from the root, one component at a time.  A component   *)
(* matches the first dentry of the list whose name begins with it (memcmp  *)
(* over strlen(fname)).  find is the set of values *is_find may have: it   *)
(* is not assigned when the walk meets a regular file.                     *)
(***************************************************************************)
Matches(d, fname) == <<dentry[d].name, fname>> \in StartsWith

Hits(i, fname) == {k \in DOMAIN i.dentries : Matches(i.dentries[k], fname)}

\* A slip in Walk: any hit ends the walk, at whatever level.
WalkStopsAtHit(acc, fname) ==
    LET lvl == acc.lvl + 1
        i   == inode[dentry[acc.cur].inode]
        hit == Hits(i, fname)
    IN  IF acc.stop THEN acc
        ELSE IF dentry[acc.cur].inode = NULL
        THEN [acc EXCEPT !.stop = TRUE, !.null = TRUE]
        ELSE IF hit = {}
        THEN [acc EXCEPT !.stop = TRUE, !.find = {FALSE}, !.ret = i.dentry]
        ELSE [acc EXCEPT !.stop = TRUE, !.find = {TRUE}, !.ret = i.dentries[Min(hit)]]

Walk(acc, fname) ==
    LET lvl == acc.lvl + 1
        i   == inode[dentry[acc.cur].inode]
        hit == Hits(i, fname)
    IN  IF acc.stop THEN acc
        ELSE IF dentry[acc.cur].inode = NULL
        THEN [acc EXCEPT !.stop = TRUE, !.null = TRUE]
        ELSE IF dentry[i.dentry].file_type = "NFS_REG_FILE"
        THEN [acc EXCEPT !.stop = TRUE, !.find = BOOLEAN,
                         !.ret = IF lvl < acc.total THEN i.dentry ELSE @]
        ELSE IF hit = {}
        THEN [acc EXCEPT !.stop = TRUE, !.find = {FALSE}, !.ret = i.dentry]
        ELSE IF lvl = acc.total
        THEN [acc EXCEPT !.stop = TRUE, !.find = {TRUE}, !.ret = i.dentries[Min(hit)]]
        ELSE [acc EXCEPT !.lvl = lvl, !.cur = i.dentries[Min(hit)], !.ret = i.dentry]

WalkStart(path) == [cur |-> Root, ret |-> Root, find |-> {TRUE}, lvl |-> 0,
                    total |-> Len(path), stop |-> FALSE, null |-> FALSE]

lookup(path) ==
    LET walk[k \in 0 .. Len(path)] ==
            IF k = 0 THEN WalkStart(path) ELSE Walk(walk[k - 1], path[k])
    IN  walk[Len(path)]

\* newfs_access asked with F_OK; every other mode is granted.
newfs_access(path) == lookup(path).find = {TRUE}

-------------------------------------------------------------------------------
(***************************************************************************)
(* read_inode for dentry d: its inode from the disk, and for a directory   *)
(* a fresh dentry per child; allocate_dentry puts each at the head of the  *)
(* list, which comes out reversed.  Bytes that are not what the code takes *)
(* them for leave the memory as it was and raise confused: the model does  *)
(* not follow the program any further.                                     *)
(***************************************************************************)
ChildCells(i) ==
    IF i.data_block_no = None THEN {}
    ELSE {DENTRY_OFS(i.data_block_no) + k : k \in 0 .. i.dir_dentry_cnt - 1}

Readable(d) ==
    /\ d.ino # None /\ Holds(INO_OFS(d.ino), "inode")
    /\ d.file_type = "NFS_DIR" =>
           \A a \in ChildCells(disk.cell[INO_OFS(d.ino)]) : Holds(a, "dentry")

OnDisk(d) == disk.cell[INO_OFS(d.ino)]

ChildCount(d) ==
    IF d.file_type = "NFS_DIR" /\ OnDisk(d).data_block_no # None
    THEN OnDisk(d).dir_dentry_cnt ELSE 0

\* The children of d in disk order, not yet loaded themselves.
ChildrenOnDisk(d) ==
    LET cell(k)  == disk.cell[DENTRY_OFS(OnDisk(d).data_block_no) + k - 1]
        child(k) == [name |-> cell(k).name, ino |-> cell(k).ino,
                     file_type |-> cell(k).file_type, inode |-> NULL]
    IN  [k \in 1 .. ChildCount(d) |-> child(k)]

Memory == [dentry |-> dentry, inode |-> inode, confused |-> FALSE]

read_inode(d) ==
    LET kids == ChildrenOnDisk(dentry[d])
        i    == [ino |-> OnDisk(dentry[d]).ino, dentry |-> d,
                 dir_dentry_cnt |-> Len(kids),
                 dentries |-> Reverse([k \in DOMAIN kids |-> Len(dentry) + k]),
                 data_block_no |-> OnDisk(dentry[d]).data_block_no]
    IN  IF Readable(dentry[d])
        THEN [dentry |-> [dentry EXCEPT ![d].inode = Len(inode) + 1] \o kids,
              inode |-> Append(inode, i), confused |-> FALSE]
        ELSE [Memory EXCEPT !.confused = TRUE]

\* The end of lookup: the dentry it returns gets its inode.
Fetch(d) == IF dentry[d].inode = NULL THEN read_inode(d) ELSE Memory

Remember(m) == dentry' = m.dentry /\ inode' = m.inode /\ confused' = m.confused
-------------------------------------------------------------------------------
\* allocate_inode: the number and the first block of a new inode.
allocate_inode(s, ft) ==
    UNION {IF ft = "NFS_DIR" /\ r.no # None
           THEN {[ino |-> r.no, block |-> b.no,
                  super |-> [s EXCEPT !.map_inode = r.map, !.map_data = b.map]] :
                    b \in Scan(s.map_data, s.max_data)}
           ELSE {[ino |-> r.no, block |-> None, super |-> [s EXCEPT !.map_inode = r.map]]} :
               r \in Scan(s.map_inode, s.max_ino)}

Outside(a, ft) ==
    \/ a.ino \notin 0 .. MaxIno - 1
    \/ ft = "NFS_DIR" /\ a.block \notin 0 .. MaxData - 1

\* A slip in allocate_dentry: the old list is not hung behind the new dentry.
allocate_dentry_LosesList(m, p, name, ft, a) ==
    LET d == Len(m.dentry) + 1
        i == IF a.ino = None THEN NULL ELSE Len(m.inode) + 1
        linked == [m.inode EXCEPT ![p].dentries = <<d>>, ![p].dir_dentry_cnt = @ + 1]
    IN  [m EXCEPT
            !.dentry = Append(@, [name |-> name, ino |-> a.ino, file_type |-> ft, inode |-> i]),
            !.inode  = IF i = NULL THEN linked
                       ELSE Append(linked, [ino |-> a.ino, dentry |-> d, dir_dentry_cnt |-> 0,
                                            dentries |-> <<>>, data_block_no |-> a.block])]

\* A slip in allocate_dentry: a refused inode is pointed to.
allocate_dentry_Dangling(m, p, name, ft, a) ==
    LET d == Len(m.dentry) + 1
        linked == [m.inode EXCEPT ![p].dentries = <<d>> \o @, ![p].dir_dentry_cnt = @ + 1]
    IN  [m EXCEPT
            !.dentry = Append(@, [name |-> name, ino |-> a.ino, file_type |-> ft,
                                  inode |-> Len(m.inode) + 1]),
            !.inode  = IF a.ino = None THEN linked
                       ELSE Append(linked, [ino |-> a.ino, dentry |-> d, dir_dentry_cnt |-> 0,
                                            dentries |-> <<>>, data_block_no |-> a.block])]

(***************************************************************************)
(* The new dentry at the head of p's list.  A refused inode leaves the     *)
(* dentry with ino -1 and no inode, and it is linked all the same.         *)
(***************************************************************************)
allocate_dentry(m, p, name, ft, a) ==
    LET d == Len(m.dentry) + 1
        i == IF a.ino = None THEN NULL ELSE Len(m.inode) + 1
        linked == [m.inode EXCEPT ![p].dentries = <<d>> \o @, ![p].dir_dentry_cnt = @ + 1]
    IN  [m EXCEPT
            !.dentry = Append(@, [name |-> name, ino |-> a.ino, file_type |-> ft, inode |-> i]),
            !.inode  = IF i = NULL THEN linked
                       ELSE Append(linked, [ino |-> a.ino, dentry |-> d, dir_dentry_cnt |-> 0,
                                            dentries |-> <<>>, data_block_no |-> a.block])]

\* newfs_mkdir and newfs_mknod from the point where they create.
Make(path, m, p, ft) ==
    \E a \in allocate_inode(super, ft) :
        /\ super' = a.super
        /\ Remember(allocate_dentry(m, p, Last(path), ft, a))
        /\ live' = live \cup {<<path, ft>>}
        /\ made' = made + 1
        /\ spoilt' = spoilt \cup (IF Outside(a, ft) THEN {"outside"} ELSE {})
                            \cup (IF m.inode[p].dir_dentry_cnt >= Cells THEN {"overfull"} ELSE {})

\* The kernel knows every directory above path, and no inode is missing.
Reachable(path) ==
    /\ \A k \in 1 .. Len(path) - 1 : <<SubSeq(path, 1, k), "NFS_DIR">> \in live
    /\ ~lookup(path).null

Serving(path) == pc = "mounted" /\ ~confused /\ Reachable(path)

\* newfs_getattr (and each handler that fails after its lookup).
newfs_getattr(path) ==
    /\ Serving(path)
    /\ dentry[lookup(path).ret].inode = NULL
    /\ Remember(Fetch(lookup(path).ret))
    /\ UNCHANGED <<super, disk, pc, work, ls, spoilt, live, durable, made>>

\* Only newfs_mkdir looks at the type of the parent.
Refuses(ft, parent) == ft = "NFS_DIR" /\ parent.file_type = "NFS_REG_FILE"

Create(path, ft) ==
    /\ Serving(path) /\ made < MaxMade
    /\ LET r == lookup(path)
           m == Fetch(r.ret)
       IN  /\ FALSE \in r.find
           /\ ~Refuses(ft, dentry[r.ret])
           /\ IF m.confused
              THEN Remember(m) /\ UNCHANGED <<super, live, made, spoilt>>
              ELSE Make(path, m, m.dentry[r.ret].inode, ft)
    /\ UNCHANGED <<disk, pc, work, ls, durable>>

newfs_mkdir(path) == Create(path, "NFS_DIR")
newfs_mknod(path) == Create(path, "NFS_REG_FILE")

(***************************************************************************)
(* newfs_readdir, one call: the dentry at the offset, if there is one.     *)
(* The kernel repeats it with the next offset until nothing comes back.    *)
(***************************************************************************)
Promised(path) == {n \in Name : \E ft \in FileType : <<Append(path, n), ft>> \in live}

Cursor(path) == IF ls.on THEN ls
                ELSE [NoListing EXCEPT !.on = TRUE, !.path = path, !.had = Promised(path)]

\* A slip in get_dentry: the count starts behind the first dentry.
get_dentry_FromSecond(m, i, dir) ==
    IF dir + 1 < Len(m.inode[i].dentries)
    THEN {m.dentry[m.inode[i].dentries[dir + 2]].name} ELSE {}

get_dentry(m, i, dir) ==
    IF dir < Len(m.inode[i].dentries) THEN {m.dentry[m.inode[i].dentries[dir + 1]].name} ELSE {}

newfs_readdir(path) ==
    /\ Serving(path) /\ (ls.on => path = ls.path)
    /\ LET r   == lookup(path)
           m   == Fetch(r.ret)
           sub == get_dentry(m, m.dentry[r.ret].inode, Cursor(path).offset)
       IN  /\ TRUE \in r.find
           /\ m.dentry[r.ret].file_type = "NFS_DIR"
           /\ Remember(m)
           /\ ls' = IF m.confused \/ sub = {} THEN NoListing
                    ELSE [Cursor(path) EXCEPT !.offset = @ + 1, !.seen = @ \cup sub]
    /\ UNCHANGED <<super, disk, pc, work, spoilt, live, durable, made>>
-------------------------------------------------------------------------------
(***************************************************************************)
(* newfs_init.  Without the magic number it allocates the root and writes  *)
(* its inode; then, in both cases, it reads inode 0.  The limits are only  *)
(* computed for a new disk: otherwise they keep the zero of static data.   *)
(***************************************************************************)
RootDentry == [name |-> "/", ino |-> 0, file_type |-> "NFS_DIR", inode |-> NULL]

RootInode(a) == [type |-> "inode", ino |-> a.ino, dir_dentry_cnt |-> 0,
                 data_block_no |-> a.block]

FormatNew ==
    /\ pc = "unmounted" /\ ~disk.magic
    /\ \E a \in allocate_inode([max_ino |-> MaxIno, max_data |-> MaxData,
                                map_inode |-> disk.map_inode,
                                map_data |-> disk.map_data], "NFS_DIR") :
          /\ super' = a.super
          /\ disk' = [disk EXCEPT !.cell[INO_OFS(a.ino)] = RootInode(a)]
    /\ dentry' = <<RootDentry>>
    /\ pc' = "read_root"
    /\ UNCHANGED <<inode, work, ls, confused, spoilt, live, durable, made>>

MountOld ==
    /\ pc = "unmounted" /\ disk.magic
    /\ super' = [NoSuper EXCEPT !.map_inode = disk.map_inode, !.map_data = disk.map_data]
    /\ dentry' = <<RootDentry>>
    /\ pc' = "read_root"
    /\ UNCHANGED <<inode, disk, work, ls, confused, spoilt, live, durable, made>>

ReadRoot ==
    /\ pc = "read_root" /\ ~confused
    /\ Remember(read_inode(Root))
    /\ pc' = "mounted"
    /\ UNCHANGED <<super, disk, work, ls, spoilt, live, durable, made>>
-------------------------------------------------------------------------------
(***************************************************************************)
(* newfs_destroy: sync_inode(root), then the super block and the bitmaps.  *)
(* A frame of work is a call of sync_inode: the inode, and which of its    *)
(* dentries is written next, 0 when the inode itself is not written yet.   *)
(* A regular file has no dentries to write.                                *)
(***************************************************************************)
Frame(i) == [inode |-> i, next |-> 0]

newfs_destroy ==
    /\ pc = "mounted" /\ ~confused
    /\ pc' = "sync"
    /\ work' = <<Frame(dentry[Root].inode)>>
    /\ ls' = NoListing
    /\ UNCHANGED <<dentry, inode, super, disk, confused, spoilt, live, durable, made>>

Below(i) == IF dentry[inode[i].dentry].file_type = "NFS_DIR" THEN inode[i].dentries ELSE <<>>

\* A slip in ChildAt: the offset does not advance from dentry to dentry.
ChildAtStart(i, k) == DENTRY_OFS(inode[i].data_block_no)

\* Where the kth dentry of directory i is written.
ChildAt(i, k) == DENTRY_OFS(inode[i].data_block_no) + k - 1

WriteInode(f) ==
    /\ f.next = 0
    /\ disk' = [disk EXCEPT !.cell[INO_OFS(inode[f.inode].ino)] = InodeD(inode[f.inode])]
    /\ work' = <<[f EXCEPT !.next = 1]>> \o Tail(work)

\* A dentry, and when it is loaded the call for its inode.
WriteDentry(f) ==
    /\ f.next \in DOMAIN Below(f.inode)
    /\ LET d == dentry[Below(f.inode)[f.next]]
       IN  /\ disk' = [disk EXCEPT !.cell[ChildAt(f.inode, f.next)] = DentryD(d)]
           /\ work' = (IF d.inode = NULL THEN <<>> ELSE <<Frame(d.inode)>>)
                          \o <<[f EXCEPT !.next = @ + 1]>> \o Tail(work)

Return(f) ==
    /\ f.next = Len(Below(f.inode)) + 1
    /\ work' = Tail(work)
    /\ UNCHANGED disk

sync_inode ==
    /\ pc = "sync" /\ work # <<>>
    /\ WriteInode(Head(work)) \/ WriteDentry(Head(work)) \/ Return(Head(work))
    /\ UNCHANGED <<dentry, inode, super, pc, ls, confused, spoilt, live, durable, made>>

EndSync ==
    /\ pc = "sync" /\ work = <<>>
    /\ pc' = "super"
    /\ UNCHANGED <<dentry, inode, super, disk, work, ls, confused, spoilt, live, durable, made>>

WriteSuper ==
    /\ pc = "super"
    /\ disk' = [disk EXCEPT !.magic = TRUE]
    /\ pc' = "map_inode"
    /\ UNCHANGED <<dentry, inode, super, work, ls, confused, spoilt, live, durable, made>>

WriteMapInode ==
    /\ pc = "map_inode"
    /\ disk' = [disk EXCEPT !.map_inode = super.map_inode]
    /\ pc' = "map_data"
    /\ UNCHANGED <<dentry, inode, super, work, ls, confused, spoilt, live, durable, made>>

\* The process ends here.
Exit == dentry' = <<>> /\ inode' = <<>> /\ super' = NoSuper /\ work' = <<>>
        /\ ls' = NoListing /\ confused' = FALSE /\ pc' = "unmounted"

WriteMapData ==
    /\ pc = "map_data"
    /\ disk' = [disk EXCEPT !.map_data = super.map_data]
    /\ durable' = live
    /\ Exit
    /\ UNCHANGED <<spoilt, live, made>>

\* The daemon is killed: what the disk holds is all that is left.
Crash ==
    /\ pc # "unmounted"
    /\ Exit
    /\ spoilt' = spoilt \cup (IF pc \in Destroying /\ disk.magic THEN {"torn"} ELSE {})
    /\ live' = durable
    /\ UNCHANGED <<disk, durable, made>>

Next ==
    \/ \E path \in Path : newfs_mkdir(path) \/ newfs_mknod(path) \/ newfs_getattr(path)
    \/ \E path \in Path \cup {<<>>} : newfs_readdir(path)
    \/ FormatNew \/ MountOld \/ ReadRoot
    \/ newfs_destroy \/ sync_inode \/ EndSync \/ WriteSuper \/ WriteMapInode \/ WriteMapData
    \/ Crash

Spec == Init /\ [][Next]_vars
-------------------------------------------------------------------------------
\* What is below dentry d: in memory as far as it is loaded, then on disk.
Children(d) ==
    IF d.inode # NULL THEN {dentry[c] : c \in ToSet(inode[d.inode].dentries)}
    ELSE IF Readable(d) THEN ToSet(ChildrenOnDisk(d))
    ELSE {}

Descendants(root) ==
    LET level[k \in 0 .. MaxDepth] ==
            IF k = 0 THEN {<<<<>>, root>>}
            ELSE UNION {{<<Append(x[1], c.name), c>> : c \in Children(x[2])} : x \in level[k - 1]}
    IN  UNION {level[k] : k \in 1 .. MaxDepth}

Tree(root) == {<<x[1], x[2].file_type>> : x \in Descendants(root)}

(***************************************************************************)
(* TreeIsPromised: without a mishap, what can be reached from the root of  *)
(* a mounted file system, in memory and beyond it on the disk, is what     *)
(* mkdir and mknod have answered 0 for - through any number of unmounts,   *)
(* remounts and partial loads (lookup, read_inode, allocate_dentry).       *)
(***************************************************************************)
TreeIsPromised ==
    pc = "mounted" /\ spoilt = {} => Tree(dentry[Root]) = live

(***************************************************************************)
(* DiskIsPromised: without a mishap, whenever newfs_destroy is not         *)
(* running the disk alone holds what the last complete newfs_destroy       *)
(* found, even though it has written only the inodes that were loaded      *)
(* (sync_inode) and whatever crash came since.                             *)
(***************************************************************************)
DiskIsPromised ==
    pc \notin Destroying /\ spoilt = {} =>
        (IF disk.magic THEN Tree(RootDentry) ELSE {}) = durable

(***************************************************************************)
(* LookupIsExact: without a mishap, lookup finds a path exactly when that  *)
(* path has been created, loaded or not, and newfs_access answers so       *)
(* (newfs_util.c lookup).                                                  *)
(***************************************************************************)
LookupIsExact ==
    pc = "mounted" /\ spoilt = {} =>
        \A path \in Path :
            LET there == \E ft \in FileType : <<path, ft>> \in live
            IN  Reachable(path) => lookup(path).find = {there} /\ newfs_access(path) = there

(***************************************************************************)
(* ConfusedNeedsMishap: read_inode takes bytes for what they are not only  *)
(* after a torn newfs_destroy, a number outside its area, or a directory   *)
(* of more dentries than its block holds.                                  *)
(***************************************************************************)
ConfusedNeedsMishap == confused => spoilt # {}

(***************************************************************************)
(* ListingMissesNone: a listing that runs to its end without a mishap has  *)
(* returned every name that was there at its start, whatever was created   *)
(* in between (newfs_readdir counts dentries from the head of a list that  *)
(* allocate_dentry grows at its head).                                     *)
(***************************************************************************)
ListingMissesNone ==
    [][ls.on /\ ~ls'.on /\ pc' = "mounted" /\ ~confused' /\ spoilt = {} =>
           ls.had \subseteq ls.seen]_vars
===============================================================================
