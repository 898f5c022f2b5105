------------------------------- MODULE Simplefs -------------------------------
(***************************************************************************)
(* simplefs, the sample file system newfs was derived from, with the       *)
(* operations newfs lacks: unlink, rmdir, rename, symlink.  Every inode    *)
(* number owns a fixed slot of the disk, one block for the inode and the   *)
(* blocks of its data right behind, so one bitmap allocates both.          *)
(*                                                                         *)
(* The README starts simplefs with -s: handlers are not interleaved.  The  *)
(* kernel asks for every directory on a path, and for what the path itself *)
(* is, before it calls a handler on it.                                    *)
(***************************************************************************)
EXTENDS Bitmap, FiniteSets, Sequences, SequencesExt

CONSTANTS
    Name,       \* names of files, directories and links
    StartsWith, \* the pairs <<n, m>> such that name n begins with name m
    Target,     \* what a symbolic link may point to
    Byte,       \* the values of a run of bytes
    Junk,       \* what malloc leaves in memory
    MaxIno,     \* super.max_ino of a new disk
    Cells,      \* dentries, or runs of bytes, in the data blocks of a slot
    MaxDepth,   \* bound: components of a path
    MaxOps,     \* bound: calls that change the file system
    Op,         \* the calls made
    Mishaps     \* bound: the mishaps a behaviour may meet

ASSUME NameAssumption == \A n \in Name : <<n, n>> \in StartsWith
ASSUME AreaAssumption == MaxIno \in 1 .. MapBits - 1 /\ Cells \in Nat \ {0}
ASSUME BoundAssumption == MaxDepth \in Nat /\ MaxOps \in Nat
ASSUME JunkAssumption == Junk \notin Byte \cup Target

VARIABLES
    mem,       \* in memory: dentries, inodes, the bitmap and its limit
    disk,      \* on disk: magic, bitmap and the cells of all slots
    pc,        \* "unmounted", "read_root", "mounted", or a stage of sfs_umount
    work,      \* the stack of sfs_sync_inode's recursion
    fault,     \* undefined behaviour the program has met
    spoilt,    \* history: which mishaps have happened
    live,      \* history: what the calls have promised
    durable,   \* history: what the last complete sfs_umount has saved
    ops        \* bound: changing calls so far

vars == <<mem, disk, pc, work, fault, spoilt, live, durable, ops>>
-------------------------------------------------------------------------------
Path     == UNION {[1 .. k -> Name] : k \in 1 .. MaxDepth}
FileType == {"SFS_REG_FILE", "SFS_DIR", "SFS_SYM_LINK"}
NULL     == 0
Root     == 1

Dentry == [fname : Name \cup {"/"}, parent : Nat, ino : Bit \cup {None}, inode : Nat,
           ftype : FileType]
\* data is <<>> where the code leaves the pointer as malloc returned it.
Inode  == [ino : Bit, size : Nat, target_path : Target \cup {Junk}, dentry : Nat,
           dentrys : Seq(Nat), data : Seq(Byte \cup {Junk})]

\* A slip in SFS_INO_OFS: the block of the inode is not counted.
SFS_INO_OFS_NoInode(ino) == ino * Cells

\* SFS_INO_OFS and SFS_DATA_OFS in cells: the inode takes the first of a slot.
SFS_INO_OFS(ino)  == ino * (1 + Cells)
SFS_DATA_OFS(ino) == SFS_INO_OFS(ino) + 1

\* The medium reaches behind the last slot: a crowded directory runs on there.
Address == 0 .. SFS_INO_OFS(MapBits + 1) - 1

Zero == [type |-> "zero"]
InodeD(i)   == [type |-> "inode", ino |-> i.ino, size |-> i.size,
                target_path |-> i.target_path, dir_cnt |-> Len(i.dentrys)]
DentryD(d)  == [type |-> "dentry", fname |-> d.fname, ftype |-> d.ftype, ino |-> d.ino]
DataD(byte) == [type |-> "data", byte |-> byte]

DiskCell == {Zero} \cup
            [type : {"inode"}, ino : Bit, size : Nat, target_path : Target \cup {Junk},
             dir_cnt : Nat] \cup
            [type : {"dentry"}, fname : Name \cup {"/"}, ftype : FileType, ino : Bit \cup {None}] \cup
            [type : {"data"}, byte : Byte \cup {Junk}]

NoMemory == [dentry |-> <<>>, inode |-> <<>>, map_inode |-> {}, max_ino |-> 0]
Umounting == {"sync", "super", "map_inode"}

\* Node: what a path has been promised to be.
Fresh(ft)  == [ftype |-> ft, size |-> 0, target |-> Junk, data |-> [k \in 1 .. Cells |-> Junk]]
Node       == [ftype : FileType, size : Nat, target : Target \cup {Junk},
               data : [1 .. Cells -> Byte \cup {Junk}]]

(***************************************************************************)
(* What the properties make allowance for: a crash inside sfs_umount over  *)
(* a disk that could be mounted, a refused inode number, a directory with  *)
(* more dentries than its slot holds, the removal of a directory whose     *)
(* entries are not loaded, the renaming of a symbolic link, the removal of *)
(* one that was read from the disk, and a write past the last data block.  *)
(***************************************************************************)
Mishap == {"torn", "refused", "overfull", "unloaded", "moved link", "old link", "long"}
Fault  == {"none", "confused", "null", "bad free", "overrun"}

ASSUME MishapAssumption == Mishaps \subseteq Mishap

TypeOK ==
    /\ mem \in [dentry : [DOMAIN mem.dentry -> Dentry], inode : [DOMAIN mem.inode -> Inode],
               map_inode : SUBSET Bit, max_ino : {0, MaxIno}]
    /\ disk \in [magic : BOOLEAN, map_inode : SUBSET Bit, cell : [Address -> DiskCell]]
    /\ pc \in {"unmounted", "read_root", "mounted"} \cup Umounting
    /\ work \in Seq([inode : DOMAIN mem.inode, next : Nat])
    /\ fault \in Fault /\ spoilt \subseteq Mishaps
    /\ live \in [DOMAIN live -> Node] /\ DOMAIN live \subseteq Path
    /\ durable \in [DOMAIN durable -> Node] /\ DOMAIN durable \subseteq Path
    /\ ops \in 0 .. MaxOps
-------------------------------------------------------------------------------
(***************************************************************************)
(* The heap: the dentries and inodes malloc has given out and free has not *)
(* taken back, by number.  What nothing points to any more is still there. *)
(***************************************************************************)
Top(f) == Max(DOMAIN f \cup {0})
With(f, x, v) == [y \in DOMAIN f \cup {x} |-> IF y = x THEN v ELSE f[y]]

\* SFS_IS_DIR and its like ask the dentry the inode points back to.
Is(m, i, ft) == m.dentry[m.inode[i].dentry].ftype = ft

\* The dentries in the list of the inode of d.
Entries(m, d) ==
    IF d \in DOMAIN m.dentry /\ m.dentry[d].inode \in DOMAIN m.inode
    THEN ToSet(m.inode[m.dentry[d].inode].dentrys) ELSE {}

\* The dentries below inode i, in any number of steps.
BelowInode(m, i) ==
    LET below[k \in 0 .. Top(m.dentry)] ==
            IF k = 0 THEN ToSet(m.inode[i].dentrys)
            ELSE below[k - 1] \cup UNION {Entries(m, d) : d \in below[k - 1]}
    IN  below[Top(m.dentry)]

\* sfs_alloc_dentry: a new dentry at the head of inode i's list.
sfs_alloc_dentry(m, i, rec) ==
    LET d == Top(m.dentry) + 1
    IN  [m EXCEPT !.dentry = With(@, d, rec), !.inode[i].dentrys = <<d>> \o @]

Places(list, d) == {k \in DOMAIN list : list[k] = d}

\* A slip in sfs_drop_dentry: what follows the dentry is dropped with it.
sfs_drop_dentry_Rest(m, i, d) ==
    [m EXCEPT !.inode[i].dentrys = SubSeq(@, 1, Min(Places(@, d) \cup {Len(@) + 1}) - 1)]

\* A slip in sfs_drop_dentry: the dentry is freed, and sfs_rename still has a pointer to it.
sfs_drop_dentry_Frees(m, i, d) ==
    [m EXCEPT !.inode[i].dentrys = SelectSeq(@, LAMBDA c : c # d),
              !.dentry = Restrict(@, DOMAIN @ \ {d})]

\* sfs_drop_dentry: inode i no longer lists d; nothing happens when it does not.
sfs_drop_dentry(m, i, d) ==
    [m EXCEPT !.inode[i].dentrys = IF Places(@, d) = {} THEN @ ELSE RemoveAt(@, Min(Places(@, d)))]

(***************************************************************************)
(* sfs_alloc_inode: when no number is to be had the dentry keeps ino -1    *)
(* and no inode, and the caller does not notice.                           *)
(***************************************************************************)
NewInode(no, d, ft) ==
    [ino |-> no, size |-> 0, target_path |-> Junk, dentry |-> d, dentrys |-> <<>>,
     data |-> IF ft = "SFS_REG_FILE" THEN [k \in 1 .. Cells |-> Junk] ELSE <<>>]

sfs_alloc_inode(m, d) ==
    LET s == CHOOSE s \in Scan(m.map_inode, m.max_ino) : TRUE
        i == Top(m.inode) + 1
    IN  IF s.no = None THEN [m EXCEPT !.map_inode = s.map]
        ELSE [m EXCEPT !.map_inode = s.map,
                       !.inode = With(@, i, NewInode(s.no, d, m.dentry[d].ftype)),
                       !.dentry[d].inode = i, !.dentry[d].ino = s.no]

\* The inodes sfs_drop_inode meets.
Dropped(m, i) == {i} \cup {m.dentry[d].inode : d \in BelowInode(m, i)}

\* A slip in sfs_drop_inode: only the bit of i itself is cleared.
sfs_drop_inode_OneBit(m, i) ==
    LET gone == Dropped(m, i)
    IN  [m EXCEPT
            !.map_inode = @ \ {m.inode[i].ino},
            !.dentry = Restrict(@, DOMAIN @ \ BelowInode(m, i)),
            !.inode  = [j \in {j \in DOMAIN @ : j \in gone => Is(m, j, "SFS_DIR")} |->
                           IF j \in gone THEN [@[j] EXCEPT !.dentrys = <<>>] ELSE @[j]]]

(***************************************************************************)
(* sfs_drop_inode: the subtree's bits are cleared, its dentries and the    *)
(* inodes that are not directories are freed.  The root is left alone.     *)
(***************************************************************************)
sfs_drop_inode(m, i) ==
    LET gone == Dropped(m, i)
    IN  IF i = m.dentry[Root].inode THEN m
        ELSE [m EXCEPT
                !.map_inode = @ \ {m.inode[j].ino : j \in gone},
                !.dentry = Restrict(@, DOMAIN @ \ BelowInode(m, i)),
                !.inode  = [j \in {j \in DOMAIN @ : j \in gone => Is(m, j, "SFS_DIR")} |->
                               IF j \in gone THEN [@[j] EXCEPT !.dentrys = <<>>] ELSE @[j]]]

(***************************************************************************)
(* The recursion takes the inode of every entry for loaded.  A symbolic    *)
(* link read from the disk has a data pointer nobody set: it is NULL or    *)
(* free() gets a pointer malloc never gave.                                *)
(***************************************************************************)
DropFaults(m, i) ==
    IF NULL \in Dropped(m, i) THEN {"null"}
    ELSE IF \E j \in Dropped(m, i) : ~Is(m, j, "SFS_DIR") /\ m.inode[j].data = <<>>
    THEN {"none", "bad free"} ELSE {"none"}
-------------------------------------------------------------------------------
\* sfs_driver_read of what lies at a; Holds: the bytes have the type the code takes them for.
sfs_driver_read(a) == disk.cell[a]
Holds(a, type)     == a \in Address /\ sfs_driver_read(a).type = type

EntryCells(ino) == {SFS_DATA_OFS(ino) + k : k \in 0 .. sfs_driver_read(SFS_INO_OFS(ino)).dir_cnt - 1}

Readable(d) ==
    /\ d.ino # None /\ Holds(SFS_INO_OFS(d.ino), "inode")
    /\ d.ftype = "SFS_DIR" => \A a \in EntryCells(d.ino) : Holds(a, "dentry")

EntryCount(d) == IF d.ftype = "SFS_DIR" THEN sfs_driver_read(SFS_INO_OFS(d.ino)).dir_cnt ELSE 0

DataOnDisk(ino) ==
    [k \in 1 .. Cells |-> LET c == sfs_driver_read(SFS_DATA_OFS(ino) + k - 1)
                          IN  IF c.type = "data" THEN c.byte ELSE Junk]

\* The inode of dentry d, its entries being the dentries behind top, last first.
InodeFrom(m, d, top) ==
    LET me  == m.dentry[d]
        raw == sfs_driver_read(SFS_INO_OFS(me.ino))
        n   == EntryCount(me)
    IN  [ino |-> raw.ino, size |-> raw.size, target_path |-> raw.target_path, dentry |-> d,
         dentrys |-> [k \in 1 .. n |-> top + n + 1 - k],
         data |-> IF me.ftype = "SFS_REG_FILE" THEN DataOnDisk(me.ino) ELSE <<>>]

EntryFrom(c, parent) ==
    [fname |-> c.fname, parent |-> parent, ino |-> c.ino, inode |-> NULL, ftype |-> c.ftype]

(***************************************************************************)
(* sfs_read_inode for dentry d: its inode, and for a directory a dentry    *)
(* per entry, each put at the head of the list, which comes out reversed.  *)
(* Bytes of another type leave the memory as it was (see ReadFault).       *)
(***************************************************************************)
sfs_read_inode(m, d) ==
    LET ino == m.dentry[d].ino
        i   == Top(m.inode) + 1
        top == Top(m.dentry)
        old == [m.dentry EXCEPT ![d].inode = i]
    IN  IF ~Readable(m.dentry[d]) THEN m
        ELSE [m EXCEPT
                !.inode  = With(@, i, InodeFrom(m, d, top)),
                !.dentry = [x \in DOMAIN @ \cup top + 1 .. top + EntryCount(@[d]) |->
                               IF x \in DOMAIN @ THEN old[x]
                               ELSE EntryFrom(sfs_driver_read(SFS_DATA_OFS(ino) + x - top - 1), d)]]

\* The end of sfs_lookup: the dentry it returns gets its inode.
Fetch(m, d)     == IF m.dentry[d].inode = NULL THEN sfs_read_inode(m, d) ELSE m
ReadFault(m, d) == IF m.dentry[d].inode = NULL /\ ~Readable(m.dentry[d]) THEN "confused" ELSE "none"
-------------------------------------------------------------------------------
(***************************************************************************)
(* sfs_lookup: the walk from the root, one component at a time.  find is   *)
(* the set of values *is_find may have: it is not assigned on every way    *)
(* out.  null: a directory on the way has no inode (its sfs_read_inode is  *)
(* called there, but the result is dropped).                               *)
(***************************************************************************)
sfs_calc_lvl(path)  == Len(path)
sfs_get_fname(path) == Last(path)

Matches(m, d, fname) == <<m.dentry[d].fname, fname>> \in StartsWith

Hits(m, i, fname) == {k \in DOMAIN m.inode[i].dentrys : Matches(m, m.inode[i].dentrys[k], fname)}

Walk(m, acc, fname) ==
    LET lvl == acc.lvl + 1
        i   == m.dentry[acc.cur].inode
        hit == m.inode[i].dentrys[Min(Hits(m, i, fname))]
    IN  IF acc.stop THEN acc
        ELSE IF i = NULL THEN [acc EXCEPT !.stop = TRUE, !.null = TRUE]
        ELSE IF Is(m, i, "SFS_REG_FILE") /\ lvl < acc.total
        THEN [acc EXCEPT !.stop = TRUE, !.ret = m.inode[i].dentry]
        ELSE IF ~Is(m, i, "SFS_DIR") THEN [acc EXCEPT !.lvl = lvl]
        ELSE IF Hits(m, i, fname) = {}
        THEN [acc EXCEPT !.stop = TRUE, !.find = {FALSE}, !.ret = m.inode[i].dentry]
        ELSE IF lvl = acc.total
        THEN [acc EXCEPT !.stop = TRUE, !.find = {TRUE}, !.ret = hit]
        ELSE [acc EXCEPT !.lvl = lvl, !.cur = hit, !.ret = m.inode[i].dentry]

WalkStart(path) ==
    [cur |-> Root, ret |-> Root, lvl |-> 0, total |-> sfs_calc_lvl(path),
     find |-> IF path = <<>> THEN {TRUE} ELSE BOOLEAN, stop |-> FALSE, null |-> FALSE]

sfs_lookup(m, path) ==
    LET walk[k \in 0 .. Len(path)] ==
            IF k = 0 THEN WalkStart(path) ELSE Walk(m, walk[k - 1], path[k])
    IN  walk[Len(path)]
-------------------------------------------------------------------------------
(***************************************************************************)
(* What the handlers answer, from memory m in which the path is loaded.    *)
(***************************************************************************)
\* sfs_access asked with F_OK; every other mode is granted.
sfs_access(m, path) == sfs_lookup(m, path).find = {TRUE}

InodeAt(m, path) == m.inode[m.dentry[sfs_lookup(m, path).ret].inode]

\* sfs_getattr: type, and size in bytes or in dentries.
sfs_getattr(m, path) ==
    LET i == InodeAt(m, path)
        ft == m.dentry[i.dentry].ftype
    IN  [ftype |-> ft, size |-> IF ft = "SFS_DIR" THEN Len(i.dentrys) ELSE i.size]

\* sfs_read of one run of bytes: an error behind size, but no stop at size.
sfs_read(m, path, offset) ==
    IF InodeAt(m, path).size < offset THEN "ESPIPE" ELSE InodeAt(m, path).data[offset + 1]

\* sfs_readlink asks the dentry, not the inode, for the type.
sfs_readlink(m, path) ==
    IF m.dentry[sfs_lookup(m, path).ret].ftype # "SFS_SYM_LINK" THEN "EINVAL"
    ELSE InodeAt(m, path).target_path

sfs_get_dentry(m, i, dir) ==
    IF dir < Len(m.inode[i].dentrys) THEN {m.inode[i].dentrys[dir + 1]} ELSE {}

\* sfs_readdir, one call: the name at the offset, or nothing.
sfs_readdir(m, path, offset) ==
    {m.dentry[d].fname : d \in sfs_get_dentry(m, m.dentry[sfs_lookup(m, path).ret].inode, offset)}
-------------------------------------------------------------------------------
(***************************************************************************)
(* What the kernel has been told before it calls a handler: what the path  *)
(* is, or that it is absent, in a directory it knows.                      *)
(***************************************************************************)
Shows(m, path, ft) ==
    LET r == sfs_lookup(m, path)
    IN  ~r.null /\ r.find = {TRUE} /\ m.dentry[r.ret].inode # NULL /\ Is(m, m.dentry[r.ret].inode, ft)

InKnownDir(m, path) == \A k \in 1 .. Len(path) - 1 : Shows(m, SubSeq(path, 1, k), "SFS_DIR")

KnownAs(path, ft) == InKnownDir(mem, path) /\ Shows(mem, path, ft)
KnownAbsent(path) == InKnownDir(mem, path) /\ sfs_lookup(mem, path).find = {FALSE}

Serving == pc = "mounted" /\ fault = "none"

\* A call that changes the file system, bounded.
Changing(op) == Serving /\ op \in Op /\ ops < MaxOps /\ ops' = ops + 1

Spoil(condition, mishap) == IF condition THEN {mishap} ELSE {}
Spoils(mishaps) == mishaps \subseteq Mishaps /\ spoilt' = spoilt \cup mishaps

\* sfs_getattr loads what it is asked for; so does every handler's sfs_lookup.
Getattr(path) ==
    /\ Serving /\ InKnownDir(mem, path) /\ sfs_access(mem, path)
    /\ LET d == sfs_lookup(mem, path).ret
       IN  /\ mem.dentry[d].inode = NULL
           /\ mem' = sfs_read_inode(mem, d)
           /\ fault' = ReadFault(mem, d)
    /\ UNCHANGED <<disk, pc, work, spoilt, live, durable, ops>>

\* sfs_mkdir and sfs_mknod behind their checks: the dentry, its inode, the link.
Make(m, path, ft) ==
    LET p == sfs_lookup(m, path).ret
    IN  sfs_alloc_inode(sfs_alloc_dentry(m, m.dentry[p].inode,
                            [fname |-> sfs_get_fname(path), parent |-> p, ino |-> None,
                             inode |-> NULL, ftype |-> ft]),
                        Top(m.dentry) + 1)

\* The mishaps of a new dentry: no number, or no room in the parent's slot.
MakeSpoils(path) ==
    Spoil(\E s \in Scan(mem.map_inode, mem.max_ino) : s.no = None, "refused") \cup
    Spoil(Len(InodeAt(mem, path).dentrys) >= Cells, "overfull")

Create(path, ft) ==
    /\ KnownAbsent(path)
    /\ mem' = Make(mem, path, ft)
    /\ Spoils(MakeSpoils(path))
    /\ UNCHANGED <<disk, pc, work, fault, durable>>

sfs_mkdir(path) ==
    Changing("mkdir") /\ Create(path, "SFS_DIR") /\ live' = With(live, path, Fresh("SFS_DIR"))

sfs_mknod(path) ==
    Changing("mknod") /\ Create(path, "SFS_REG_FILE")
                      /\ live' = With(live, path, Fresh("SFS_REG_FILE"))

\* sfs_symlink: a regular file whose dentry then becomes a link.
sfs_symlink(target, path) ==
    LET made == Make(mem, path, "SFS_REG_FILE")
        d    == sfs_lookup(made, path).ret
    IN  /\ Changing("symlink") /\ KnownAbsent(path)
        /\ mem' = IF made.dentry[d].inode = NULL THEN made
                  ELSE [made EXCEPT !.dentry[d].ftype = "SFS_SYM_LINK",
                                    !.inode[made.dentry[d].inode].target_path = target]
        /\ fault' = ReadFault(made, d)
        /\ Spoils(MakeSpoils(path))
        /\ live' = With(live, path, [Fresh("SFS_SYM_LINK") EXCEPT !.target = target])
        /\ UNCHANGED <<disk, pc, work, durable>>

(***************************************************************************)
(* sfs_unlink, which sfs_rmdir calls for a directory, empty or not: the    *)
(* inode goes first, then the dentry leaves the list of the directory its  *)
(* parent pointer leads to.                                                *)
(***************************************************************************)
Unlink(path, ft) ==
    LET d == sfs_lookup(mem, path).ret
        i == mem.dentry[d].inode
        faults == DropFaults(mem, i)
    IN  /\ KnownAs(path, ft)
        /\ fault' \in faults
        /\ mem' = IF "null" \in faults THEN mem
                  ELSE sfs_drop_dentry(sfs_drop_inode(mem, i), mem.dentry[mem.dentry[d].parent].inode, d)
        /\ Spoils(Spoil("null" \in faults, "unloaded") \cup Spoil("bad free" \in faults, "old link"))
        /\ live' = Restrict(live, {p \in DOMAIN live : ~IsPrefix(path, p)})
        /\ UNCHANGED <<disk, pc, work, durable>>

sfs_unlink(path) ==
    Changing("unlink") /\ \E ft \in {"SFS_REG_FILE", "SFS_SYM_LINK"} : Unlink(path, ft)

sfs_rmdir(path) == Changing("rmdir") /\ Unlink(path, "SFS_DIR")

\* A slip in Relink: the new dentry keeps the number it was created with.
RelinkOldNumber(m, d, i) == [m EXCEPT !.dentry[d].inode = i]

Relink(m, d, i) == [m EXCEPT !.dentry[d].inode = i, !.dentry[d].ino = m.inode[i].ino]

Moved(from, to, p) == IF IsPrefix(from, p) THEN to \o SubSeq(p, Len(from) + 1, Len(p)) ELSE p

MovedTree(from, to) ==
    [q \in {Moved(from, to, p) : p \in DOMAIN live} |->
        live[CHOOSE p \in DOMAIN live : Moved(from, to, p) = q]]

(***************************************************************************)
(* sfs_rename: the new name is created with an inode of its own, that      *)
(* inode is dropped, the dentry is pointed to the old inode (which goes on *)
(* pointing back to the old dentry), and the old dentry is unlinked.  A    *)
(* name that exists stays as it is.  mode is 0 for a link, so its new      *)
(* dentry is a regular file's.                                             *)
(***************************************************************************)
sfs_rename(from, to) ==
    LET f    == sfs_lookup(mem, from).ret
        i    == mem.dentry[f].inode
        made == Make(mem, to, IF Is(mem, i, "SFS_DIR") THEN "SFS_DIR" ELSE "SFS_REG_FILE")
        t    == sfs_lookup(made, to).ret
    IN  /\ Changing("rename")
        /\ \E ft \in FileType : KnownAs(from, ft)
        /\ KnownAbsent(to) /\ ~IsPrefix(from, to)
        /\ \A p \in DOMAIN live : Len(Moved(from, to, p)) <= MaxDepth
        /\ mem' = IF made.dentry[t].inode = NULL THEN made
                  ELSE sfs_drop_dentry(Relink(sfs_drop_inode(made, made.dentry[t].inode), t, i),
                                  mem.dentry[mem.dentry[f].parent].inode, f)
        /\ fault' = ReadFault(made, t)
        /\ Spoils(MakeSpoils(to) \cup Spoil(Is(mem, i, "SFS_SYM_LINK"), "moved link"))
        /\ live' = MovedTree(from, to)
        /\ UNCHANGED <<disk, pc, work, durable>>

Written(size, data, offset, n, byte) ==
    [size |-> IF offset + n > size THEN offset + n ELSE size,
     data |-> [k \in DOMAIN data |-> IF k \in offset + 1 .. offset + n THEN byte ELSE data[k]]]

\* sfs_write: no write behind the size; past the data blocks memcpy leaves the buffer.
sfs_write(path, offset, n, byte) ==
    LET i == mem.dentry[sfs_lookup(mem, path).ret].inode
        w == Written(mem.inode[i].size, mem.inode[i].data, offset, n, byte)
        past == offset + n > Cells
    IN  /\ Changing("write") /\ KnownAs(path, "SFS_REG_FILE")
        /\ offset <= mem.inode[i].size
        /\ mem' = IF past THEN mem
                  ELSE [mem EXCEPT !.inode[i].size = w.size, !.inode[i].data = w.data]
        /\ fault' = IF past THEN "overrun" ELSE "none"
        /\ Spoils(Spoil(past, "long"))
        /\ live' = IF path \notin DOMAIN live THEN live
                   ELSE [live EXCEPT ![path].size = Max({@, offset + n}),
                                     ![path].data = [k \in 1 .. Cells |->
                                         IF k > offset /\ k <= offset + n THEN byte ELSE @[k]]]
        /\ UNCHANGED <<disk, pc, work, durable>>

\* sfs_truncate sets the size; what lies behind it is promised no longer.
sfs_truncate(path, size) ==
    LET i == mem.dentry[sfs_lookup(mem, path).ret].inode
    IN  /\ Changing("truncate") /\ KnownAs(path, "SFS_REG_FILE")
        /\ mem' = [mem EXCEPT !.inode[i].size = size]
        /\ live' = IF path \notin DOMAIN live THEN live
                   ELSE [live EXCEPT ![path].size = size,
                                     ![path].data = [k \in 1 .. Cells |-> IF k > size THEN Junk ELSE @[k]]]
        /\ UNCHANGED <<disk, pc, work, fault, spoilt, durable>>
-------------------------------------------------------------------------------
(***************************************************************************)
(* sfs_mount.  Without the magic number the root gets an inode, which is   *)
(* written; then, in both cases, inode 0 is read.  The limit is computed   *)
(* for a new disk only: otherwise it keeps the zero of static data.        *)
(***************************************************************************)
RootDentry == [fname |-> "/", parent |-> NULL, ino |-> 0, inode |-> NULL, ftype |-> "SFS_DIR"]

FirstMemory(map, max) ==
    [dentry |-> <<RootDentry>>, inode |-> <<>>, map_inode |-> map, max_ino |-> max]

FormatNew ==
    LET m == sfs_alloc_inode(FirstMemory(disk.map_inode, MaxIno), Root)
    IN  /\ pc = "unmounted" /\ ~disk.magic
        /\ disk' = [disk EXCEPT !.cell[SFS_INO_OFS(m.dentry[Root].ino)] =
                                    InodeD(m.inode[m.dentry[Root].inode])]
        /\ mem' = [m EXCEPT !.dentry[Root].inode = NULL, !.inode = <<>>]
        /\ pc' = "read_root"
        /\ UNCHANGED <<work, fault, spoilt, live, durable, ops>>

OldMemory == FirstMemory(disk.map_inode, 0)

MountOld ==
    /\ pc = "unmounted" /\ disk.magic
    /\ mem' = OldMemory
    /\ pc' = "read_root"
    /\ UNCHANGED <<disk, work, fault, spoilt, live, durable, ops>>

ReadRoot ==
    /\ pc = "read_root" /\ fault = "none"
    /\ mem' = sfs_read_inode(mem, Root)
    /\ fault' = ReadFault(mem, Root)
    /\ pc' = "mounted"
    /\ UNCHANGED <<disk, work, spoilt, live, durable, ops>>
-------------------------------------------------------------------------------
(***************************************************************************)
(* sfs_umount: sfs_sync_inode(root), the super block, the bitmap.  A frame *)
(* of work is a call of sfs_sync_inode: the inode, and which of the writes *)
(* below it comes next, 0 when the inode itself is not written yet.        *)
(***************************************************************************)
Frame(i) == [inode |-> i, next |-> 0]

sfs_umount ==
    /\ Serving
    /\ pc' = "sync"
    /\ work' = <<Frame(mem.dentry[Root].inode)>>
    /\ UNCHANGED <<mem, disk, fault, spoilt, live, durable, ops>>

\* The writes below inode i: its dentries, or its data in one go.
Writes(i) ==
    IF Is(mem, i, "SFS_DIR") THEN Len(mem.inode[i].dentrys)
    ELSE IF Is(mem, i, "SFS_REG_FILE") THEN 1 ELSE 0

\* One sfs_driver_write: the cells from at on get what contents holds, and no others.
sfs_driver_write(at, contents) ==
    disk' = [disk EXCEPT !.cell = [a \in Address |->
                IF a - at + 1 \in DOMAIN contents THEN contents[a - at + 1] ELSE @[a]]]

\* The stack once call f has made a write: it goes on with the next one, or returns.
Rest(f) ==
    IF f.next >= Writes(f.inode) THEN Tail(work) ELSE <<[f EXCEPT !.next = @ + 1]>> \o Tail(work)

WriteInode(f) ==
    /\ f.next = 0
    /\ sfs_driver_write(SFS_INO_OFS(mem.inode[f.inode].ino), <<InodeD(mem.inode[f.inode])>>)
    /\ work' = Rest(f)

\* A dentry, and when it is loaded the call for its inode.
WriteDentry(f) ==
    /\ Is(mem, f.inode, "SFS_DIR") /\ f.next \in 1 .. Writes(f.inode)
    /\ LET i == mem.inode[f.inode]
           d == mem.dentry[i.dentrys[f.next]]
       IN  /\ sfs_driver_write(SFS_DATA_OFS(i.ino) + f.next - 1, <<DentryD(d)>>)
           /\ work' = (IF d.inode = NULL THEN <<>> ELSE <<Frame(d.inode)>>) \o Rest(f)

WriteData(f) ==
    /\ Is(mem, f.inode, "SFS_REG_FILE") /\ f.next = 1
    /\ LET i == mem.inode[f.inode]
       IN  sfs_driver_write(SFS_DATA_OFS(i.ino), [k \in 1 .. Cells |-> DataD(i.data[k])])
    /\ work' = Rest(f)

sfs_sync_inode ==
    /\ pc = "sync" /\ work # <<>>
    /\ LET f == Head(work) IN WriteInode(f) \/ WriteDentry(f) \/ WriteData(f)
    /\ UNCHANGED <<mem, pc, fault, spoilt, live, durable, ops>>

EndSync ==
    /\ pc = "sync" /\ work = <<>>
    /\ pc' = "super"
    /\ UNCHANGED <<mem, disk, work, fault, spoilt, live, durable, ops>>

WriteSuper ==
    /\ pc = "super"
    /\ disk' = [disk EXCEPT !.magic = TRUE]
    /\ pc' = "map_inode"
    /\ UNCHANGED <<mem, work, fault, spoilt, live, durable, ops>>

\* The process ends here.
Exit == mem' = NoMemory /\ work' = <<>> /\ fault' = "none" /\ pc' = "unmounted"

WriteMapInode ==
    /\ pc = "map_inode"
    /\ disk' = [disk EXCEPT !.map_inode = mem.map_inode]
    /\ durable' = live
    /\ Exit
    /\ UNCHANGED <<spoilt, live, ops>>

\* The daemon dies, of a fault or killed: what the disk holds is all that is left.
Crash ==
    /\ pc # "unmounted"
    /\ Exit
    /\ Spoils(Spoil(pc \in Umounting /\ disk.magic, "torn"))
    /\ live' = durable
    /\ UNCHANGED <<disk, durable, ops>>

Init ==
    /\ mem = NoMemory
    /\ disk = [magic |-> FALSE, map_inode |-> {}, cell |-> [a \in Address |-> Zero]]
    /\ pc = "unmounted" /\ work = <<>> /\ fault = "none" /\ spoilt = {}
    /\ live = <<>> /\ durable = <<>> /\ ops = 0

Next ==
    \/ \E path \in Path :
          \/ Getattr(path)
          \/ sfs_mkdir(path) \/ sfs_mknod(path) \/ sfs_unlink(path) \/ sfs_rmdir(path)
          \/ \E target \in Target : sfs_symlink(target, path)
          \/ \E to \in Path : sfs_rename(path, to)
          \/ \E offset \in 0 .. Cells, n \in 1 .. Cells, byte \in Byte :
                sfs_write(path, offset, n, byte)
          \/ \E size \in 0 .. Cells : sfs_truncate(path, size)
    \/ FormatNew \/ MountOld \/ ReadRoot
    \/ sfs_umount \/ sfs_sync_inode \/ EndSync \/ WriteSuper \/ WriteMapInode
    \/ Crash

Spec == Init /\ [][Next]_vars
-------------------------------------------------------------------------------
\* Memory m after the kernel has asked for every part of the path in turn.
Opened(m, path) ==
    LET opened[k \in 0 .. Len(path)] ==
            IF k = 0 THEN m
            ELSE LET mm == opened[k - 1]
                     r  == sfs_lookup(mm, SubSeq(path, 1, k))
                 IN  IF r.find = {TRUE} THEN Fetch(mm, r.ret) ELSE mm
    IN  opened[Len(path)]

\* sfs_readdir is called with the next offset until nothing comes back.
Listing(m, path) == UNION {sfs_readdir(m, path, k) : k \in 0 .. Len(InodeAt(m, path).dentrys)}

Honours(m, path, node) ==
    /\ m.dentry[sfs_lookup(m, path).ret].inode # NULL
    /\ sfs_getattr(m, path).ftype = node.ftype
    /\ node.ftype = "SFS_REG_FILE" =>
          /\ sfs_getattr(m, path).size = node.size
          /\ \A k \in 1 .. node.size : node.data[k] \in {Junk, sfs_read(m, path, k - 1)}
    /\ node.ftype = "SFS_SYM_LINK" => sfs_readlink(m, path) = node.target

\* tree holds the directory path; the root is one of every tree.
HasDir(tree, path) == path = <<>> \/ (path \in DOMAIN tree /\ tree[path].ftype = "SFS_DIR")

\* Asked from memory m, every handler answers for every path as tree promises.
Agrees(m, tree) ==
    /\ \A path \in Path :
          HasDir(tree, Front(path)) =>
              LET o == Opened(m, path)
              IN  IF path \in DOMAIN tree THEN sfs_access(o, path) /\ Honours(o, path, tree[path])
                  ELSE sfs_lookup(o, path).find = {FALSE}
    /\ \A path \in Path \cup {<<>>} :
          HasDir(tree, path) =>
              Listing(Opened(m, path), path) = {Last(p) : p \in {q \in DOMAIN tree : Front(q) = path}}

(***************************************************************************)
(* AnswersArePromised: without a mishap, whatever getattr, readdir, read   *)
(* and readlink answer for any path is what the calls so far have          *)
(* promised - after any mixture of creations, removals of files and whole  *)
(* directories, renames, remounts and crashes, with any part of the tree   *)
(* loaded (sfs_lookup, sfs_drop_dentry, sfs_rename, sfs_read_inode).       *)
(***************************************************************************)
AnswersArePromised == Serving /\ spoilt = {} => Agrees(mem, live)

(***************************************************************************)
(* DiskIsPromised: without a mishap, whenever sfs_umount is not running    *)
(* the disk alone would answer, after a mount, for what the last complete  *)
(* sfs_umount found: renamed directories lead to their old inode, reused   *)
(* numbers to the new owner, and inodes not loaded are still there.        *)
(***************************************************************************)
MountedDisk == sfs_read_inode(OldMemory, Root)

DiskIsPromised ==
    pc \notin Umounting /\ spoilt = {} =>
        IF disk.magic THEN Agrees(MountedDisk, durable) ELSE durable = <<>>

(***************************************************************************)
(* NumbersAreOwned: without a mishap the bitmap marks the root and one     *)
(* number of its own for every file, directory and link, and nothing else: *)
(* sfs_drop_inode clears the bits of whole subtrees, sfs_rename returns    *)
(* the number it took for a moment, and a remount keeps the balance.       *)
(***************************************************************************)
NumberOf(m, path) == LET o == Opened(m, path) IN o.dentry[sfs_lookup(o, path).ret].ino

Balanced(m, tree) ==
    LET numbers == {NumberOf(m, path) : path \in DOMAIN tree}
    IN  /\ Cardinality(numbers) = Cardinality(DOMAIN tree)
        /\ 0 \notin numbers
        /\ m.map_inode = {0} \cup numbers

NumbersAreOwned ==
    spoilt = {} => /\ Serving => Balanced(mem, live)
                   /\ pc = "unmounted" /\ disk.magic => Balanced(MountedDisk, durable)

(***************************************************************************)
(* HeapIsSound: nothing the handlers can reach has been freed, and the     *)
(* parent pointer of every listed dentry leads to the directory that lists *)
(* it, which is where sfs_unlink and sfs_rename take it out (sfs_rename    *)
(* leaves inodes and dentries pointing to a dentry that is listed no       *)
(* longer).  It holds whatever mishap has happened.                        *)
(***************************************************************************)
HeapIsSound ==
    Serving =>
        LET listed == {Root} \cup BelowInode(mem, mem.dentry[Root].inode)
        IN  /\ listed \subseteq DOMAIN mem.dentry
            /\ \A d \in listed :
                  LET i == mem.dentry[d].inode
                  IN  i # NULL => i \in DOMAIN mem.inode /\ mem.inode[i].dentry \in DOMAIN mem.dentry
            /\ \A d \in listed \ {Root} :
                  LET p == mem.dentry[d].parent
                  IN  /\ p \in DOMAIN mem.dentry /\ mem.dentry[p].inode \in DOMAIN mem.inode
                      /\ d \in ToSet(mem.inode[mem.dentry[p].inode].dentrys)

(***************************************************************************)
(* OnlyTheNamedGoes: every name that was created is listed until it is     *)
(* itself removed.  The comment on sfs_lookup has it return the dentry     *)
(* that was looked for, and sfs_unlink removes what it returns; but a      *)
(* component finds every dentry whose name begins with it.                 *)
(***************************************************************************)
OnlyTheNamedGoes ==
    Serving => \A path \in DOMAIN live : Last(path) \in Listing(Opened(mem, Front(path)), Front(path))

(***************************************************************************)
(* FaultNeedsMishap: the program meets no undefined behaviour and mistakes *)
(* no bytes but after a mishap.                                            *)
(***************************************************************************)
FaultNeedsMishap == fault # "none" => spoilt # {}
===============================================================================
