-------------------------- MODULE NewfsAllocs_proofs --------------------------
(***************************************************************************)
(* Proofs about NewfsAllocs, for every size of the bitmaps, the areas and  *)
(* the inode's slots and every set of dentries.                            *)
(***************************************************************************)
EXTENDS NewfsAllocs, TLAPS

USE MapBitsAssumption, RootAssumption, LimitAssumption, SlotAssumption

\* What both allocators rely on: a granted number was not marked and is now.
LEMMA ScanGrant ==
    ASSUME NEW map \in SUBSET Bit, NEW max, NEW r \in Scan(map, max)
    PROVE  /\ r.map \in SUBSET Bit
           /\ map \subseteq r.map
           /\ r.no \in Bit \cup {None}
           /\ r.no # None => r.no \notin map /\ r.no \in r.map /\ r.no # max
           /\ r.map \subseteq map \cup {r.no, max}
           /\ DownClosed(map) => DownClosed(r.map)
<1>1. CASE Bit \subseteq map
  BY <1>1 DEF Scan
<1>2. CASE ~(Bit \subseteq map)
  <2>1. PICK b \in Bit : /\ IsFirstZero(map, b)
                         /\ r = [map |-> map \cup {b}, no |-> IF b = max THEN None ELSE b]
    BY <1>2 DEF Scan
  <2>2. b # None /\ b \in Nat
    BY DEF Bit, None
  <2>3. DownClosed(map) => DownClosed(r.map)
    <3>1. 0 .. b \subseteq map \cup {b}
      BY <2>1, <2>2 DEF IsFirstZero
    <3> QED
      BY <2>1, <3>1 DEF DownClosed
  <2> QED
    BY <2>1, <2>2, <2>3 DEF IsFirstZero
<1> QED
  BY <1>1, <1>2

\* The inode allocate_inode returns has at most one block, in slot 0, and it
\* and its number are new.
LEMMA AllocateInodeGrant ==
    ASSUME NEW s \in Super, NEW ft \in FileType, NEW a \in allocate_inode(s, ft)
    PROVE  /\ a.super \in Super
           /\ a.super.max_ino = s.max_ino /\ a.super.max_data = s.max_data
           /\ a.inode \in Inode
           /\ s.map_inode \subseteq a.super.map_inode
           /\ s.map_data \subseteq a.super.map_data
           /\ a.inode.ino # None
                => a.inode.ino \notin s.map_inode /\ a.inode.ino \in a.super.map_inode
           /\ \A i \in Slot : a.inode.data_block_no[i] # None
                => /\ i = 0
                   /\ a.inode.data_block_no[i] \notin s.map_data
                   /\ a.inode.data_block_no[i] \in a.super.map_data
           /\ DownClosed(s.map_inode) => DownClosed(a.super.map_inode)
           /\ DownClosed(s.map_data) => DownClosed(a.super.map_data)
<1>1. PICK r \in Scan(s.map_inode, s.max_ino) : \E b \in FirstBlock(s, ft, r.no) :
         a = [inode |-> [ino |-> r.no, file_type |-> ft,
                         data_block_no |-> [NoBlocks EXCEPT ![0] = b.no]],
              super |-> [s EXCEPT !.map_inode = r.map, !.map_data = b.map]]
  BY DEF allocate_inode
<1>2. PICK b \in FirstBlock(s, ft, r.no) :
         a = [inode |-> [ino |-> r.no, file_type |-> ft,
                         data_block_no |-> [NoBlocks EXCEPT ![0] = b.no]],
              super |-> [s EXCEPT !.map_inode = r.map, !.map_data = b.map]]
  BY <1>1
<1>3. s.map_inode \in SUBSET Bit /\ s.map_data \in SUBSET Bit
  BY DEF Super
<1>4. /\ r.map \in SUBSET Bit /\ s.map_inode \subseteq r.map
      /\ r.no \in Bit \cup {None}
      /\ r.no # None => r.no \notin s.map_inode /\ r.no \in r.map
      /\ DownClosed(s.map_inode) => DownClosed(r.map)
  BY <1>3, ScanGrant
<1>5. /\ b.map \in SUBSET Bit /\ s.map_data \subseteq b.map
      /\ b.no \in Bit \cup {None}
      /\ b.no # None => b.no \notin s.map_data /\ b.no \in b.map
      /\ DownClosed(s.map_data) => DownClosed(b.map)
  <2>1. CASE b \in Scan(s.map_data, s.max_data)
    BY <1>3, <2>1, ScanGrant
  <2>2. CASE b = [map |-> s.map_data, no |-> None]
    BY <1>3, <2>2
  <2> QED
    BY <2>1, <2>2 DEF FirstBlock
<1>6. /\ a.inode.data_block_no \in [Slot -> BlockNo]
      /\ \A i \in Slot : a.inode.data_block_no[i] = IF i = 0 THEN b.no ELSE None
  <2>1. a.inode.data_block_no = [NoBlocks EXCEPT ![0] = b.no]
    BY <1>2
  <2> QED
    BY <2>1, <1>5 DEF NoBlocks, BlockNo, Slot
<1>7. /\ a.inode.ino = r.no /\ a.inode \in Inode
  BY <1>2, <1>4, <1>6 DEF Inode
<1>8. /\ a.super \in Super
      /\ a.super.max_ino = s.max_ino /\ a.super.max_data = s.max_data
      /\ a.super.map_inode = r.map /\ a.super.map_data = b.map
  BY <1>2, <1>4, <1>5 DEF Super
<1> QED
  BY <1>4, <1>5, <1>6, <1>7, <1>8

\* Linking a dentry whose inode is new keeps every number with one owner.
LEMMA LinkKeepsOwnership ==
    ASSUME NEW t, IsTree(t), NEW d \in Dentry, d \notin DOMAIN t, NEW r \in Inode,
           NEW mi, NEW md, NEW mi2, NEW md2, mi \subseteq mi2, md \subseteq md2,
           r.ino # None => r.ino \notin mi /\ r.ino \in mi2,
           \A i \in Slot : r.data_block_no[i] # None
              => i = 0 /\ r.data_block_no[i] \notin md /\ r.data_block_no[i] \in md2
    PROVE  /\ IsTree(Link(t, d, r))
           /\ Keeps(t, Link(t, d, r))
           /\ Covers(mi, md, t) => Covers(mi2, md2, Link(t, d, r))
           /\ Covers(mi, md, t) /\ InoUnique(t) => InoUnique(Link(t, d, r))
           /\ Covers(mi, md, t) /\ BlockUnique(t) => BlockUnique(Link(t, d, r))
<1> DEFINE L == Link(t, d, r)
<1>1. /\ DOMAIN L = DOMAIN t \cup {d}
      /\ L[d] = r
      /\ \A x \in DOMAIN t : L[x] = t[x]
  BY DEF Link
<1>2. IsTree(L)
  BY DEF IsTree, Link
<1>3. Keeps(t, L)
  BY <1>1 DEF Keeps
<1>4. Covers(mi, md, t) => Covers(mi2, md2, L)
  BY <1>1 DEF Covers, Inos, Blocks
<1>5. Covers(mi, md, t) /\ InoUnique(t) => InoUnique(L)
  BY <1>1 DEF Covers, Inos, InoUnique
<1>6. Covers(mi, md, t) /\ BlockUnique(t) => BlockUnique(L)
  <2> SUFFICES ASSUME Blocks(t) \subseteq md, BlockUnique(t),
                      NEW x \in DOMAIN L, NEW y \in DOMAIN L, NEW i \in Slot, NEW j \in Slot,
                      L[x].data_block_no[i] = L[y].data_block_no[j],
                      L[x].data_block_no[i] # None
               PROVE  x = y /\ i = j
    BY DEF BlockUnique, Covers
  <2>1. \A z \in DOMAIN t, k \in Slot :
           t[z].data_block_no[k] # None => t[z].data_block_no[k] \in md
    BY DEF Blocks
  <2>2. CASE x = d /\ y = d
    BY <1>1, <2>2
  <2>3. CASE x # d /\ y # d
    BY <1>1, <2>3 DEF BlockUnique
  <2>4. CASE x = d /\ y # d
    BY <1>1, <2>1, <2>4
  <2>5. CASE x # d /\ y = d
    BY <1>1, <2>1, <2>5
  <2> QED
    BY <2>2, <2>3, <2>4, <2>5
<1> HIDE DEF L
<1> QED
  BY <1>2, <1>3, <1>4, <1>5, <1>6 DEF L

\* A new block in a free slot, or in none, keeps every block with one owner.
LEMMA PlaceKeepsOwnership ==
    ASSUME NEW t, IsTree(t), NEW d \in DOMAIN t, NEW no \in BlockNo,
           NEW blocks \in Place(t[d].data_block_no, no),
           NEW mi, NEW md, NEW md2, md \subseteq md2,
           no # None => no \notin md /\ no \in md2
    PROVE  LET u == [t EXCEPT ![d].data_block_no = blocks]
           IN  /\ IsTree(u)
               /\ Keeps(t, u)
               /\ Covers(mi, md, t) => Covers(mi, md2, u)
               /\ InoUnique(t) => InoUnique(u)
               /\ Covers(mi, md, t) /\ BlockUnique(t) => BlockUnique(u)
<1> DEFINE u == [t EXCEPT ![d].data_block_no = blocks]
<1>1. t[d] \in Inode /\ t \in [DOMAIN t -> Inode]
  BY DEF IsTree
<1>2. PICK k \in Slot \cup {None} :
         /\ k # None => t[d].data_block_no[k] = None /\ no # None
         /\ blocks = IF k = None THEN t[d].data_block_no
                                 ELSE [t[d].data_block_no EXCEPT ![k] = no]
  <2>1. CASE blocks = t[d].data_block_no
    BY <2>1 DEF None, Slot
  <2>2. CASE blocks # t[d].data_block_no
    BY <2>2 DEF Place, IsFreeSlot, None, Slot
  <2> QED
    BY <2>1, <2>2
<1>3. /\ blocks \in [Slot -> BlockNo]
      /\ \A i \in Slot : blocks[i] = IF i = k THEN no ELSE t[d].data_block_no[i]
  BY <1>1, <1>2 DEF Inode, None, Slot
<1>4. u = [x \in DOMAIN t |-> IF x = d THEN [t[d] EXCEPT !.data_block_no = blocks] ELSE t[x]]
  BY <1>1
<1>5. /\ DOMAIN u = DOMAIN t
      /\ \A x \in DOMAIN t : u[x] \in Inode /\ u[x].ino = t[x].ino
      /\ \A x \in DOMAIN t : x # d => u[x] = t[x]
      /\ u[d].data_block_no = blocks
  <2>1. [t[d] EXCEPT !.data_block_no = blocks] =
           [ino |-> t[d].ino, file_type |-> t[d].file_type, data_block_no |-> blocks]
    BY <1>1 DEF Inode
  <2> QED
    BY <1>1, <1>3, <1>4, <2>1 DEF Inode
<1> HIDE DEF u
<1>6. IsTree(u)
  <2>1. u \in [DOMAIN t -> Inode]
    BY <1>4, <1>5
  <2> QED
    BY <1>5, <2>1 DEF IsTree
<1>7. Keeps(t, u)
  BY <1>1, <1>2, <1>3, <1>5 DEF Keeps
<1>8. Covers(mi, md, t) => Covers(mi, md2, u)
  <2> SUFFICES ASSUME Covers(mi, md, t)
               PROVE  Covers(mi, md2, u)
    OBVIOUS
  <2>1. Inos(u) \subseteq mi
    BY <1>5 DEF Covers, Inos
  <2>2. ASSUME NEW x \in DOMAIN t, NEW i \in Slot, u[x].data_block_no[i] # None
        PROVE  u[x].data_block_no[i] \in md2
    <3>1. \A y \in DOMAIN t, j \in Slot :
             t[y].data_block_no[j] # None => t[y].data_block_no[j] \in md
      BY DEF Covers, Blocks
    <3> QED
      BY <1>3, <1>5, <2>2, <3>1
  <2> QED
    BY <1>5, <2>1, <2>2 DEF Covers, Blocks
<1>9. InoUnique(t) => InoUnique(u)
  BY <1>5 DEF InoUnique
<1>10. Covers(mi, md, t) /\ BlockUnique(t) => BlockUnique(u)
  <2> SUFFICES ASSUME Covers(mi, md, t), BlockUnique(t),
                      NEW x \in DOMAIN t, NEW y \in DOMAIN t, NEW i \in Slot, NEW j \in Slot,
                      u[x].data_block_no[i] = u[y].data_block_no[j],
                      u[x].data_block_no[i] # None
               PROVE  x = y /\ i = j
    BY <1>5 DEF BlockUnique
  <2>1. \A z \in DOMAIN t, l \in Slot :
           t[z].data_block_no[l] # None => t[z].data_block_no[l] \in md
    BY DEF Covers, Blocks
  <2>2. \A z \in DOMAIN t, l \in Slot :
           u[z].data_block_no[l] = IF z = d /\ l = k THEN no ELSE t[z].data_block_no[l]
    BY <1>3, <1>5
  <2>3. CASE x = d /\ i = k
    BY <2>1, <2>2, <2>3
  <2>4. CASE y = d /\ j = k
    BY <2>1, <2>2, <2>4
  <2>5. CASE ~(x = d /\ i = k) /\ ~(y = d /\ j = k)
    BY <2>2, <2>5 DEF BlockUnique
  <2> QED
    BY <2>3, <2>4, <2>5
<1> QED
  BY <1>6, <1>7, <1>8, <1>9, <1>10 DEF u
-------------------------------------------------------------------------------
(***************************************************************************)
(* The inductive invariant.  OwnedOnce alone says nothing of the bitmaps,  *)
(* which is what makes the next grant new, nor of the disk, from which the *)
(* next mount takes both; and the disk is only of use to that mount if     *)
(* newfs_destroy has written the bitmaps of the tree it wrote first.       *)
(***************************************************************************)
MemoryInv == Covers(super.map_inode, super.map_data, tree) /\ InoUnique(tree) /\ BlockUnique(tree)

DiskInv ==
    /\ InoUnique(disk.tree) /\ BlockUnique(disk.tree)
    /\ disk.magic /\ pc \notin Destroying => Covers(disk.map_inode, disk.map_data, disk.tree)
    /\ pc \in Destroying => disk.tree = tree
    /\ pc \in {"super", "map_inode"} => disk.magic
    /\ pc = "map_inode" => disk.map_inode = super.map_inode

\* A disk without the magic number has never had a bitmap written.
NewDiskInv == ~disk.magic => disk.map_inode = {} /\ disk.map_data = {} /\ ~torn

\* The limits are in force in the first mount only, before any torn destroy.
LimitInv ==
    /\ super.max_ino = MaxIno \/ super.max_data = MaxData => ~torn
    /\ super.max_ino = MaxIno => DownClosed(super.map_inode)
    /\ super.max_data = MaxData => DownClosed(super.map_data)

IInv ==
    /\ TypeOK
    /\ NewDiskInv
    /\ LimitInv
    /\ ~torn => MemoryInv /\ DiskInv

\* An empty tree owns nothing.
LEMMA EmptyTreeFacts ==
    /\ IsTree(EmptyTree) /\ InoUnique(EmptyTree) /\ BlockUnique(EmptyTree)
    /\ \A mi, md : Covers(mi, md, EmptyTree)
    /\ NoSuper \in Super
    /\ NoSuper.max_ino # MaxIno /\ NoSuper.max_data # MaxData
    /\ NoSuper.map_inode = {} /\ NoSuper.map_data = {}
<1>1. DOMAIN EmptyTree = {}
  BY DEF EmptyTree
<1>2. EmptyTree \in [DOMAIN EmptyTree -> Inode]
  BY DEF EmptyTree
<1>3. NoSuper \in Super
  BY DEF NoSuper, Super
<1> QED
  BY <1>1, <1>2, <1>3
     DEF IsTree, InoUnique, BlockUnique, Covers, Inos, Blocks, NoSuper

LEMMA InitIInv == Init => IInv
<1> SUFFICES ASSUME Init PROVE IInv
  OBVIOUS
<1>1. /\ disk = NewDisk
      /\ disk.magic = FALSE /\ disk.map_inode = {} /\ disk.map_data = {}
      /\ disk.tree = EmptyTree
  BY DEF Init, NewDisk
<1>2. TypeOK
  BY <1>1, EmptyTreeFacts DEF Init, TypeOK, NewDisk, Destroying
<1> QED
  BY <1>1, <1>2, EmptyTreeFacts
     DEF Init, IInv, NewDiskInv, LimitInv, MemoryInv, DiskInv, Destroying

\* What TypeOK says of the disk, field by field.
LEMMA DiskFields ==
    ASSUME TypeOK
    PROVE  /\ disk = [magic |-> disk.magic, map_inode |-> disk.map_inode,
                      map_data |-> disk.map_data, tree |-> disk.tree]
           /\ disk.magic \in BOOLEAN
           /\ disk.map_inode \in SUBSET Bit /\ disk.map_data \in SUBSET Bit
  BY DEF TypeOK

\* Every action keeps IInv, one lemma each.
LEMMA MountNewStep == ASSUME IInv, MountNew PROVE IInv'
<1> DEFINE s == [max_ino |-> MaxIno, max_data |-> MaxData,
                 map_inode |-> disk.map_inode, map_data |-> disk.map_data]
<1>1. TypeOK /\ NewDiskInv /\ ~disk.magic /\ ~torn
  BY DEF IInv, MountNew, NewDiskInv
<1>2. disk.map_inode = {} /\ disk.map_data = {}
  BY <1>1 DEF NewDiskInv
<1>3. s \in Super
  BY <1>2 DEF Super
<1>4. PICK a \in allocate_inode(s, "NFS_DIR") :
         /\ super' = a.super
         /\ tree' = Link(EmptyTree, Root, a.inode)
         /\ disk' = [disk EXCEPT !.tree = tree']
  BY DEF MountNew
<1>5. s.map_inode = {} /\ s.map_data = {} /\ s.max_ino = MaxIno /\ s.max_data = MaxData
  BY <1>2
<1> HIDE DEF s
<1>6. DownClosed(s.map_inode) /\ DownClosed(s.map_data)
  BY <1>5 DEF DownClosed
<1>7. /\ super' \in Super /\ a.inode \in Inode
      /\ DownClosed(super'.map_inode) /\ DownClosed(super'.map_data)
      /\ s.map_inode \subseteq super'.map_inode /\ s.map_data \subseteq super'.map_data
      /\ a.inode.ino # None
           => a.inode.ino \notin s.map_inode /\ a.inode.ino \in super'.map_inode
      /\ \A i \in Slot : a.inode.data_block_no[i] # None
           => /\ i = 0
              /\ a.inode.data_block_no[i] \notin s.map_data
              /\ a.inode.data_block_no[i] \in super'.map_data
  BY <1>3, <1>4, <1>6, AllocateInodeGrant DEF FileType
<1>8. Root \notin DOMAIN EmptyTree
  BY DEF EmptyTree
<1>9. /\ IsTree(tree') /\ InoUnique(tree') /\ BlockUnique(tree')
      /\ Covers(super'.map_inode, super'.map_data, tree')
  <2> DEFINE t2 == Link(EmptyTree, Root, a.inode)
             mi == s.map_inode
             md == s.map_data
             mi2 == super'.map_inode
             md2 == super'.map_data
  <2> HIDE DEF mi, md, mi2, md2
  <2>1. /\ mi \subseteq mi2 /\ md \subseteq md2
        /\ a.inode.ino # None => a.inode.ino \notin mi /\ a.inode.ino \in mi2
        /\ \A i \in Slot : a.inode.data_block_no[i] # None
              => /\ i = 0
                 /\ a.inode.data_block_no[i] \notin md
                 /\ a.inode.data_block_no[i] \in md2
    BY <1>7 DEF mi, md, mi2, md2
  <2>2. /\ IsTree(t2)
        /\ Covers(mi, md, EmptyTree) => Covers(mi2, md2, t2)
        /\ Covers(mi, md, EmptyTree) /\ InoUnique(EmptyTree) => InoUnique(t2)
        /\ Covers(mi, md, EmptyTree) /\ BlockUnique(EmptyTree) => BlockUnique(t2)
    BY <1>7, <1>8, <2>1, EmptyTreeFacts, LinkKeepsOwnership
  <2> QED
    BY <1>4, <2>2, EmptyTreeFacts DEF mi2, md2
<1>10. /\ disk'.tree = tree' /\ disk'.magic = FALSE
       /\ disk'.map_inode = {} /\ disk'.map_data = {}
       /\ disk' = [magic |-> FALSE, map_inode |-> {}, map_data |-> {}, tree |-> tree']
  BY <1>1, <1>2, <1>4, DiskFields
<1>11. TypeOK'
  BY <1>1, <1>7, <1>9, <1>10 DEF TypeOK, MountNew
<1> QED
  BY <1>1, <1>7, <1>9, <1>10, <1>11
     DEF IInv, NewDiskInv, LimitInv, MemoryInv, DiskInv, MountNew, Destroying

LEMMA MountOldStep == ASSUME IInv, MountOld PROVE IInv'
<1>1. TypeOK /\ disk.magic /\ pc = "unmounted" /\ pc \notin Destroying
  BY DEF IInv, MountOld, Destroying
<1>2. /\ super'.max_ino = 0 /\ super'.max_data = 0
      /\ super'.map_inode = disk.map_inode /\ super'.map_data = disk.map_data
      /\ super' \in Super
  BY <1>1, DiskFields DEF MountOld, Super
<1>3. tree' = disk.tree /\ disk' = disk /\ torn' = torn /\ pc' = "mounted" /\ fresh' = {}
  BY DEF MountOld
<1>4. TypeOK'
  BY <1>1, <1>2, <1>3 DEF TypeOK
<1>5. ~torn => MemoryInv' /\ DiskInv'
  BY <1>1, <1>2, <1>3 DEF IInv, MemoryInv, DiskInv, Destroying
<1>6. LimitInv' /\ NewDiskInv'
  BY <1>2, <1>3 DEF LimitInv, IInv, NewDiskInv
<1> QED
  BY <1>3, <1>4, <1>5, <1>6 DEF IInv

LEMMA CreateStep ==
    ASSUME IInv, NEW d \in Dentry, NEW ft \in FileType, Create(d, ft) PROVE IInv'
<1>1. TypeOK /\ super \in Super /\ IsTree(tree) /\ d \notin DOMAIN tree /\ pc = "mounted"
  BY DEF IInv, TypeOK, Create
<1>2. PICK a \in allocate_inode(super, ft) :
         super' = a.super /\ tree' = Link(tree, d, a.inode)
  BY DEF Create
<1>3. /\ super' \in Super /\ a.inode \in Inode
      /\ super'.max_ino = super.max_ino /\ super'.max_data = super.max_data
      /\ super.map_inode \subseteq super'.map_inode /\ super.map_data \subseteq super'.map_data
      /\ a.inode.ino # None
           => a.inode.ino \notin super.map_inode /\ a.inode.ino \in super'.map_inode
      /\ \A i \in Slot : a.inode.data_block_no[i] # None
           => /\ i = 0
              /\ a.inode.data_block_no[i] \notin super.map_data
              /\ a.inode.data_block_no[i] \in super'.map_data
      /\ DownClosed(super.map_inode) => DownClosed(super'.map_inode)
      /\ DownClosed(super.map_data) => DownClosed(super'.map_data)
  BY <1>1, <1>2, AllocateInodeGrant
<1>4. /\ IsTree(tree')
      /\ MemoryInv => MemoryInv'
  <2> DEFINE t2 == Link(tree, d, a.inode)
             mi == super.map_inode
             md == super.map_data
             mi2 == super'.map_inode
             md2 == super'.map_data
  <2> HIDE DEF mi, md, mi2, md2
  <2>1. /\ mi \subseteq mi2 /\ md \subseteq md2
        /\ a.inode.ino # None => a.inode.ino \notin mi /\ a.inode.ino \in mi2
        /\ \A i \in Slot : a.inode.data_block_no[i] # None
              => /\ i = 0
                 /\ a.inode.data_block_no[i] \notin md
                 /\ a.inode.data_block_no[i] \in md2
    BY <1>3 DEF mi, md, mi2, md2
  <2>2. /\ IsTree(t2)
        /\ Covers(mi, md, tree) => Covers(mi2, md2, t2)
        /\ Covers(mi, md, tree) /\ InoUnique(tree) => InoUnique(t2)
        /\ Covers(mi, md, tree) /\ BlockUnique(tree) => BlockUnique(t2)
    <3> DEFINE r == a.inode
    <3>1. /\ IsTree(tree) /\ d \notin DOMAIN tree /\ r \in Inode
          /\ mi \subseteq mi2 /\ md \subseteq md2
          /\ r.ino # None => r.ino \notin mi /\ r.ino \in mi2
          /\ \A i \in Slot : r.data_block_no[i] # None
                => i = 0 /\ r.data_block_no[i] \notin md /\ r.data_block_no[i] \in md2
          /\ t2 = Link(tree, d, r)
      BY <1>1, <1>3, <2>1
    <3> HIDE DEF r, t2
    <3> QED
      BY <3>1, LinkKeepsOwnership, SMTT(60)
  <2> QED
    BY <1>2, <2>2 DEF MemoryInv, mi, md, mi2, md2
<1>5. fresh' = fresh \cup {d} /\ disk' = disk /\ pc' = pc /\ torn' = torn
  BY DEF Create
<1>6. TypeOK'
  BY <1>1, <1>3, <1>4, <1>5 DEF TypeOK
<1> QED
  BY <1>1, <1>3, <1>4, <1>5, <1>6
     DEF IInv, NewDiskInv, LimitInv, DiskInv, Destroying

LEMMA AllocateDataStep ==
    ASSUME IInv, NEW d \in Dentry, AllocateData(d) PROVE IInv'
<1>1. TypeOK /\ super \in Super /\ IsTree(tree) /\ d \in DOMAIN tree /\ pc = "mounted"
  BY DEF IInv, TypeOK, AllocateData
<1>2. PICK r \in Scan(super.map_data, super.max_data) :
         /\ super' = [super EXCEPT !.map_data = r.map]
         /\ \E blocks \in Place(tree[d].data_block_no, r.no) :
               tree' = [tree EXCEPT ![d].data_block_no = blocks]
  BY DEF AllocateData
<1>3. PICK blocks \in Place(tree[d].data_block_no, r.no) :
         tree' = [tree EXCEPT ![d].data_block_no = blocks]
  BY <1>2
<1>4. /\ r.map \in SUBSET Bit /\ super.map_data \subseteq r.map
      /\ r.no \in BlockNo
      /\ r.no # None => r.no \notin super.map_data /\ r.no \in r.map
      /\ DownClosed(super.map_data) => DownClosed(r.map)
  BY <1>1, ScanGrant, SMTT(60) DEF Super, BlockNo
<1>5. /\ super' \in Super
      /\ super'.max_ino = super.max_ino /\ super'.max_data = super.max_data
      /\ super'.map_inode = super.map_inode /\ super'.map_data = r.map
  BY <1>1, <1>2, <1>4 DEF Super
<1>6. /\ IsTree(tree')
      /\ MemoryInv => MemoryInv'
  <2> DEFINE t2 == [tree EXCEPT ![d].data_block_no = blocks]
             mi == super.map_inode
             md == super.map_data
             md2 == r.map
  <2> HIDE DEF mi, md, md2
  <2>1. md \subseteq md2 /\ (r.no # None => r.no \notin md /\ r.no \in md2)
    BY <1>4 DEF md, md2
  <2>2. /\ IsTree(t2)
        /\ Covers(mi, md, tree) => Covers(mi, md2, t2)
        /\ InoUnique(tree) => InoUnique(t2)
        /\ Covers(mi, md, tree) /\ BlockUnique(tree) => BlockUnique(t2)
    <3>1. /\ IsTree(tree) /\ d \in DOMAIN tree /\ r.no \in BlockNo
      BY <1>1, <1>4
    <3> QED
      BY <2>1, <3>1, PlaceKeepsOwnership, ZenonT(60)
  <2> HIDE DEF t2
  <2>3. tree' = t2
    BY <1>3 DEF t2
  <2> QED
    BY <1>5, <2>2, <2>3 DEF MemoryInv, mi, md, md2
<1>7. fresh' = fresh /\ disk' = disk /\ pc' = pc /\ torn' = torn
  BY DEF AllocateData
<1>8. TypeOK'
  BY <1>1, <1>5, <1>6, <1>7 DEF TypeOK
<1> QED
  BY <1>1, <1>4, <1>5, <1>6, <1>7, <1>8
     DEF IInv, NewDiskInv, LimitInv, DiskInv, Destroying

\* The three writes of newfs_destroy after which the process still runs.
LEMMA DestroyStep ==
    ASSUME IInv, SyncRoot \/ WriteSuper \/ WriteMapInode PROVE IInv'
<1>1. TypeOK /\ super \in Super
  BY DEF IInv, TypeOK
<1>2. CASE SyncRoot
  <2>1. disk' = [magic |-> disk.magic, map_inode |-> disk.map_inode,
                 map_data |-> disk.map_data, tree |-> tree]
    BY <1>1, <1>2, DiskFields DEF SyncRoot
  <2>2. TypeOK'
    BY <1>1, <1>2, <2>1, DiskFields DEF SyncRoot, TypeOK, Destroying
  <2> QED
    BY <1>1, <1>2, <2>1, <2>2
       DEF SyncRoot, IInv, NewDiskInv, LimitInv, MemoryInv, DiskInv, Destroying
<1>3. CASE WriteSuper
  <2>1. disk' = [magic |-> TRUE, map_inode |-> disk.map_inode,
                 map_data |-> disk.map_data, tree |-> disk.tree]
    BY <1>1, <1>3, DiskFields DEF WriteSuper
  <2>2. TypeOK'
    BY <1>1, <1>3, <2>1, DiskFields DEF WriteSuper, TypeOK, Destroying
  <2> QED
    BY <1>1, <1>3, <2>1, <2>2
       DEF WriteSuper, IInv, NewDiskInv, LimitInv, MemoryInv, DiskInv, Destroying
<1>4. CASE WriteMapInode
  <2>1. disk' = [magic |-> disk.magic, map_inode |-> super.map_inode,
                 map_data |-> disk.map_data, tree |-> disk.tree]
    BY <1>1, <1>4, DiskFields DEF WriteMapInode
  <2>2. TypeOK'
    BY <1>1, <1>4, <2>1, DiskFields DEF WriteMapInode, TypeOK, Destroying, Super
  <2> QED
    BY <1>1, <1>4, <2>1, <2>2
       DEF WriteMapInode, IInv, NewDiskInv, LimitInv, MemoryInv, DiskInv, Destroying
<1> QED
  BY <1>2, <1>3, <1>4

\* The last write completes the disk: its bitmaps are those of its tree.
LEMMA WriteMapDataStep == ASSUME IInv, WriteMapData PROVE IInv'
<1>1. TypeOK /\ super \in Super /\ pc = "map_inode"
  BY DEF IInv, TypeOK, WriteMapData
<1>2. disk' = [magic |-> disk.magic, map_inode |-> disk.map_inode,
               map_data |-> super.map_data, tree |-> disk.tree]
  BY <1>1, DiskFields DEF WriteMapData
<1>3. super' = NoSuper /\ tree' = EmptyTree /\ fresh' = {} /\ pc' = "unmounted" /\ torn' = torn
  BY DEF WriteMapData, Gone
<1>4. TypeOK'
  BY <1>1, <1>2, <1>3, DiskFields, EmptyTreeFacts DEF TypeOK, Super, Destroying
<1>5. ~torn => disk.magic /\ Covers(disk'.map_inode, disk'.map_data, disk'.tree)
  BY <1>1, <1>2 DEF IInv, MemoryInv, DiskInv, Destroying
<1>6. NewDiskInv'
  BY <1>2, <1>3, <1>5 DEF IInv, NewDiskInv
<1>7. ~torn => MemoryInv' /\ DiskInv'
  BY <1>2, <1>3, <1>5, EmptyTreeFacts DEF IInv, MemoryInv, DiskInv, Destroying
<1> QED
  BY <1>3, <1>4, <1>6, <1>7, EmptyTreeFacts DEF IInv, LimitInv

LEMMA CrashStep == ASSUME IInv, Crash PROVE IInv'
<1>1. TypeOK
  BY DEF IInv
<1>2. super' = NoSuper /\ tree' = EmptyTree /\ fresh' = {} /\ pc' = "unmounted" /\ disk' = disk
  BY DEF Crash, Gone
<1>3. torn' = (torn \/ (pc \in Destroying /\ disk.magic))
  BY DEF Crash
<1>4. TypeOK'
  BY <1>1, <1>2, <1>3, EmptyTreeFacts DEF TypeOK
<1>5. NewDiskInv'
  BY <1>2, <1>3 DEF IInv, NewDiskInv
<1>6. ~torn' => MemoryInv' /\ DiskInv'
  BY <1>2, <1>3, EmptyTreeFacts DEF IInv, MemoryInv, DiskInv, Destroying
<1> QED
  BY <1>2, <1>4, <1>5, <1>6, EmptyTreeFacts DEF IInv, LimitInv

\* So does every step, and IInv always holds.
LEMMA NextIInv == IInv /\ [Next]_vars => IInv'
<1> SUFFICES ASSUME IInv, [Next]_vars PROVE IInv'
  OBVIOUS
<1>1. CASE UNCHANGED vars
  BY <1>1 DEF vars, IInv, TypeOK, NewDiskInv, LimitInv, MemoryInv, DiskInv
<1>2. CASE MountNew \/ MountOld
  BY <1>2, MountNewStep, MountOldStep
<1>3. CASE \E d \in Dentry, ft \in FileType : Create(d, ft)
  BY <1>3, CreateStep
<1>4. CASE \E d \in Dentry : AllocateData(d)
  BY <1>4, AllocateDataStep
<1>5. CASE SyncRoot \/ WriteSuper \/ WriteMapInode
  BY <1>5, DestroyStep
<1>6. CASE WriteMapData \/ Crash
  BY <1>6, WriteMapDataStep, CrashStep
<1> QED
  BY <1>1, <1>2, <1>3, <1>4, <1>5, <1>6 DEF Next

LEMMA AlwaysIInv == Spec => []IInv
  BY InitIInv, NextIInv, PTL DEF Spec
-------------------------------------------------------------------------------
\* Every variable of the allocator keeps its type.
THEOREM TypeCorrect == Spec => []TypeOK
<1>1. IInv => TypeOK
  BY DEF IInv
<1> QED
  BY <1>1, AlwaysIInv, PTL

\* No two files or directories share an inode number or a data block, unless
\* a crash has cut newfs_destroy in two.
THEOREM Ownership == Spec => []OwnedOnce
<1>1. IInv => OwnedOnce
  BY DEF IInv, OwnedOnce, MemoryInv
<1> QED
  BY <1>1, AlwaysIInv, PTL

\* The bitmaps the next mount will read cover the tree it will read.
THEOREM DiskRecovers == Spec => []DiskMapsCoverTree
<1>1. IInv => DiskMapsCoverTree
  BY DEF IInv, DiskMapsCoverTree, DiskInv
<1> QED
  BY <1>1, AlwaysIInv, PTL

\* Under the limits of the first mount no inode and no block lies outside
\* its area before the limit is hit.
THEOREM AreasHold == Spec => []InsideAreas
<1>1. ASSUME IInv PROVE InsideAreas
  <2>1. ASSUME NEW map \in SUBSET Bit, NEW max \in 1 .. MapBits - 1,
               DownClosed(map), max \notin map, NEW n \in map
        PROVE  n < max
    BY <2>1 DEF DownClosed, Bit
  <2>2. super \in Super
    BY <1>1 DEF IInv, TypeOK
  <2>3. super.max_ino = MaxIno /\ MaxIno \notin super.map_inode
          => \A n \in Inos(tree) : n < MaxIno
    BY <1>1, <2>1, <2>2 DEF IInv, LimitInv, MemoryInv, Covers, Super
  <2>4. super.max_data = MaxData /\ MaxData \notin super.map_data
          => \A n \in Blocks(tree) : n < MaxData
    BY <1>1, <2>1, <2>2 DEF IInv, LimitInv, MemoryInv, Covers, Super
  <2> QED
    BY <2>3, <2>4 DEF InsideAreas
<1> QED
  BY <1>1, AlwaysIInv, PTL

\* No operation of a mounted file system takes a number or a block away, nor
\* moves a block to another slot.
THEOREM GrantsKept == Spec => GrantsAreKept
<1>1. ASSUME IInv, [Next]_vars, pc # "unmounted", pc' # "unmounted"
      PROVE  Keeps(tree, tree')
  <2> USE <1>1
  <2>1. IsTree(tree)
    BY DEF IInv, TypeOK
  <2>2. ASSUME NEW d \in Dentry, NEW ft \in FileType, Create(d, ft)
        PROVE  Keeps(tree, tree')
    BY <2>2 DEF Create, Link, Keeps
  <2>3. ASSUME NEW d \in Dentry, AllocateData(d)
        PROVE  Keeps(tree, tree')
    <3>1. PICK r \in Scan(super.map_data, super.max_data) :
             \E blocks \in Place(tree[d].data_block_no, r.no) :
                tree' = [tree EXCEPT ![d].data_block_no = blocks]
      BY <2>3 DEF AllocateData
    <3>2. PICK blocks \in Place(tree[d].data_block_no, r.no) :
             tree' = [tree EXCEPT ![d].data_block_no = blocks]
      BY <3>1
    <3>3. super.map_data \in SUBSET Bit /\ d \in DOMAIN tree
      BY <2>3 DEF IInv, TypeOK, Super, AllocateData
    <3>4. /\ r.no \in BlockNo
          /\ super.map_data \subseteq r.map
          /\ r.no # None => r.no \notin super.map_data /\ r.no \in r.map
      <4> DEFINE md == super.map_data
      <4>1. md \in SUBSET Bit /\ r \in Scan(md, super.max_data)
        BY <3>3
      <4> HIDE DEF md
      <4>2. /\ r.no \in Bit \cup {None}
            /\ md \subseteq r.map
            /\ r.no # None => r.no \notin md /\ r.no \in r.map
        BY <4>1, ScanGrant
      <4> QED
        BY <4>2 DEF md, BlockNo
    <3>5. Keeps(tree, [tree EXCEPT ![d].data_block_no = blocks])
      <4> DEFINE md == super.map_data
                 md2 == r.map
      <4>1. /\ r.no # None => r.no \notin md /\ r.no \in md2
            /\ md \subseteq md2
        BY <3>4
      <4> HIDE DEF md, md2
      <4> QED
        BY <2>1, <3>3, <3>4, <4>1, PlaceKeepsOwnership, ZenonT(60)
    <3> QED
      BY <3>2, <3>5
  <2>4. CASE UNCHANGED tree
    BY <2>4 DEF Keeps
  <2> QED
    BY <2>2, <2>3, <2>4
       DEF Next, vars, MountNew, MountOld, SyncRoot, WriteSuper, WriteMapInode,
           WriteMapData, Crash, Gone
<1>2. IInv /\ [Next]_vars
        => [pc # "unmounted" /\ pc' # "unmounted" => Keeps(tree, tree')]_vars
  BY <1>1
<1> QED
  BY <1>2, AlwaysIInv, PTL DEF Spec, GrantsAreKept
-------------------------------------------------------------------------------
(***************************************************************************)
(* What allocate_inode marks is what it returns, or the number it refuses. *)
(***************************************************************************)
LEMMA AllocateInodeMarks ==
    ASSUME NEW s \in Super, NEW ft \in FileType, NEW a \in allocate_inode(s, ft)
    PROVE  /\ a.super.map_inode \subseteq s.map_inode \cup {a.inode.ino, s.max_ino}
           /\ a.super.map_data \subseteq
                 s.map_data \cup {a.inode.data_block_no[0], s.max_data}
           /\ a.inode.file_type = ft
<1>1. PICK r \in Scan(s.map_inode, s.max_ino) : \E b \in FirstBlock(s, ft, r.no) :
         a = [inode |-> [ino |-> r.no, file_type |-> ft,
                         data_block_no |-> [NoBlocks EXCEPT ![0] = b.no]],
              super |-> [s EXCEPT !.map_inode = r.map, !.map_data = b.map]]
  BY DEF allocate_inode
<1>2. PICK b \in FirstBlock(s, ft, r.no) :
         a = [inode |-> [ino |-> r.no, file_type |-> ft,
                         data_block_no |-> [NoBlocks EXCEPT ![0] = b.no]],
              super |-> [s EXCEPT !.map_inode = r.map, !.map_data = b.map]]
  BY <1>1
<1>3. s.map_inode \in SUBSET Bit /\ s.map_data \in SUBSET Bit
  BY DEF Super
<1>4. r.map \subseteq s.map_inode \cup {r.no, s.max_ino}
  BY <1>3, ScanGrant
<1>5. b.map \subseteq s.map_data \cup {b.no, s.max_data}
  <2>1. CASE b \in Scan(s.map_data, s.max_data)
    BY <1>3, <2>1, ScanGrant
  <2>2. CASE b = [map |-> s.map_data, no |-> None]
    BY <2>2
  <2> QED
    BY <2>1, <2>2 DEF FirstBlock
<1>6. /\ a.inode.ino = r.no /\ a.inode.file_type = ft
      /\ a.inode.data_block_no[0] = b.no
  BY <1>2 DEF NoBlocks, Slot
<1>7. a.super.map_inode = r.map /\ a.super.map_data = b.map
  BY <1>2 DEF Super
<1> QED
  BY <1>4, <1>5, <1>6, <1>7

\* Every bit of the two maps is a number of tree t or a limit.
Accounted(mi, md, t) ==
    mi \subseteq Inos(t) \cup {MaxIno} /\ md \subseteq Blocks(t) \cup {MaxData}

\* A dentry linked with what allocate_inode gave accounts for the new bits.
LEMMA LinkAccounts ==
    ASSUME NEW t, NEW d, d \notin DOMAIN t, NEW r \in Inode,
           NEW mi, NEW md, Accounted(mi, md, t),
           NEW mi2 \in SUBSET Bit, mi2 \subseteq mi \cup {r.ino, MaxIno},
           NEW md2 \in SUBSET Bit, md2 \subseteq md \cup {r.data_block_no[0], MaxData}
    PROVE  Accounted(mi2, md2, Link(t, d, r))
<1> DEFINE L == Link(t, d, r)
<1>1. DOMAIN L = DOMAIN t \cup {d} /\ L[d] = r /\ \A x \in DOMAIN t : L[x] = t[x]
  BY DEF Link
<1> HIDE DEF L
<1>2. None \notin Bit /\ 0 \in Slot
  BY DEF None, Bit, Slot
<1>3. Inos(t) \subseteq Inos(L) /\ (r.ino # None => r.ino \in Inos(L))
  BY <1>1 DEF Inos
<1>4. /\ Blocks(t) \subseteq Blocks(L)
      /\ r.data_block_no[0] # None => r.data_block_no[0] \in Blocks(L)
  BY <1>1, <1>2 DEF Blocks
<1> QED
  BY <1>2, <1>3, <1>4 DEF Accounted, L

(***************************************************************************)
(* While the limits hold, the root is the one dentry that was not created  *)
(* since the mount, so a regular file that calls allocate_data has a slot  *)
(* to put the block in.                                                    *)
(***************************************************************************)
LeakInv ==
    super.max_ino = MaxIno =>
        /\ super.max_data = MaxData
        /\ \A d \in DOMAIN tree : d \notin fresh => tree[d].file_type = "NFS_DIR"
        /\ Accounted(super.map_inode, super.map_data, tree)

LEMMA MountNewAccounts == ASSUME IInv, MountNew PROVE LeakInv'
<1> DEFINE s == [max_ino |-> MaxIno, max_data |-> MaxData,
                 map_inode |-> disk.map_inode, map_data |-> disk.map_data]
<1>1. disk.map_inode = {} /\ disk.map_data = {}
  BY DEF IInv, MountNew, NewDiskInv
<1>2. /\ s \in Super /\ s.map_inode = {} /\ s.map_data = {}
      /\ s.max_ino = MaxIno /\ s.max_data = MaxData
  BY <1>1 DEF Super
<1>3. PICK a \in allocate_inode(s, "NFS_DIR") :
         super' = a.super /\ tree' = Link(EmptyTree, Root, a.inode)
  BY DEF MountNew
<1> HIDE DEF s
<1>4. /\ super' \in Super /\ super'.max_data = MaxData /\ a.inode \in Inode
      /\ super'.map_inode \subseteq {} \cup {a.inode.ino, MaxIno}
      /\ super'.map_data \subseteq {} \cup {a.inode.data_block_no[0], MaxData}
      /\ a.inode.file_type = "NFS_DIR"
  BY <1>2, <1>3, AllocateInodeGrant, AllocateInodeMarks DEF FileType
<1>5. super'.map_inode \in SUBSET Bit /\ super'.map_data \in SUBSET Bit
  BY <1>4 DEF Super
<1>6. Root \notin DOMAIN EmptyTree /\ Accounted({}, {}, EmptyTree)
  BY DEF EmptyTree, Accounted
<1>7. Accounted(super'.map_inode, super'.map_data, tree')
  <2> DEFINE mi2 == super'.map_inode
             md2 == super'.map_data
             r   == a.inode
  <2>1. /\ mi2 \in SUBSET Bit /\ mi2 \subseteq {} \cup {r.ino, MaxIno}
        /\ md2 \in SUBSET Bit /\ md2 \subseteq {} \cup {r.data_block_no[0], MaxData}
        /\ r \in Inode
    BY <1>4, <1>5
  <2> HIDE DEF mi2, md2, r
  <2>2. Accounted(mi2, md2, Link(EmptyTree, Root, r))
    BY <1>6, <2>1, LinkAccounts
  <2> QED
    BY <1>3, <2>2 DEF mi2, md2, r
<1>8. \A d \in DOMAIN tree' : tree'[d].file_type = "NFS_DIR"
  BY <1>3, <1>4 DEF Link, EmptyTree
<1> QED
  BY <1>4, <1>7, <1>8 DEF LeakInv

LEMMA CreateAccounts ==
    ASSUME IInv, LeakInv, NEW d \in Dentry, NEW ft \in FileType, Create(d, ft) PROVE LeakInv'
<1>1. PICK a \in allocate_inode(super, ft) :
         super' = a.super /\ tree' = Link(tree, d, a.inode)
  BY DEF Create
<1>2. super \in Super /\ d \notin DOMAIN tree /\ fresh' = fresh \cup {d}
  BY DEF IInv, TypeOK, Create
<1>3. /\ super' \in Super /\ a.inode \in Inode
      /\ super'.max_ino = super.max_ino /\ super'.max_data = super.max_data
      /\ super'.map_inode \subseteq super.map_inode \cup {a.inode.ino, super.max_ino}
      /\ super'.map_data \subseteq
            super.map_data \cup {a.inode.data_block_no[0], super.max_data}
  BY <1>1, <1>2, AllocateInodeGrant, AllocateInodeMarks
<1> SUFFICES ASSUME super.max_ino = MaxIno
             PROVE  LeakInv'
  BY <1>3 DEF LeakInv
<1>4. Accounted(super'.map_inode, super'.map_data, tree')
  <2> DEFINE mi  == super.map_inode
             md  == super.map_data
             mi2 == super'.map_inode
             md2 == super'.map_data
             r   == a.inode
  <2>1. /\ mi2 \in SUBSET Bit /\ mi2 \subseteq mi \cup {r.ino, MaxIno}
        /\ md2 \in SUBSET Bit /\ md2 \subseteq md \cup {r.data_block_no[0], MaxData}
        /\ r \in Inode /\ Accounted(mi, md, tree) /\ d \notin DOMAIN tree
    BY <1>2, <1>3 DEF LeakInv, Super
  <2> HIDE DEF mi, md, mi2, md2, r
  <2>2. Accounted(mi2, md2, Link(tree, d, r))
    BY <2>1, LinkAccounts
  <2> QED
    BY <1>1, <2>2 DEF mi2, md2, r
<1>5. \A x \in DOMAIN tree' : x \notin fresh' => tree'[x].file_type = "NFS_DIR"
  BY <1>1, <1>2 DEF Link, LeakInv
<1> QED
  BY <1>3, <1>4, <1>5 DEF LeakInv

LEMMA AllocateDataAccounts ==
    ASSUME IInv, LeakInv, NEW d \in Dentry, AllocateData(d) PROVE LeakInv'
<1>1. /\ super \in Super /\ IsTree(tree) /\ d \in DOMAIN tree /\ fresh' = fresh
      /\ tree[d].file_type = "NFS_REG_FILE"
      /\ d \notin fresh \/ HasFreeSlot(tree[d].data_block_no)
  BY DEF IInv, TypeOK, AllocateData
<1>2. PICK r \in Scan(super.map_data, super.max_data) :
         /\ super' = [super EXCEPT !.map_data = r.map]
         /\ \E blocks \in Place(tree[d].data_block_no, r.no) :
               tree' = [tree EXCEPT ![d].data_block_no = blocks]
  BY DEF AllocateData
<1>3. PICK blocks \in Place(tree[d].data_block_no, r.no) :
         tree' = [tree EXCEPT ![d].data_block_no = blocks]
  BY <1>2
<1>4. /\ r.map \in SUBSET Bit /\ r.map \subseteq super.map_data \cup {r.no, super.max_data}
      /\ r.no \in BlockNo
  <2> DEFINE md == super.map_data
  <2>1. md \in SUBSET Bit /\ r \in Scan(md, super.max_data)
    BY <1>1 DEF Super
  <2> HIDE DEF md
  <2>2. r.map \in SUBSET Bit /\ r.map \subseteq md \cup {r.no, super.max_data} /\ r.no \in Bit \cup {None}
    BY <2>1, ScanGrant
  <2> QED
    BY <2>2 DEF md, BlockNo
<1>5. /\ super'.max_ino = super.max_ino /\ super'.max_data = super.max_data
      /\ super'.map_inode = super.map_inode /\ super'.map_data = r.map
  BY <1>1, <1>2 DEF Super
<1> SUFFICES ASSUME super.max_ino = MaxIno
             PROVE  LeakInv'
  BY <1>5 DEF LeakInv
<1>6. HasFreeSlot(tree[d].data_block_no)
  BY <1>1 DEF LeakInv
<1>7. tree[d] \in Inode /\ tree \in [DOMAIN tree -> Inode]
  BY <1>1 DEF IsTree
<1>8. /\ DOMAIN tree' = DOMAIN tree
      /\ \A x \in DOMAIN tree : /\ tree'[x].ino = tree[x].ino
                                /\ tree'[x].file_type = tree[x].file_type
                                /\ x # d => tree'[x] = tree[x]
      /\ tree'[d].data_block_no = blocks
  <2>1. [tree[d] EXCEPT !.data_block_no = blocks] =
           [ino |-> tree[d].ino, file_type |-> tree[d].file_type, data_block_no |-> blocks]
    BY <1>7 DEF Inode
  <2>2. tree' = [x \in DOMAIN tree |->
                    IF x = d THEN [tree[d] EXCEPT !.data_block_no = blocks] ELSE tree[x]]
    BY <1>3, <1>7
  <2> QED
    BY <1>1, <2>1, <2>2
<1>9. r.no # None => \E k \in Slot : /\ tree[d].data_block_no[k] = None
                                     /\ blocks = [tree[d].data_block_no EXCEPT ![k] = r.no]
  BY <1>6 DEF Place, IsFreeSlot
<1>10. r.no = None => blocks = tree[d].data_block_no
  BY DEF Place
<1>11. tree[d].data_block_no \in [Slot -> BlockNo]
  BY <1>7 DEF Inode
<1>12. Inos(tree') = Inos(tree)
  BY <1>8 DEF Inos
<1>13. Blocks(tree) \subseteq Blocks(tree') /\ (r.no # None => r.no \in Blocks(tree'))
  <2>1. CASE r.no = None
    BY <1>8, <1>10, <2>1 DEF Blocks
  <2>2. CASE r.no # None
    <3>1. PICK k \in Slot : /\ tree[d].data_block_no[k] = None
                            /\ blocks = [tree[d].data_block_no EXCEPT ![k] = r.no]
      BY <1>9, <2>2
    <3>2. blocks[k] = r.no /\ \A i \in Slot : i # k => blocks[i] = tree[d].data_block_no[i]
      BY <1>11, <3>1
    <3>3. r.no \in Blocks(tree')
      BY <1>1, <1>8, <2>2, <3>2 DEF Blocks
    <3>4. ASSUME NEW x \in DOMAIN tree, NEW i \in Slot, tree[x].data_block_no[i] # None
          PROVE  tree[x].data_block_no[i] = tree'[x].data_block_no[i]
      BY <1>8, <3>1, <3>2, <3>4
    <3> QED
      BY <1>8, <3>3, <3>4 DEF Blocks
  <2> QED
    BY <2>1, <2>2
<1>14. None \notin Bit
  BY DEF None, Bit
<1>15. Accounted(super'.map_inode, super'.map_data, tree')
  BY <1>4, <1>5, <1>12, <1>13, <1>14 DEF LeakInv, Accounted
<1> QED
  BY <1>1, <1>5, <1>8, <1>15 DEF LeakInv

\* Every step keeps LeakInv.
LEMMA NextLeakInv == IInv /\ LeakInv /\ [Next]_vars => LeakInv'
<1> SUFFICES ASSUME IInv, LeakInv, [Next]_vars PROVE LeakInv'
  OBVIOUS
<1>1. CASE UNCHANGED <<super, tree, fresh>>
  BY <1>1 DEF LeakInv
<1>2. CASE super'.max_ino # MaxIno
  BY <1>2 DEF LeakInv
<1>3. CASE MountNew
  BY <1>3, MountNewAccounts
<1>4. CASE \E d \in Dentry, ft \in FileType : Create(d, ft)
  BY <1>4, CreateAccounts
<1>5. CASE \E d \in Dentry : AllocateData(d)
  BY <1>5, AllocateDataAccounts
<1>6. MountOld \/ WriteMapData \/ Crash => super'.max_ino # MaxIno
  BY EmptyTreeFacts DEF MountOld, WriteMapData, Crash, Gone
<1> QED
  BY <1>1, <1>2, <1>3, <1>4, <1>5, <1>6
     DEF Next, vars, SyncRoot, WriteSuper, WriteMapInode

\* In the first mount every marked bit belongs to a linked dentry, but for
\* the two limits: the scans leak nothing else.
THEOREM NothingElseLeaks == Spec => []OnlyRefusedBitsLeak
<1>1. Init => LeakInv
  BY EmptyTreeFacts DEF Init, LeakInv
<1>2. LeakInv => OnlyRefusedBitsLeak
  BY DEF LeakInv, Accounted, OnlyRefusedBitsLeak
<1> QED
  BY <1>1, <1>2, AlwaysIInv, NextLeakInv, PTL DEF Spec
===============================================================================
