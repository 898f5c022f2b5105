--------------------------- MODULE SimplefsShape_proofs ---------------------------
(***************************************************************************)
(* Proofs about the disk and the numbers of Simplefs while no mishap has   *)
(* happened: every number has one owner, a dentry in memory or the dentry  *)
(* of a directory on the disk that is not loaded; what the disk holds for  *)
(* a number is its owner's; sfs_umount, whatever it has written so far,    *)
(* touches none of the slots it has not loaded, and leaves a whole tree.   *)
(* So nothing is ever mistaken for something else.                         *)
(***************************************************************************)
EXTENDS Simplefs_proofs

USE AreaAssumption, BoundAssumption, MapBitsAssumption

\* The cells C hold, for number u, an inode and the dentries of its directory, if it is one.
Kids(C, u)   == 0 .. C[SFS_INO_OFS(u)].dir_cnt - 1
Kid(C, u, k) == C[SFS_DATA_OFS(u) + k]

\* On the disk: the numbers U and all that is below them, each with one dentry at most.
Stored(C, U, map) ==
    /\ U \subseteq map
    /\ \A u \in U : /\ C[SFS_INO_OFS(u)].type = "inode" /\ C[SFS_INO_OFS(u)].ino = u
                    /\ C[SFS_INO_OFS(u)].dir_cnt <= Cells
    /\ \A u \in U : \A k \in Kids(C, u) : Kid(C, u, k).type = "dentry" /\ Kid(C, u, k).ino \in U
    /\ \A u, v \in U : \A k \in Kids(C, u), l \in Kids(C, v) :
           Kid(C, u, k).ino = Kid(C, v, l).ino => u = v /\ k = l

\* The directory inode i has room in its slot, and what is no directory lists nothing.
Roomy(m, i) ==
    /\ Len(m.inode[i].dentrys) <= Cells
    /\ ~Is(m, i, "SFS_DIR") => m.inode[i].dentrys = <<>>

\* In memory: each dentry has a number of its own, one of U exactly when it is not loaded.
Owned(m, U) ==
    /\ \A d \in Linked(m) : /\ m.dentry[d].ino \in m.map_inode
                            /\ m.dentry[d].inode = NULL <=> m.dentry[d].ino \in U
    /\ \A d, e \in Linked(m) : m.dentry[d].ino = m.dentry[e].ino => d = e
    /\ \A d \in Linked(m) : m.dentry[d].inode # NULL =>
           m.inode[m.dentry[d].inode].ino = m.dentry[d].ino /\ Roomy(m, m.dentry[d].inode)

\* No number is owned by a dentry in memory and by one on the disk.
Apart(m, C, U) ==
    \A d \in Linked(m), u \in U : \A k \in Kids(C, u) : Kid(C, u, k).ino # m.dentry[d].ino

Shape(m, C, U) == U \in SUBSET Bit /\ Stored(C, U, m.map_inode) /\ Owned(m, U) /\ Apart(m, C, U)

\* A whole tree on the disk: number 0 is stored, and in no directory.
Whole(C, map) ==
    \E U \in SUBSET Bit : /\ Stored(C, U, map) /\ 0 \in U
                          /\ \A u \in U : \A k \in Kids(C, u) : Kid(C, u, k).ino # 0

\* A number that is not loaded can be read.
LEMMA ShapeReadable ==
    ASSUME DiskType, NEW m, Heap(m), NEW U, Shape(m, disk.cell, U), NEW d \in Linked(m), m.dentry[d].inode = NULL
    PROVE  Readable(m.dentry[d]) /\ ReadFault(m, d) = "none"
<1> PICK u : u = m.dentry[d].ino
  OBVIOUS
<1>1. u = m.dentry[d].ino /\ u \in U /\ u \in Bit
  BY DEF Shape, Owned
<1>2. /\ disk.cell[SFS_INO_OFS(u)].type = "inode" /\ disk.cell[SFS_INO_OFS(u)].dir_cnt <= Cells
      /\ \A k \in Kids(disk.cell, u) : Kid(disk.cell, u, k).type = "dentry"
  BY <1>1 DEF Shape, Stored
<1>3. Holds(SFS_INO_OFS(u), "inode")
  <2>1. 0 \in 0 .. Cells
    OBVIOUS
  <2>2. SFS_INO_OFS(u) \in Nat /\ SFS_INO_OFS(u) + 0 \in Address
    BY <1>1, <2>1, SlotAddress
  <2>3. SFS_INO_OFS(u) \in Address
    BY <2>2
  <2> QED
    BY <1>2, <2>3 DEF Holds, sfs_driver_read
<1>4. ASSUME NEW a \in EntryCells(u) PROVE Holds(a, "dentry")
  <2>1. PICK k \in Kids(disk.cell, u) : a = SFS_DATA_OFS(u) + k
    BY DEF EntryCells, Kids, sfs_driver_read
  <2>2. disk.cell[a].type = "dentry"
    BY <1>2, <2>1 DEF Kid
  <2>3. a \in Address
    <3>1. k + 1 \in 0 .. Cells /\ k \in Int
      <4>1. disk.cell[SFS_INO_OFS(u)].dir_cnt \in Nat
        BY <1>3, CellFields DEF sfs_driver_read
      <4> QED
        BY <1>2, <2>1, <4>1 DEF Kids
    <3>2. SFS_INO_OFS(u) \in Nat /\ SFS_INO_OFS(u) + (k + 1) \in Address
      BY <1>1, <3>1, SlotAddress
    <3>3. a = SFS_INO_OFS(u) + (k + 1)
      BY <2>1, <3>1, <3>2 DEF SFS_DATA_OFS
    <3> QED
      BY <3>2, <3>3
  <2> QED
    BY <2>2, <2>3 DEF Holds, sfs_driver_read
<1>5. u # None
  BY <1>1 DEF Bit, None
<1>6. Readable(m.dentry[d])
  BY <1>1, <1>3, <1>4, <1>5 DEF Readable
<1> QED
  BY <1>6 DEF ReadFault
-------------------------------------------------------------------------------
\* d has been read: i is its inode, F are the dentries of its entries.
Parts(m, n, C, d, u, F, i) ==
    /\ Linked(n) = Linked(m) \cup F /\ F \cap Linked(m) = {} /\ i # NULL
    /\ \A e \in Linked(m) : /\ n.dentry[e].ino = m.dentry[e].ino
                            /\ n.dentry[e].inode = IF e = d THEN i ELSE m.dentry[e].inode
    /\ \A e \in F : /\ n.dentry[e].inode = NULL
                    /\ \E k \in Kids(C, u) : n.dentry[e].ino = Kid(C, u, k).ino
    /\ \A e, f \in F : n.dentry[e].ino = n.dentry[f].ino => e = f
    /\ n.map_inode = m.map_inode /\ n.inode[i].ino = u /\ Roomy(n, i)
    /\ \A j \in DOMAIN m.inode : /\ j # i /\ n.inode[j] = m.inode[j]
                                 /\ Roomy(m, j) /\ n.inode[j].dentry \in DOMAIN m.dentry => Roomy(n, j)

LEMMA ReadParts ==
    ASSUME DiskType, NEW m, Heap(m), NEW C, C = disk.cell, NEW U, Shape(m, C, U), NEW d \in Linked(m),
           m.dentry[d].inode = NULL, NEW u, u = m.dentry[d].ino, NEW n, n = sfs_read_inode(m, d)
    PROVE  \E F : \E i : Parts(m, n, C, d, u, F, i)
<1> PICK top, c, i : top = Top(m.dentry) /\ c = EntryCount(m.dentry[d]) /\ i = Top(m.inode) + 1
  OBVIOUS
<1>0. top = Top(m.dentry) /\ c = EntryCount(m.dentry[d]) /\ i = Top(m.inode) + 1
  OBVIOUS
<1> DEFINE F == top + 1 .. top + c
<1>1. Readable(m.dentry[d])
  BY ShapeReadable
<1>2. Heap(n) /\ Loaded(m, n, d) /\ Linked(n) = Linked(m) \cup F
  BY <1>0, <1>1, ReadHeap
<1>3. Memory(m) /\ Linked(m) \subseteq DOMAIN m.dentry /\ Memory(n) /\ Linked(n) \subseteq DOMAIN n.dentry
  BY <1>2 DEF Heap, HeapBut, Allocated
<1>4. top \in Nat /\ i \in Nat \ {0} /\ i \notin DOMAIN m.inode
  BY <1>0, <1>3, MemoryFields
<1>5. /\ c \in Nat /\ n.map_inode = m.map_inode
      /\ DOMAIN n.dentry = DOMAIN m.dentry \cup F
      /\ \A e \in DOMAIN m.dentry : e # d => n.dentry[e] = m.dentry[e]
      /\ n.dentry[d] = [m.dentry[d] EXCEPT !.inode = i]
      /\ \A e \in F : /\ e \notin DOMAIN m.dentry
                      /\ n.dentry[e] = EntryFrom(sfs_driver_read(SFS_DATA_OFS(u) + e - top - 1), d)
      /\ DOMAIN n.inode = DOMAIN m.inode \cup {i}
      /\ \A j \in DOMAIN m.inode : n.inode[j] = m.inode[j]
      /\ n.inode[i] = InodeFrom(m, d, top)
  BY <1>0, <1>2 DEF Loaded
<1>6. m.dentry[d] \in Dentry /\ d \in DOMAIN m.dentry
  BY <1>3, DentryFields
<1>7. n.dentry[d].inode = i /\ n.dentry[d].ino = m.dentry[d].ino /\ n.dentry[d].ftype = m.dentry[d].ftype
  BY <1>5, <1>6 DEF Dentry
<1>8. u \in U /\ u \in Bit /\ C[SFS_INO_OFS(u)].ino = u /\ C[SFS_INO_OFS(u)].dir_cnt <= Cells
  BY DEF Shape, Owned, Stored
<1>9. C[SFS_INO_OFS(u)].dir_cnt \in Nat
  <2>1. Holds(SFS_INO_OFS(u), "inode")
    BY <1>1 DEF Readable
  <2> QED
    BY <2>1, CellFields DEF sfs_driver_read
<1>10. c = IF m.dentry[d].ftype = "SFS_DIR" THEN C[SFS_INO_OFS(u)].dir_cnt ELSE 0
  BY <1>0 DEF EntryCount, sfs_driver_read
<1>11. ASSUME NEW e \in F
       PROVE  /\ e - top - 1 \in Kids(C, u) /\ n.dentry[e].inode = NULL
              /\ n.dentry[e].ino = Kid(C, u, e - top - 1).ino
  <2>1. c # 0 /\ e \in Int
    BY <1>4, <1>5
  <2>2. e - top - 1 \in Kids(C, u)
    BY <1>4, <1>9, <1>10, <2>1 DEF Kids
  <2>3. SFS_DATA_OFS(u) + e - top - 1 = SFS_DATA_OFS(u) + (e - top - 1)
    <3>1. SFS_INO_OFS(u) \in Nat
      <4>1. 0 \in 0 .. Cells
        OBVIOUS
      <4> QED
        BY <1>8, <4>1, SlotAddress
    <3> QED
      BY <1>4, <2>1, <3>1 DEF SFS_DATA_OFS
  <2>4. sfs_driver_read(SFS_DATA_OFS(u) + e - top - 1) = Kid(C, u, e - top - 1)
    BY <2>3 DEF sfs_driver_read, Kid
  <2>5. n.dentry[e] = EntryFrom(Kid(C, u, e - top - 1), d)
    BY <1>5, <2>4
  <2> QED
    BY <2>2, <2>5 DEF EntryFrom
<1>12. ASSUME NEW e \in F, NEW f \in F, n.dentry[e].ino = n.dentry[f].ino
       PROVE  e = f
  <2>1. e - top - 1 = f - top - 1
    <3>1. e - top - 1 \in Kids(C, u) /\ f - top - 1 \in Kids(C, u)
          /\ Kid(C, u, e - top - 1).ino = Kid(C, u, f - top - 1).ino
      BY <1>11, <1>12
    <3> QED
      BY <1>8, <3>1 DEF Shape, Stored
  <2> QED
    BY <1>4, <2>1
<1>13. n.inode[i].ino = u /\ Len(n.inode[i].dentrys) = c /\ n.inode[i].dentry = d
       /\ (c = 0 => n.inode[i].dentrys = <<>>)
  <2>1. n.inode[i].ino = u /\ n.inode[i].dentry = d /\ n.inode[i].dentrys = Behind(top, c)
    BY <1>0, <1>5, <1>8 DEF InodeFrom, sfs_driver_read, Behind
  <2>2. Len(n.inode[i].dentrys) = c /\ n.inode[i].dentrys \in Seq(Nat)
    BY <1>4, <1>5, <2>1, FreshList
  <2>3. c = 0 => n.inode[i].dentrys = <<>>
    BY <2>2, EmptySeq
  <2> QED
    BY <2>1, <2>2, <2>3
<1>14. Roomy(n, i)
  <2>1. Is(n, i, "SFS_DIR") <=> m.dentry[d].ftype = "SFS_DIR"
    BY <1>7, <1>13 DEF Is
  <2> QED
    BY <1>8, <1>10, <1>13, <2>1 DEF Roomy
<1>15. ASSUME NEW j \in DOMAIN m.inode
       PROVE  /\ j # i /\ n.inode[j] = m.inode[j]
              /\ Roomy(m, j) /\ n.inode[j].dentry \in DOMAIN m.dentry => Roomy(n, j)
  <2>1. j # i /\ n.inode[j] = m.inode[j]
    BY <1>4, <1>5
  <2>2. \A e \in DOMAIN m.dentry : n.dentry[e].ftype = m.dentry[e].ftype
    BY <1>5, <1>7
  <2> QED
    BY <2>1, <2>2 DEF Roomy, Is
<1>16. ASSUME NEW e \in Linked(m)
       PROVE  /\ n.dentry[e].ino = m.dentry[e].ino
              /\ n.dentry[e].inode = IF e = d THEN i ELSE m.dentry[e].inode
              /\ n.dentry[e].inode # NULL => n.dentry[e].inode \in DOMAIN n.inode
  <2>1. /\ n.dentry[e].ino = m.dentry[e].ino
        /\ n.dentry[e].inode = IF e = d THEN i ELSE m.dentry[e].inode
    BY <1>3, <1>5, <1>7
  <2>2. e \in Linked(n)
    BY <1>2
  <2>3. n.dentry[e].inode # NULL => n.dentry[e].inode \in DOMAIN n.inode
    BY <1>2, <2>2, LoadedAt
  <2> QED
    BY <2>1, <2>3
<1>17. F \cap Linked(m) = {} /\ i # NULL
  BY <1>3, <1>4, <1>5 DEF NULL
<1>18. \A e \in F : n.dentry[e].inode = NULL /\ \E k \in Kids(C, u) : n.dentry[e].ino = Kid(C, u, k).ino
  BY <1>11
<1> HIDE DEF F
<1>19. Parts(m, n, C, d, u, F, i)
  BY <1>2, <1>5, <1>12, <1>13, <1>14, <1>15, <1>16, <1>17, <1>18 DEF Parts
<1> QED
  BY <1>19

LEMMA ReadShape ==
    ASSUME DiskType, NEW m, Heap(m), NEW C, C = disk.cell, NEW U, Shape(m, C, U), NEW d \in Linked(m),
           m.dentry[d].inode = NULL, NEW n, n = sfs_read_inode(m, d)
    PROVE  \E V : Shape(n, C, V)
<1> PICK u : u = m.dentry[d].ino
  OBVIOUS
<1> PICK F : \E i : Parts(m, n, C, d, u, F, i)
  BY ReadParts
<1> PICK i : Parts(m, n, C, d, u, F, i)
  OBVIOUS
<1> DEFINE V == U \ {u}
<1>1. /\ Linked(n) = Linked(m) \cup F /\ F \cap Linked(m) = {} /\ i # NULL
      /\ \A e \in Linked(m) : /\ n.dentry[e].ino = m.dentry[e].ino
                              /\ n.dentry[e].inode = IF e = d THEN i ELSE m.dentry[e].inode
      /\ \A e \in F : /\ n.dentry[e].inode = NULL
                      /\ \E k \in Kids(C, u) : n.dentry[e].ino = Kid(C, u, k).ino
      /\ \A e, f \in F : n.dentry[e].ino = n.dentry[f].ino => e = f
      /\ n.map_inode = m.map_inode /\ n.inode[i].ino = u /\ Roomy(n, i)
      /\ \A j \in DOMAIN m.inode : /\ j # i /\ n.inode[j] = m.inode[j]
                                   /\ Roomy(m, j) /\ n.inode[j].dentry \in DOMAIN m.dentry => Roomy(n, j)
  BY DEF Parts
<1>2. U \in SUBSET Bit /\ Stored(C, U, m.map_inode) /\ Owned(m, U) /\ Apart(m, C, U)
  BY DEF Shape
<1>3. u \in U /\ u = m.dentry[d].ino
  BY <1>2 DEF Owned
<1>4. \A v \in U : \A k \in Kids(C, v) : Kid(C, v, k).ino \in V
  BY <1>2, <1>3 DEF Stored, Apart
<1>5. Stored(C, V, n.map_inode)
  BY ONLY <1>1, <1>2, <1>4 DEF Stored
<1>6. \A e \in F : n.dentry[e].ino \in V
  BY <1>1, <1>3, <1>4
<1>7. \A e \in Linked(m) : n.dentry[e].inode = NULL <=> n.dentry[e].ino \in V
  BY <1>1, <1>2, <1>3 DEF Owned
<1>8. ASSUME NEW e \in Linked(n), NEW f \in Linked(n), n.dentry[e].ino = n.dentry[f].ino
      PROVE  e = f
  <2>1. CASE e \in F /\ f \in F
    BY <1>1, <1>8, <2>1
  <2>2. CASE e \in Linked(m) /\ f \in Linked(m)
    BY <1>1, <1>2, <1>8, <2>2 DEF Owned
  <2>3. ASSUME NEW x \in F, NEW y \in Linked(m) PROVE n.dentry[x].ino # n.dentry[y].ino
    BY <1>1, <1>2, <1>3, <2>3 DEF Apart
  <2> QED
    BY <1>1, <1>8, <2>1, <2>2, <2>3
<1>9. ASSUME NEW e \in Linked(n), n.dentry[e].inode # NULL
      PROVE  n.inode[n.dentry[e].inode].ino = n.dentry[e].ino /\ Roomy(n, n.dentry[e].inode)
  <2>1. e \in Linked(m)
    BY <1>1, <1>9
  <2>2. CASE e = d
    BY <1>1, <1>3, <2>1, <2>2
  <2>3. CASE e # d
    <3> PICK j : j = m.dentry[e].inode
      OBVIOUS
    <3>1. j = m.dentry[e].inode /\ j # NULL /\ n.dentry[e].inode = j /\ n.dentry[e].ino = m.dentry[e].ino
      BY <1>1, <1>9, <2>1, <2>3
    <3>2. j \in DOMAIN m.inode /\ m.inode[j].dentry \in DOMAIN m.dentry
      BY <2>1, <3>1, LoadedAt
    <3>3. m.inode[j].ino = m.dentry[e].ino /\ Roomy(m, j)
      BY <1>2, <2>1, <3>1 DEF Owned
    <3> QED
      BY <1>1, <3>1, <3>2, <3>3
  <2> QED
    BY <2>2, <2>3
<1>10. Owned(n, V)
  <2>1. ASSUME NEW e \in Linked(n)
        PROVE  n.dentry[e].ino \in n.map_inode /\ (n.dentry[e].inode = NULL <=> n.dentry[e].ino \in V)
    <3>1. CASE e \in Linked(m)
      BY <1>1, <1>2, <1>7, <3>1 DEF Owned
    <3>2. CASE e \in F
      BY <1>1, <1>5, <1>6, <3>2 DEF Stored
    <3> QED
      BY <1>1, <3>1, <3>2
  <2> QED
    BY <1>8, <1>9, <2>1 DEF Owned
<1>11. Apart(n, C, V)
  <2> SUFFICES ASSUME NEW e \in Linked(n), NEW v \in V, NEW k \in Kids(C, v)
               PROVE  Kid(C, v, k).ino # n.dentry[e].ino
    BY DEF Apart
  <2>1. CASE e \in Linked(m)
    BY <1>1, <1>2, <2>1 DEF Apart
  <2>2. CASE e \in F
    <3>1. PICK l \in Kids(C, u) : n.dentry[e].ino = Kid(C, u, l).ino
      BY <1>1, <2>2
    <3> QED
      BY <1>2, <1>3, <3>1 DEF Stored
  <2> QED
    BY <1>1, <2>1, <2>2
<1>12. Shape(n, C, V)
  BY <1>2, <1>5, <1>10, <1>11 DEF Shape
<1> QED
  BY <1>12
-------------------------------------------------------------------------------
\* Each dentry e of n stands for g[e] of m: it has its number and its inode.
StandsFor(m, n, U, g) ==
    /\ g \in [Linked(n) -> Linked(m)]
    /\ \A e, f \in Linked(n) : g[e] = g[f] => e = f
    /\ U \subseteq n.map_inode
    /\ \A e \in Linked(n) :
          /\ n.dentry[e].ino = m.dentry[g[e]].ino /\ n.dentry[e].inode = m.dentry[g[e]].inode
          /\ n.dentry[e].ino \in n.map_inode
          /\ n.dentry[e].inode # NULL =>
                LET i == n.dentry[e].inode IN n.inode[i].ino = m.inode[i].ino /\ Roomy(n, i)

LEMMA ShapeCarried ==
    ASSUME NEW m, NEW C, NEW U, Shape(m, C, U), NEW n, NEW g, StandsFor(m, n, U, g)
    PROVE  Shape(n, C, U)
<1>1. U \in SUBSET Bit /\ Stored(C, U, m.map_inode) /\ Owned(m, U) /\ Apart(m, C, U)
  BY DEF Shape
<1>2. Stored(C, U, n.map_inode)
  BY <1>1 DEF Stored, StandsFor
<1>3. Owned(n, U)
  <2>1. ASSUME NEW e \in Linked(n)
        PROVE  /\ n.dentry[e].ino \in n.map_inode
               /\ n.dentry[e].inode = NULL <=> n.dentry[e].ino \in U
               /\ n.dentry[e].inode # NULL =>
                     n.inode[n.dentry[e].inode].ino = n.dentry[e].ino /\ Roomy(n, n.dentry[e].inode)
    BY <1>1 DEF StandsFor, Owned
  <2>2. ASSUME NEW e \in Linked(n), NEW f \in Linked(n), n.dentry[e].ino = n.dentry[f].ino PROVE e = f
    <3>1. g[e] \in Linked(m) /\ g[f] \in Linked(m) /\ m.dentry[g[e]].ino = m.dentry[g[f]].ino
      BY <2>2 DEF StandsFor
    <3> QED
      BY <1>1, <3>1 DEF Owned, StandsFor
  <2> QED
    BY <2>1, <2>2 DEF Owned
<1>4. Apart(n, C, U)
  BY <1>1 DEF Apart, StandsFor
<1> QED
  BY <1>1, <1>2, <1>3, <1>4 DEF Shape

\* Where the number of every dentry, the inodes and the lists stay, so does the shape.
LEMMA ShapeAltered ==
    ASSUME NEW m, Heap(m), NEW C, NEW U, Shape(m, C, U), NEW n, Altered(m, n), Linked(n) = Linked(m),
           n.map_inode = m.map_inode, \A d \in DOMAIN m.dentry : n.dentry[d].ino = m.dentry[d].ino,
           \A e \in Linked(m), i \in DOMAIN m.inode : i = m.dentry[e].inode =>
               n.inode[i].ino = m.inode[i].ino /\ (Is(m, i, "SFS_DIR") => Is(n, i, "SFS_DIR"))
    PROVE  Shape(n, C, U)
<1> DEFINE g == [e \in Linked(m) |-> e]
<1>1. Linked(m) \subseteq DOMAIN m.dentry
  BY DEF Heap, HeapBut, Allocated
<1>2. U \subseteq n.map_inode
  BY DEF Shape, Stored
<1>3. ASSUME NEW e \in Linked(m)
      PROVE  /\ n.dentry[e].ino = m.dentry[e].ino /\ n.dentry[e].inode = m.dentry[e].inode
             /\ n.dentry[e].ino \in n.map_inode
             /\ n.dentry[e].inode # NULL =>
                   LET i == n.dentry[e].inode IN n.inode[i].ino = m.inode[i].ino /\ Roomy(n, i)
  <2> PICK i : i = m.dentry[e].inode
    OBVIOUS
  <2>1. n.dentry[e].ino = m.dentry[e].ino /\ n.dentry[e].inode = i /\ i = m.dentry[e].inode
    BY <1>1 DEF Altered
  <2>2. m.dentry[e].ino \in m.map_inode
    BY DEF Shape, Owned
  <2>3. ASSUME i # NULL PROVE n.inode[i].ino = m.inode[i].ino /\ Roomy(n, i)
    <3>1. i \in DOMAIN m.inode
      BY <2>1, <2>3, LoadedAt
    <3>2. Roomy(m, i)
      BY <2>1, <2>3 DEF Shape, Owned
    <3>3. n.inode[i].ino = m.inode[i].ino /\ (Is(m, i, "SFS_DIR") => Is(n, i, "SFS_DIR"))
      BY <2>1, <3>1
    <3> QED
      BY <3>1, <3>2, <3>3 DEF Roomy, Altered
  <2> QED
    BY <2>1, <2>2, <2>3
<1>4. StandsFor(m, n, U, g)
  BY <1>2, <1>3 DEF StandsFor
<1> QED
  BY <1>4, ShapeCarried

\* The directory that gets a new dentry is one.
LEMMA MadeInDir ==
    ASSUME NEW m, Heap(m), NEW path \in Path, InKnownDir(m, path), sfs_lookup(m, path).find = {FALSE},
           NEW i, i = m.dentry[sfs_lookup(m, path).ret].inode
    PROVE  Is(m, i, "SFS_DIR") /\ \E d \in Linked(m) : m.dentry[d].inode = i /\ i # NULL
<1> PICK c : LET d == c[Len(path) - 1]
                 j == m.dentry[d].inode
             IN  /\ Way(m, path, Len(path) - 1, c) /\ d \in Linked(m) /\ Lacks(m, d, Last(path))
                 /\ j \in DOMAIN m.inode
                 /\ sfs_lookup(m, path).ret = m.inode[j].dentry
                 /\ m.inode[j].dentry \in DOMAIN m.dentry /\ m.dentry[m.inode[j].dentry].inode = j
  BY AbsentAt
<1> PICK d : d = c[Len(path) - 1]
  OBVIOUS
<1>1. d \in Linked(m) /\ Lacks(m, d, Last(path)) /\ i = m.dentry[d].inode
  OBVIOUS
<1> QED
  BY <1>1 DEF Lacks, IsDir
-------------------------------------------------------------------------------
\* A new dentry gets a number nobody owns: not in memory and not on the disk.
LEMMA MadeShape ==
    ASSUME NEW m, Heap(m), NEW C, NEW U, Shape(m, C, U), NEW n, NEW p, NEW i, NEW d, NEW fname,
           NEW ft \in FileType, MadeIn(m, n, p, i, d, fname, ft), NewNumber(m, n, d, ft),
           Is(m, i, "SFS_DIR"), Len(m.inode[i].dentrys) < Cells
    PROVE  Shape(n, C, U)
<1> PICK l : l = Top(m.inode) + 1
  OBVIOUS
<1>0. l = Top(m.inode) + 1
  OBVIOUS
<1>1. PICK no \in Bit \ m.map_inode :
        /\ n.map_inode = m.map_inode \cup {no} /\ n.dentry[d].inode = l /\ n.dentry[d].ino = no
        /\ l \notin DOMAIN m.inode /\ l # NULL /\ n.inode[l] = NewInode(no, d, ft)
  BY <1>0 DEF NewNumber
<1>2. /\ Heap(n) /\ Linked(n) = Linked(m) \cup {d} /\ d \notin DOMAIN m.dentry
      /\ \A e \in DOMAIN m.dentry : n.dentry[e] = m.dentry[e]
      /\ i \in DOMAIN m.inode /\ \A j \in DOMAIN m.inode : j # i => n.inode[j] = m.inode[j]
      /\ n.inode[i] = Headed(m.inode[i], d) /\ d # NULL
  BY DEF MadeIn
<1>3. U \in SUBSET Bit /\ Stored(C, U, m.map_inode) /\ Owned(m, U) /\ Apart(m, C, U)
  BY DEF Shape
<1>4. Linked(m) \subseteq DOMAIN m.dentry /\ Memory(m) /\ Memory(n) /\ d \in DOMAIN n.dentry
  BY <1>2 DEF Heap, HeapBut, Allocated
<1>5. Stored(C, U, n.map_inode)
  BY <1>1, <1>3 DEF Stored
<1>6. no \notin U /\ \A u \in U : \A k \in Kids(C, u) : Kid(C, u, k).ino # no
  BY <1>1, <1>3 DEF Stored
<1>7. Apart(n, C, U)
  BY <1>1, <1>2, <1>3, <1>4, <1>6 DEF Apart
<1>8. n.inode[i].ino = m.inode[i].ino /\ Roomy(n, i)
  <2>1. m.inode[i] \in Inode /\ m.inode[i].dentrys \in Seq(Nat) /\ Len(m.inode[i].dentrys) \in Nat
    BY <1>2, <1>4, InodeFields
  <2> DEFINE r == <<d>> \o m.inode[i].dentrys
  <2>2. d \in Nat
    BY <1>2, <1>4, MemoryFields
  <2>3. Len(r) = Len(m.inode[i].dentrys) + 1
    <3>1. <<d>> \in Seq(Nat) /\ Len(<<d>>) = 1
      BY <2>2
    <3>2. Joined(Nat, <<d>>, m.inode[i].dentrys, r)
      BY <2>1, <3>1, InARow
    <3> QED
      BY <2>1, <3>1, <3>2 DEF Joined
  <2> HIDE DEF r
  <2>4. n.inode[i] = [m.inode[i] EXCEPT !.dentrys = r]
    BY <1>2 DEF Headed, r
  <2>5. n.inode[i].ino = m.inode[i].ino /\ n.inode[i].dentrys = r /\ n.inode[i].dentry = m.inode[i].dentry
    BY <2>1, <2>4 DEF Inode
  <2>6. m.inode[i].dentry \in DOMAIN m.dentry
    BY DEF MadeIn
  <2>7. Is(n, i, "SFS_DIR")
    BY <1>2, <2>5, <2>6 DEF Is
  <2> QED
    BY <2>1, <2>3, <2>5, <2>7 DEF Roomy
<1>9. n.inode[l].ino = no /\ Roomy(n, l)
  <2>1. d \in Nat
    BY <1>2, <1>4, MemoryFields
  <2>2. NewInode(no, d, ft).dentrys = <<>> /\ NewInode(no, d, ft).ino = no
    BY <1>1, <2>1, NewInodeType
  <2>3. Len(<<>>) = 0 /\ 0 <= Cells
    OBVIOUS
  <2> QED
    BY <1>1, <2>2, <2>3 DEF Roomy
<1>10. ASSUME NEW e \in Linked(m), NEW j, j = m.dentry[e].inode, j # NULL
       PROVE  n.inode[j].ino = n.dentry[e].ino /\ Roomy(n, j)
  <2>1. j \in DOMAIN m.inode /\ m.inode[j].dentry \in DOMAIN m.dentry
    BY <1>10, LoadedAt
  <2>2. m.inode[j].ino = m.dentry[e].ino /\ Roomy(m, j) /\ n.dentry[e] = m.dentry[e]
    BY <1>2, <1>3, <1>4, <1>10 DEF Owned
  <2>3. CASE j = i
    BY <1>8, <2>2, <2>3
  <2>4. CASE j # i
    BY <1>2, <2>1, <2>2, <2>4 DEF Roomy, Is
  <2> QED
    BY <2>3, <2>4
<1>11. Owned(n, U)
  <2>1. ASSUME NEW e \in Linked(n)
        PROVE  /\ n.dentry[e].ino \in n.map_inode
               /\ n.dentry[e].inode = NULL <=> n.dentry[e].ino \in U
               /\ n.dentry[e].inode # NULL =>
                     n.inode[n.dentry[e].inode].ino = n.dentry[e].ino /\ Roomy(n, n.dentry[e].inode)
    <3>1. CASE e = d
      BY <1>1, <1>6, <1>9, <3>1
    <3>2. CASE e \in Linked(m)
      <4>1. n.dentry[e] = m.dentry[e]
        BY <1>2, <1>4, <3>2
      <4> QED
        BY <1>1, <1>3, <1>10, <3>2, <4>1 DEF Owned
    <3> QED
      BY <1>2, <3>1, <3>2
  <2>2. ASSUME NEW e \in Linked(n), NEW f \in Linked(n), n.dentry[e].ino = n.dentry[f].ino PROVE e = f
    <3>1. \A x \in Linked(m) : n.dentry[x] = m.dentry[x] /\ m.dentry[x].ino # no
      BY <1>1, <1>2, <1>3, <1>4 DEF Owned
    <3> QED
      BY <1>1, <1>2, <1>3, <2>2, <3>1 DEF Owned
  <2> QED
    BY <2>1, <2>2 DEF Owned
<1> QED
  BY <1>3, <1>5, <1>7, <1>11 DEF Shape

\* What an unlinked subtree owned is given back, and nothing else.
LEMMA UnlinkShape ==
    ASSUME NEW m, Heap(m), NEW C, NEW U, Shape(m, C, U), NEW n, NEW d \in Linked(m), NEW i,
           i = m.dentry[d].inode, NULL \notin Dropped(m, i), Unlinked(m, n, d, i)
    PROVE  Shape(n, C, U)
<1> DEFINE g == [e \in Linked(n) |-> e]
<1>1. /\ Heap(n) /\ Pruned(m, n) /\ i \in DOMAIN m.inode
      /\ n.map_inode = m.map_inode \ {m.inode[j].ino : j \in Dropped(m, i)}
      /\ Linked(n) \subseteq Linked(m) /\ \A e \in Linked(n) : m.dentry[e].inode \notin Dropped(m, i)
  BY DEF Unlinked
<1>2. U \in SUBSET Bit /\ Stored(C, U, m.map_inode) /\ Owned(m, U)
  BY DEF Shape
<1>3. ASSUME NEW j \in Dropped(m, i)
      PROVE  \E x \in Linked(m) : m.dentry[x].inode = j /\ m.inode[j].ino = m.dentry[x].ino /\ j # NULL
  <2>1. j = i \/ \E e \in BelowInode(m, i) : j = m.dentry[e].inode
    BY DEF Dropped
  <2>2. \A e \in BelowInode(m, i) : e \in Linked(m)
    BY <1>1, BelowLinked DEF Heap
  <2>3. PICK x \in Linked(m) : j = m.dentry[x].inode
    BY <2>1, <2>2
  <2> QED
    BY <1>2, <2>3 DEF Owned
<1>4. U \subseteq n.map_inode
  <2>1. ASSUME NEW u \in U, NEW j \in Dropped(m, i), u = m.inode[j].ino PROVE FALSE
    BY <1>2, <1>3, <2>1 DEF Owned
  <2> QED
    BY <1>1, <1>2, <2>1 DEF Stored
<1>5. ASSUME NEW e \in Linked(n)
      PROVE  /\ n.dentry[e] = m.dentry[e] /\ n.dentry[e].ino \in n.map_inode
  <2>1. n.dentry[e] = m.dentry[e]
    <3>1. e \in DOMAIN n.dentry
      BY <1>1 DEF Heap, HeapBut, Allocated
    <3> QED
      BY <1>1, <3>1 DEF Pruned
  <2>2. ASSUME NEW j \in Dropped(m, i), m.dentry[e].ino = m.inode[j].ino PROVE FALSE
    <3>1. PICK x \in Linked(m) : m.dentry[x].inode = j /\ m.inode[j].ino = m.dentry[x].ino
      BY <1>3
    <3>2. x = e
      BY <1>1, <1>2, <2>2, <3>1 DEF Owned
    <3> QED
      BY <1>1, <3>1, <3>2
  <2>3. m.dentry[e].ino \in m.map_inode
    BY <1>1, <1>2 DEF Owned
  <2> QED
    BY <1>1, <2>1, <2>2, <2>3
<1>6. ASSUME NEW e \in Linked(n), NEW j, j = n.dentry[e].inode, j # NULL
      PROVE  n.inode[j].ino = m.inode[j].ino /\ Roomy(n, j)
  <2>1. j \in DOMAIN n.inode /\ n.inode[j].dentry \in DOMAIN n.dentry
    BY <1>1, <1>6, LoadedAt
  <2>2. Memory(m) /\ Memory(n)
    BY <1>1 DEF Heap, HeapBut
  <2>3. n.inode[j].ino = m.inode[j].ino /\ n.inode[j].dentry = m.inode[j].dentry /\ j \in DOMAIN m.inode
    BY <1>1, <2>1, <2>2, PrunedInode
  <2>4. Len(n.inode[j].dentrys) <= Len(m.inode[j].dentrys)
    BY <1>1, <2>1 DEF Pruned
  <2>5. Len(n.inode[j].dentrys) \in Nat /\ Len(m.inode[j].dentrys) \in Nat /\ n.inode[j].dentrys \in Seq(Nat)
    BY <2>1, <2>2, <2>3, InodeFields
  <2>6. Roomy(m, j)
    BY <1>1, <1>2, <1>5, <1>6 DEF Owned
  <2>7. Is(n, j, "SFS_DIR") <=> Is(m, j, "SFS_DIR")
    BY <1>1, <2>1, <2>3 DEF Is, Pruned
  <2>8. m.inode[j].dentrys = <<>> => n.inode[j].dentrys = <<>>
    <3>1. Len(<<>>) = 0
      OBVIOUS
    <3>2. Len(n.inode[j].dentrys) = 0 => n.inode[j].dentrys = <<>>
      BY <2>5, EmptySeq
    <3> QED
      BY <2>4, <2>5, <3>1, <3>2
  <2>9. Len(n.inode[j].dentrys) <= Cells
    BY <2>4, <2>5, <2>6 DEF Roomy
  <2> QED
    BY <2>3, <2>6, <2>7, <2>8, <2>9 DEF Roomy
<1>7. StandsFor(m, n, U, g)
  BY <1>1, <1>4, <1>5, <1>6 DEF StandsFor
<1> QED
  BY <1>7, ShapeCarried

\* The new name of what is renamed takes over its number and its inode.
LEMMA RenameShape ==
    ASSUME NEW m, Heap(m), NEW C, NEW U, Shape(m, C, U), NEW n, NEW ip \in DOMAIN m.inode, NEW f \in Linked(m),
           NEW t, NEW i, i = m.dentry[f].inode, i # NULL, NEW fname, NEW ft, Renamed(m, n, ip, f, t, i, fname, ft),
           Is(m, ip, "SFS_DIR"), Len(m.inode[ip].dentrys) < Cells
    PROVE  Shape(n, C, U)
<1> DEFINE g == [e \in Linked(n) |-> IF e = t THEN f ELSE e]
<1>1. /\ Heap(n) /\ n.map_inode = m.map_inode
      /\ Linked(n) = (Linked(m) \cup {t}) \ {f} /\ t \notin DOMAIN m.dentry
      /\ \A e \in DOMAIN m.dentry : n.dentry[e] = m.dentry[e]
      /\ n.dentry[t].inode = i /\ n.dentry[t].ino = m.inode[i].ino
      /\ DOMAIN m.inode \subseteq DOMAIN n.inode
      /\ \A l \in DOMAIN m.inode :
            /\ n.inode[l] = [m.inode[l] EXCEPT !.dentrys = n.inode[l].dentrys]
            /\ Len(n.inode[l].dentrys) <= Len(m.inode[l].dentrys) + (IF l = ip THEN 1 ELSE 0)
  BY DEF Renamed
<1>2. U \in SUBSET Bit /\ Stored(C, U, m.map_inode) /\ Owned(m, U)
  BY DEF Shape
<1>3. Linked(m) \subseteq DOMAIN m.dentry /\ Memory(m) /\ Memory(n)
  BY <1>1 DEF Heap, HeapBut, Allocated
<1>4. ASSUME NEW e \in Linked(m), NEW j, j = m.dentry[e].inode, j # NULL
      PROVE  n.inode[j].ino = m.inode[j].ino /\ Roomy(n, j)
  <2>1. j \in DOMAIN m.inode /\ m.inode[j].dentry \in DOMAIN m.dentry
    BY <1>4, LoadedAt
  <2>2. j \in DOMAIN n.inode
    BY <1>1, <2>1
  <2>3. /\ m.inode[j] \in Inode /\ Len(n.inode[j].dentrys) \in Nat /\ Len(m.inode[j].dentrys) \in Nat
        /\ n.inode[j].dentrys \in Seq(Nat)
    BY <1>3, <2>1, <2>2, InodeFields
  <2>4. n.inode[j].ino = m.inode[j].ino /\ n.inode[j].dentry = m.inode[j].dentry
    BY <1>1, <2>1, <2>3 DEF Inode
  <2>5. Is(n, j, "SFS_DIR") <=> Is(m, j, "SFS_DIR")
    BY <1>1, <2>1, <2>4 DEF Is
  <2>6. Roomy(m, j)
    BY <1>2, <1>4 DEF Owned
  <2>a. Len(n.inode[j].dentrys) <= Len(m.inode[j].dentrys) + (IF j = ip THEN 1 ELSE 0)
    BY <1>1, <2>1
  <2>7. CASE j = ip
    <3>1. Len(n.inode[j].dentrys) <= Len(m.inode[j].dentrys) + 1
      BY <2>a, <2>7
    <3>2. Len(n.inode[j].dentrys) <= Cells /\ Is(n, j, "SFS_DIR")
      BY <2>3, <2>5, <2>7, <3>1
    <3> QED
      BY <2>4, <3>2 DEF Roomy
  <2>8. CASE j # ip
    <3>1. Len(n.inode[j].dentrys) <= Len(m.inode[j].dentrys)
      BY <2>3, <2>8, <2>a
    <3>2. m.inode[j].dentrys = <<>> => n.inode[j].dentrys = <<>>
      <4>1. Len(<<>>) = 0
        OBVIOUS
      <4>2. Len(n.inode[j].dentrys) = 0 => n.inode[j].dentrys = <<>>
        BY <2>3, EmptySeq
      <4> QED
        BY <2>3, <3>1, <4>1, <4>2
    <3> QED
      BY <2>3, <2>4, <2>5, <2>6, <3>1, <3>2 DEF Roomy
  <2> QED
    BY <2>7, <2>8
<1>5. m.inode[i].ino = m.dentry[f].ino
  BY <1>2 DEF Owned
<1>6. ASSUME NEW e \in Linked(n)
      PROVE  /\ g[e] \in Linked(m) /\ n.dentry[e].ino = m.dentry[g[e]].ino
             /\ n.dentry[e].inode = m.dentry[g[e]].inode
  BY <1>1, <1>3, <1>5
<1>7. ASSUME NEW e \in Linked(n), NEW x \in Linked(n), g[e] = g[x] PROVE e = x
  BY <1>1, <1>7
<1> HIDE DEF g
<1>8. \A e \in Linked(n) : n.dentry[e].ino \in n.map_inode
  BY <1>1, <1>2, <1>6 DEF Owned
<1>9. ASSUME NEW e \in Linked(n), NEW j, j = n.dentry[e].inode, j # NULL
      PROVE  n.inode[j].ino = m.inode[j].ino /\ Roomy(n, j)
  BY <1>4, <1>6, <1>9
<1>10. g \in [Linked(n) -> Linked(m)]
  BY <1>6 DEF g
<1>11. U \subseteq n.map_inode
  BY <1>1, <1>2 DEF Stored
<1>12. StandsFor(m, n, U, g)
  BY <1>6, <1>7, <1>8, <1>9, <1>10, <1>11 DEF StandsFor
<1> QED
  BY <1>12, ShapeCarried
-------------------------------------------------------------------------------
\* What sfs_sync_inode puts where: cell k of the slot of inode i.
Offsets(m, i) == {0} \cup (IF Is(m, i, "SFS_DIR") THEN DOMAIN m.inode[i].dentrys ELSE {})
Image(m, i, k) ==
    IF k = 0 THEN InodeD(m.inode[i]) ELSE DentryD(m.dentry[m.inode[i].dentrys[k]])
Cell(m, i, k) == SFS_INO_OFS(m.inode[i].ino) + k

\* The inodes in memory of what is linked.
Owners(m) == {m.dentry[d].inode : d \in Linked(m)} \ {NULL}

\* The first n writes for inode i are on the disk, and their calls have been made: S has the inodes.
Put(m, C, i, n) == \A k \in Offsets(m, i) : k < n => C[Cell(m, i, k)] = Image(m, i, k)
Followed(m, S, i, n) ==
    \A k \in DOMAIN m.inode[i].dentrys :
        k < n => m.dentry[m.inode[i].dentrys[k]].inode \in S \cup {NULL}
Done(m, C, S, i, n) == Put(m, C, i, n) /\ Followed(m, S, i, n)

Called(E, W) == E \cup {f.inode : f \in W}

\* sfs_sync_inode under way: for the inodes E it has returned, the calls W are on the stack.
Synced(m, C, W, E) ==
    /\ E \subseteq Owners(m)
    /\ \A i \in E : Done(m, C, Called(E, W), i, Len(m.inode[i].dentrys) + 1)
    /\ \A f \in W : Done(m, C, Called(E, W), f.inode, f.next)
    /\ m.dentry[Root].inode \in Called(E, W)

\* One write for inode i: what changes lies in its slot and is what belongs there.
Writing(m, C, D, i, k) ==
    /\ \A a \in Address : D[a] # C[a] =>
          \E l \in 0 .. Cells : a = Cell(m, i, l) /\ (l \in Offsets(m, i) => D[a] = Image(m, i, l))
    /\ k \in Offsets(m, i) => D[Cell(m, i, k)] = Image(m, i, k)

\* An inode of what is linked, and where it goes.
LEMMA OwnerFacts ==
    ASSUME NEW m, Heap(m), NEW C, NEW U, Shape(m, C, U), NEW i \in Owners(m)
    PROVE  /\ i \in DOMAIN m.inode /\ m.inode[i].ino \in Bit \ U /\ m.inode[i].ino \in m.map_inode
           /\ Roomy(m, i) /\ Offsets(m, i) \subseteq 0 .. Cells
           /\ \E d \in Linked(m) : m.dentry[d].inode = i /\ m.inode[i].ino = m.dentry[d].ino
           /\ \A k \in 0 .. Cells : Cell(m, i, k) \in Address
<1>1. PICK d \in Linked(m) : i = m.dentry[d].inode /\ i # NULL
  BY DEF Owners
<1>2. m.inode[i].ino = m.dentry[d].ino /\ m.dentry[d].ino \notin U /\ m.dentry[d].ino \in m.map_inode
      /\ Roomy(m, i)
  BY <1>1 DEF Shape, Owned
<1>3. i \in DOMAIN m.inode /\ Memory(m)
  BY <1>1, LoadedAt DEF Heap, HeapBut
<1>4. m.inode[i].ino \in Bit /\ DOMAIN m.inode[i].dentrys = 1 .. Len(m.inode[i].dentrys)
      /\ Len(m.inode[i].dentrys) \in Nat
  BY <1>3, InodeFields
<1>5. Offsets(m, i) \subseteq 0 .. Cells
  BY <1>2, <1>4 DEF Offsets, Roomy
<1>6. \A k \in 0 .. Cells : Cell(m, i, k) \in Address
  BY <1>4, SlotAddress DEF Cell
<1> QED
  BY <1>1, <1>2, <1>3, <1>4, <1>5, <1>6

\* A cell belongs to one inode.
LEMMA CellOnce ==
    ASSUME NEW m, Heap(m), NEW C, NEW U, Shape(m, C, U), NEW i \in Owners(m), NEW j \in Owners(m),
           NEW k \in 0 .. Cells, NEW l \in 0 .. Cells, Cell(m, i, k) = Cell(m, j, l)
    PROVE  i = j /\ k = l
<1>1. PICK d \in Linked(m) : m.dentry[d].inode = i /\ m.inode[i].ino = m.dentry[d].ino
  BY OwnerFacts
<1>2. PICK e \in Linked(m) : m.dentry[e].inode = j /\ m.inode[j].ino = m.dentry[e].ino
  BY OwnerFacts
<1>3. m.inode[i].ino \in Int /\ m.inode[j].ino \in Int
  <2>1. m.inode[i].ino \in Bit /\ m.inode[j].ino \in Bit
    BY OwnerFacts
  <2> QED
    BY <2>1 DEF Bit
<1>4. m.inode[i].ino = m.inode[j].ino /\ k = l
  BY <1>3, SlotsApart DEF Cell
<1>5. d = e
  BY <1>1, <1>2, <1>4 DEF Shape, Owned
<1> QED
  BY <1>1, <1>2, <1>4, <1>5

\* What has been put stays put.
LEMMA PutKept ==
    ASSUME NEW m, Heap(m), NEW C, NEW U, Shape(m, C, U), NEW D, NEW i \in Owners(m), NEW k,
           Writing(m, C, D, i, k), NEW j \in Owners(m), NEW n, Put(m, C, j, n)
    PROVE  Put(m, D, j, n)
<1> SUFFICES ASSUME NEW l \in Offsets(m, j), l < n PROVE D[Cell(m, j, l)] = Image(m, j, l)
  BY DEF Put
<1> PICK a : a = Cell(m, j, l)
  OBVIOUS
<1>1. a = Cell(m, j, l) /\ l \in 0 .. Cells /\ a \in Address
  BY OwnerFacts
<1>2. C[a] = Image(m, j, l)
  BY <1>1 DEF Put
<1>3. CASE D[a] # C[a]
  <2>1. PICK x \in 0 .. Cells : a = Cell(m, i, x) /\ (x \in Offsets(m, i) => D[a] = Image(m, i, x))
    BY <1>1, <1>3 DEF Writing
  <2>2. i = j /\ x = l
    <3>1. Cell(m, i, x) = Cell(m, j, l) /\ x \in 0 .. Cells /\ l \in 0 .. Cells
      BY <1>1, <2>1
    <3> QED
      BY <3>1, CellOnce
  <2> QED
    BY <1>1, <2>1, <2>2
<1> QED
  BY <1>1, <1>2, <1>3

\* And the write at hand puts one more.
LEMMA PutNext ==
    ASSUME NEW m, Heap(m), NEW C, NEW U, Shape(m, C, U), NEW D, NEW i \in Owners(m), NEW k \in Nat,
           Writing(m, C, D, i, k), Put(m, C, i, k)
    PROVE  Put(m, D, i, k + 1)
<1>1. Put(m, D, i, k)
  BY PutKept
<1> SUFFICES ASSUME NEW l \in Offsets(m, i), l < k + 1 PROVE D[Cell(m, i, l)] = Image(m, i, l)
  BY DEF Put
<1>2. l \in Nat
  <2>1. l \in 0 .. Cells
    BY OwnerFacts
  <2> QED
    BY <2>1
<1>3. CASE l = k
  BY <1>3 DEF Writing
<1>4. CASE l # k
  <2>1. l < k
    BY <1>2, <1>4
  <2> QED
    BY <1>1, <2>1 DEF Put
<1> QED
  BY <1>3, <1>4

\* The slots of the numbers that are not loaded are not touched.
LEMMA WritingShape ==
    ASSUME NEW m, Heap(m), NEW C \in [Address -> DiskCell], NEW U, Shape(m, C, U), NEW D, NEW i \in Owners(m),
           NEW k, Writing(m, C, D, i, k)
    PROVE  Shape(m, D, U)
<1>1. U \in SUBSET Bit /\ Stored(C, U, m.map_inode) /\ Owned(m, U) /\ Apart(m, C, U)
  BY DEF Shape
<1>2. m.inode[i].ino \in Bit \ U
  BY OwnerFacts
<1>3. ASSUME NEW u \in U, NEW x \in 0 .. Cells PROVE D[SFS_INO_OFS(u) + x] = C[SFS_INO_OFS(u) + x]
  <2> SUFFICES ASSUME D[SFS_INO_OFS(u) + x] # C[SFS_INO_OFS(u) + x] PROVE FALSE
    OBVIOUS
  <2>1. SFS_INO_OFS(u) + x \in Address
    BY <1>1, SlotAddress
  <2>2. PICK l \in 0 .. Cells : SFS_INO_OFS(u) + x = SFS_INO_OFS(m.inode[i].ino) + l
    BY <2>1 DEF Writing, Cell
  <2>3. u \in Int /\ m.inode[i].ino \in Int
    BY <1>1, <1>2 DEF Bit
  <2>4. u = m.inode[i].ino
    BY <2>2, <2>3, SlotsApart
  <2> QED
    BY <1>2, <2>4
<1>4. ASSUME NEW u \in U PROVE D[SFS_INO_OFS(u)] = C[SFS_INO_OFS(u)] /\ C[SFS_INO_OFS(u)].dir_cnt \in Nat
                               /\ SFS_INO_OFS(u) \in Nat
  <2>1. 0 \in 0 .. Cells
    OBVIOUS
  <2>2. SFS_INO_OFS(u) \in Nat /\ SFS_INO_OFS(u) + 0 \in Address /\ D[SFS_INO_OFS(u) + 0] = C[SFS_INO_OFS(u) + 0]
    BY <1>1, <1>3, <2>1, SlotAddress
  <2>3. SFS_INO_OFS(u) \in Address /\ D[SFS_INO_OFS(u)] = C[SFS_INO_OFS(u)]
    BY <2>2
  <2>4. C[SFS_INO_OFS(u)] \in DiskCell /\ C[SFS_INO_OFS(u)].type = "inode"
    BY <1>1, <2>3 DEF Stored
  <2>5. C[SFS_INO_OFS(u)].dir_cnt \in Nat
    BY <2>4 DEF DiskCell, Zero
  <2> QED
    BY <2>2, <2>3, <2>5
<1>5. ASSUME NEW u \in U PROVE Kids(D, u) = Kids(C, u) /\ \A x \in Kids(C, u) : Kid(D, u, x) = Kid(C, u, x)
  <2>1. Kids(D, u) = Kids(C, u)
    BY <1>4 DEF Kids
  <2>2. ASSUME NEW x \in Kids(C, u) PROVE Kid(D, u, x) = Kid(C, u, x)
    <3>1. C[SFS_INO_OFS(u)].dir_cnt <= Cells
      BY <1>1 DEF Stored
    <3>2. x + 1 \in 0 .. Cells /\ x \in Int
      BY <1>4, <3>1 DEF Kids
    <3>3. SFS_DATA_OFS(u) + x = SFS_INO_OFS(u) + (x + 1)
      BY <1>4, <3>2 DEF SFS_DATA_OFS
    <3> QED
      BY <1>3, <3>2, <3>3 DEF Kid
  <2> QED
    BY <2>1, <2>2
<1>6. Stored(D, U, m.map_inode)
  BY <1>1, <1>4, <1>5 DEF Stored
<1>7. Apart(m, D, U)
  BY <1>1, <1>5 DEF Apart
<1> QED
  BY <1>1, <1>6, <1>7 DEF Shape
-------------------------------------------------------------------------------
\* From at on, n cells of D are contents, and the others are those of C.
Replaced(C, D, at, contents, n) ==
    \A a \in Address : /\ D[a] # C[a] => \E l \in 0 .. n - 1 : a = at + l
                       /\ \A l \in 0 .. n - 1 : a = at + l => D[a] = contents[l + 1]

LEMMA WriteAt ==
    ASSUME DiskIs(disk), NEW at \in Nat, NEW contents, sfs_driver_write(at, contents), NEW n \in Nat,
           DOMAIN contents = 1 .. n
    PROVE  Replaced(disk.cell, disk'.cell, at, contents, n)
<1> SUFFICES ASSUME NEW a \in Address
             PROVE  /\ disk'.cell[a] # disk.cell[a] => \E l \in 0 .. n - 1 : a = at + l
                    /\ \A l \in 0 .. n - 1 : a = at + l => disk'.cell[a] = contents[l + 1]
  BY DEF Replaced
<1> DEFINE cell == [x \in Address |-> IF x - at + 1 \in DOMAIN contents THEN contents[x - at + 1]
                                      ELSE disk.cell[x]]
<1>1. a \in Nat
  BY DEF Address
<1>2. disk' = [disk EXCEPT !.cell = cell]
  BY DEF sfs_driver_write
<1>3. disk'.cell = cell
  BY <1>2 DEF DiskIs
<1>4. disk'.cell[a] = IF a - at + 1 \in 1 .. n THEN contents[a - at + 1] ELSE disk.cell[a]
  BY <1>3
<1>5. disk'.cell[a] # disk.cell[a] => a - at \in 0 .. n - 1 /\ a = at + (a - at)
  BY <1>1, <1>4
<1>6. ASSUME NEW l \in 0 .. n - 1, a = at + l PROVE disk'.cell[a] = contents[l + 1]
  BY <1>1, <1>4, <1>6
<1> QED
  BY <1>5, <1>6

\* The write at hand of the call on top of the stack.
LEMMA SyncWrites ==
    ASSUME DiskIs(disk), Heap(mem), NEW U, Shape(mem, disk.cell, U), NEW f,
           NEW i \in Owners(mem), i = f.inode, f.next \in Nat,
           WriteInode(f) \/ WriteDentry(f) \/ WriteData(f)
    PROVE  Writing(mem, disk.cell, disk'.cell, i, f.next)
<1> DEFINE C == disk.cell
           D == disk'.cell
           base == SFS_INO_OFS(mem.inode[i].ino)
<1>1. /\ i \in DOMAIN mem.inode /\ mem.inode[i].ino \in Bit /\ Roomy(mem, i)
      /\ Offsets(mem, i) \subseteq 0 .. Cells /\ \A k \in 0 .. Cells : Cell(mem, i, k) \in Address
  BY OwnerFacts
<1>2. base \in Nat
  <2>1. 0 \in 0 .. Cells
    OBVIOUS
  <2> QED
    BY <1>1, <2>1, SlotAddress
\* One cell, the one at k, is written with what belongs there.
<1>3. ASSUME NEW k \in Offsets(mem, i), k = f.next,
             sfs_driver_write(base + k, <<Image(mem, i, k)>>)
      PROVE  Writing(mem, C, D, i, k)
  <2>1. k \in 0 .. Cells /\ base + k \in Nat /\ Cell(mem, i, k) = base + k /\ base + k \in Address
    BY <1>1, <1>2 DEF Cell
  <2> DEFINE contents == <<Image(mem, i, k)>>
  <2>2. DOMAIN contents = 1 .. 1 /\ contents[1] = Image(mem, i, k)
    OBVIOUS
  <2>3. sfs_driver_write(base + k, contents) /\ 1 \in Nat
    BY <1>3
  <2> HIDE DEF contents
  <2>4. ASSUME NEW a \in Address
        PROVE  /\ D[a] # C[a] => \E l \in 0 .. 1 - 1 : a = (base + k) + l
               /\ \A l \in 0 .. 1 - 1 : a = (base + k) + l => D[a] = contents[l + 1]
    <3>1. Replaced(disk.cell, disk'.cell, base + k, contents, 1)
      BY <2>1, <2>2, <2>3, WriteAt
    <3> QED
      BY <3>1 DEF Replaced
  <2>5. ASSUME NEW a \in Address
        PROVE  /\ D[a] # C[a] => a = base + k
               /\ a = base + k => D[a] = Image(mem, i, k)
    <3>1. \A l \in 0 .. 1 - 1 : l = 0
      OBVIOUS
    <3>2. 0 \in 0 .. 1 - 1 /\ (base + k) + 0 = base + k
      BY <2>1
    <3> QED
      BY <2>2, <2>4, <3>1, <3>2
  <2> QED
    BY <1>3, <2>1, <2>5 DEF Writing
<1>4. CASE WriteInode(f)
  <2>1. f.next = 0 /\ sfs_driver_write(base, <<InodeD(mem.inode[i])>>)
    BY <1>4 DEF WriteInode
  <2>2. 0 \in Offsets(mem, i) /\ Image(mem, i, 0) = InodeD(mem.inode[i]) /\ base + 0 = base
    BY <1>2 DEF Offsets, Image
  <2> HIDE DEF base, C, D
  <2>3. sfs_driver_write(base + 0, <<Image(mem, i, 0)>>)
    BY <2>1, <2>2
  <2>4. Writing(mem, C, D, i, 0)
    BY <1>3, <2>1, <2>2, <2>3
  <2> QED
    BY <2>1, <2>4 DEF C, D
<1>5. CASE WriteDentry(f)
  <2>1. /\ Is(mem, i, "SFS_DIR") /\ f.next \in 1 .. Writes(i)
        /\ sfs_driver_write(SFS_DATA_OFS(mem.inode[i].ino) + f.next - 1,
                            <<DentryD(mem.dentry[mem.inode[i].dentrys[f.next]])>>)
    BY <1>5 DEF WriteDentry
  <2>2. f.next \in DOMAIN mem.inode[i].dentrys /\ f.next # 0
    <3>1. DOMAIN mem.inode[i].dentrys = 1 .. Len(mem.inode[i].dentrys) /\ Len(mem.inode[i].dentrys) \in Nat
      BY <1>1, InodeFields DEF Heap, HeapBut
    <3> QED
      BY <2>1, <3>1 DEF Writes
  <2>3. f.next \in Offsets(mem, i)
    BY <2>1, <2>2 DEF Offsets
  <2>4. SFS_DATA_OFS(mem.inode[i].ino) + f.next - 1 = base + f.next
    BY <1>2 DEF SFS_DATA_OFS
  <2>5. Image(mem, i, f.next) = DentryD(mem.dentry[mem.inode[i].dentrys[f.next]])
    BY <2>2 DEF Image
  <2> HIDE DEF base, C, D
  <2>6. sfs_driver_write(base + f.next, <<Image(mem, i, f.next)>>)
    BY <2>1, <2>4, <2>5
  <2>7. Writing(mem, C, D, i, f.next)
    BY <1>3, <2>3, <2>6
  <2> QED
    BY <2>7 DEF C, D
<1>6. CASE WriteData(f)
  <2> DEFINE contents == [k \in 1 .. Cells |-> DataD(mem.inode[i].data[k])]
  <2>1. /\ Is(mem, i, "SFS_REG_FILE") /\ f.next = 1
        /\ sfs_driver_write(SFS_DATA_OFS(mem.inode[i].ino), contents)
    BY <1>6 DEF WriteData
  <2>2. DOMAIN contents = 1 .. Cells
    OBVIOUS
  <2>3. SFS_DATA_OFS(mem.inode[i].ino) = base + 1 /\ base + 1 \in Nat
    BY <1>2 DEF SFS_DATA_OFS
  <2>4. Offsets(mem, i) = {0}
    BY <2>1 DEF Offsets, Is
  <2> HIDE DEF contents, base, C, D
  <2>5. sfs_driver_write(base + 1, contents) /\ Cells \in Nat
    BY <2>1, <2>3
  <2>6. ASSUME NEW a \in Address, D[a] # C[a]
        PROVE  \E l \in 0 .. Cells : a = base + l /\ l \notin Offsets(mem, i)
    <3>0. Replaced(C, D, base + 1, contents, Cells)
      BY <2>2, <2>3, <2>5, WriteAt DEF C, D
    <3>1. PICK l \in 0 .. Cells - 1 : a = (base + 1) + l
      BY <2>6, <3>0 DEF Replaced
    <3>2. l + 1 \in 0 .. Cells /\ l + 1 # 0 /\ a = base + (l + 1)
      BY <1>2, <3>1 DEF base
    <3> QED
      BY <2>4, <3>2
  <2>7. \A l : Cell(mem, i, l) = base + l
    BY DEF Cell, base
  <2>8. f.next \notin Offsets(mem, i)
    BY <2>1, <2>4
  <2>9. Writing(mem, C, D, i, f.next)
    BY <2>6, <2>7, <2>8 DEF Writing
  <2> QED
    BY <2>9 DEF C, D
<1> QED
  BY <1>4, <1>5, <1>6
-------------------------------------------------------------------------------
\* The frames after a write of call f: P calls for the inode of the dentry written, g is f with one
\* write more unless it has returned, and T lies below.
After(frames, P, g, f, T) ==
    /\ \A h \in P : h.next = 0 /\ h.inode \in DOMAIN mem.inode
    /\ g.inode = f.inode /\ g.next = f.next + 1
    /\ frames = P \cup (IF f.next >= Writes(f.inode) THEN {} ELSE {g}) \cup T
    /\ \A k \in DOMAIN mem.inode[f.inode].dentrys : k = f.next =>
          \/ mem.dentry[mem.inode[f.inode].dentrys[k]].inode = NULL
          \/ \E h \in P : h.inode = mem.dentry[mem.inode[f.inode].dentrys[k]].inode

LEMMA StackAfter ==
    ASSUME Heap(mem), Stacked(mem, work), work # <<>>, NEW f, f = Head(work), NEW i, i = f.inode,
           NEW T, T = ToSet(Tail(work)),
           WriteInode(f) \/ WriteDentry(f) \/ WriteData(f), i \in DOMAIN mem.inode, Roomy(mem, i)
    PROVE  /\ ToSet(work) = {f} \cup T /\ f.next \in Nat
           /\ \E P : \E g : After(ToSet(work'), P, g, f, T)
<1> DEFINE S == [inode : DOMAIN mem.inode, next : Nat]
           g == [f EXCEPT !.next = f.next + 1]
           R == IF f.next >= Writes(i) THEN {} ELSE {g}
<1>1. work \in Seq(S)
  BY DEF Stacked
<1>2. f \in S /\ Tail(work) \in Seq(S) /\ ToSet(work) = {f} \cup T
  BY <1>1, FirstAndRest
<1>3. g \in S /\ g.inode = i /\ g.next = f.next + 1 /\ f.next \in Nat
  BY <1>2
<1> HIDE DEF g
<1>4. Rest(f) \in Seq(S) /\ ToSet(Rest(f)) = R \cup T
  <2>1. <<g>> \in Seq(S) /\ ToSet(<<g>>) = {g}
    BY <1>3, Single
  <2>2. Joined(S, <<g>>, Tail(work), <<g>> \o Tail(work))
    BY <1>2, <2>1, InARow
  <2>3. <<g>> \o Tail(work) \in Seq(S) /\ ToSet(<<g>> \o Tail(work)) = {g} \cup T
    BY <2>1, <2>2 DEF Joined
  <2>4. Rest(f) = IF f.next >= Writes(i) THEN Tail(work) ELSE <<g>> \o Tail(work)
    BY DEF Rest, g
  <2> QED
    BY <1>2, <2>3, <2>4
<1>5. CASE WriteDentry(f)
  <2> PICK c : c = mem.dentry[mem.inode[i].dentrys[f.next]].inode
    OBVIOUS
  <2> DEFINE p == IF c = NULL THEN <<>> ELSE <<Frame(c)>>
             P == IF c = NULL THEN {} ELSE {Frame(c)}
  <2>1. work' = p \o Rest(f) /\ f.next \in 1 .. Writes(i) /\ Is(mem, i, "SFS_DIR")
    BY <1>5 DEF WriteDentry
  <2>2. p \in Seq(S) /\ ToSet(p) = P /\ (c # NULL => c \in DOMAIN mem.inode)
    <3>1. CASE c = NULL
      BY <3>1 DEF ToSet
    <3>2. CASE c # NULL
      <4>1. f.next \in DOMAIN mem.inode[i].dentrys
        <5>1. DOMAIN mem.inode[i].dentrys = 1 .. Len(mem.inode[i].dentrys)
          BY InodeFields DEF Heap, HeapBut
        <5> QED
          BY <2>1, <5>1 DEF Writes
      <4>2. mem.inode[i].dentrys[f.next] \in Linked(mem)
        BY <4>1, ListedIsLinked
      <4>3. Stacked(mem, <<Frame(c)>>)
        BY <3>2, <4>2, FrameOf
      <4>4. <<Frame(c)>> \in Seq(S)
        BY <4>3 DEF Stacked
      <4>6. c \in DOMAIN mem.inode
        BY <3>2, <4>2, LoadedAt
      <4>5. ToSet(<<Frame(c)>>) = {Frame(c)}
        <5>1. Frame(c) \in S
          BY <4>6 DEF Frame
        <5> HIDE DEF S
        <5> QED
          BY <5>1, Single
      <4> QED
        BY <3>2, <4>4, <4>5, <4>6
    <3> QED
      BY <3>1, <3>2
  <2> HIDE DEF p, S, R
  <2>3. ToSet(work') = P \cup R \cup T
    <3>1. Joined(S, p, Rest(f), p \o Rest(f))
      BY <1>4, <2>2, InARow
    <3> QED
      BY <1>4, <2>1, <2>2, <3>1 DEF Joined
  <2>4. Frame(c).inode = c /\ Frame(c).next = 0
    BY DEF Frame
  <2>5. ASSUME NEW h \in P PROVE h.next = 0 /\ h.inode \in DOMAIN mem.inode
    <3>1. c # NULL /\ h = Frame(c)
      OBVIOUS
    <3> QED
      BY <2>2, <2>4, <3>1
  <2>6. ASSUME NEW k \in DOMAIN mem.inode[i].dentrys, k = f.next
        PROVE  \/ mem.dentry[mem.inode[i].dentrys[k]].inode = NULL
               \/ \E h \in P : h.inode = mem.dentry[mem.inode[i].dentrys[k]].inode
    <3>1. mem.dentry[mem.inode[i].dentrys[k]].inode = c
      BY <2>6
    <3>2. CASE c # NULL
      <4>1. Frame(c) \in P
        BY <3>2
      <4> HIDE DEF P
      <4> QED
        BY <2>4, <3>1, <4>1
    <3> QED
      BY <3>1, <3>2
  <2> HIDE DEF P
  <2>7. After(ToSet(work'), P, g, f, T)
    BY <1>3, <2>3, <2>5, <2>6 DEF R, After
  <2> QED
    BY <1>2, <1>3, <2>7
<1>6. CASE WriteInode(f) \/ WriteData(f)
  <2>1. work' = Rest(f)
    BY <1>6 DEF WriteInode, WriteData
  <2>2. f.next \notin DOMAIN mem.inode[i].dentrys
    <3>1. DOMAIN mem.inode[i].dentrys = 1 .. Len(mem.inode[i].dentrys)
      BY InodeFields DEF Heap, HeapBut
    <3>2. CASE WriteInode(f)
      BY <3>1, <3>2 DEF WriteInode
    <3>3. CASE WriteData(f)
      <4>1. ~Is(mem, i, "SFS_DIR")
        BY <3>3 DEF WriteData, Is
      <4>2. mem.inode[i].dentrys = <<>>
        BY <4>1 DEF Roomy
      <4> QED
        BY <4>2
    <3> QED
      BY <1>6, <3>2, <3>3
  <2>3. After(ToSet(work'), {}, g, f, T)
    BY <1>3, <1>4, <2>1, <2>2 DEF After
  <2> QED
    BY <1>2, <1>3, <2>3
<1> QED
  BY <1>5, <1>6

LEMMA StackedOwners ==
    ASSUME NEW m, Heap(m), NEW frames, Stacked(m, frames), NEW h \in ToSet(frames)
    PROVE  h.inode \in Owners(m) /\ h.inode \in DOMAIN m.inode
<1> DEFINE S == [inode : DOMAIN m.inode, next : Nat]
<1>1. frames \in Seq(S) /\ \E d \in Linked(m) : m.dentry[d].inode = h.inode
  BY DEF Stacked
<1>2. h \in S
  <2> HIDE DEF S
  <2>1. PICK k \in DOMAIN frames : h = frames[k]
    BY DEF ToSet
  <2>2. frames[k] \in S
    BY <1>1, <2>1
  <2> QED
    BY <2>1, <2>2
<1>3. h.inode \in DOMAIN m.inode /\ h.inode # NULL
  BY <1>2, MemoryFields DEF Heap, HeapBut
<1> QED
  BY <1>1, <1>3 DEF Owners

LEMMA SyncedStep ==
    ASSUME DiskIs(disk), Heap(mem), Stacked(mem, work), work # <<>>, NEW f, f = Head(work),
           WriteInode(f) \/ WriteDentry(f) \/ WriteData(f),
           NEW U, Shape(mem, disk.cell, U), NEW E, Synced(mem, disk.cell, ToSet(work), E)
    PROVE  Shape(mem, disk'.cell, U) /\ \E F : Synced(mem, disk'.cell, ToSet(work'), F)
<1> PICK i : i = f.inode
  OBVIOUS
<1> PICK C, D : C = disk.cell /\ D = disk'.cell
  OBVIOUS
<1>0. i = f.inode /\ C = disk.cell /\ D = disk'.cell
  OBVIOUS
<1>1. i \in DOMAIN mem.inode /\ f.next \in Nat /\ i \in Owners(mem)
  <2>1. i \in DOMAIN mem.inode /\ f.next \in Nat /\ \E d \in Linked(mem) : mem.dentry[d].inode = i
    BY <1>0, RestStacked
  <2>2. i # NULL
    BY <2>1, MemoryFields DEF Heap, HeapBut
  <2> QED
    BY <2>1, <2>2 DEF Owners
<1>2. Roomy(mem, i) /\ Shape(mem, C, U)
  BY <1>0, <1>1, OwnerFacts
<1> PICK T : T = ToSet(Tail(work))
  OBVIOUS
<1>3. ToSet(work) = {f} \cup T
  BY <1>0, <1>1, <1>2, StackAfter
<1> PICK P : \E g : After(ToSet(work'), P, g, f, T)
  BY <1>0, <1>1, <1>2, StackAfter
<1> PICK g : After(ToSet(work'), P, g, f, T)
  OBVIOUS
<1>4. /\ \A h \in P : h.next = 0 /\ h.inode \in DOMAIN mem.inode
      /\ g.inode = i /\ g.next = f.next + 1
      /\ ToSet(work') = P \cup (IF f.next >= Writes(i) THEN {} ELSE {g}) \cup T
      /\ \A k \in DOMAIN mem.inode[i].dentrys : k = f.next =>
            \/ mem.dentry[mem.inode[i].dentrys[k]].inode = NULL
            \/ \E h \in P : h.inode = mem.dentry[mem.inode[i].dentrys[k]].inode
  BY <1>0 DEF After
<1>5. Writing(mem, C, D, i, f.next)
  BY <1>0, <1>1, SyncWrites
<1>6. Shape(mem, D, U)
  <2>1. C \in [Address -> DiskCell]
    BY <1>0 DEF DiskIs
  <2> QED
    BY <1>1, <1>2, <1>5, <2>1, WritingShape
<1> DEFINE popped == f.next >= Writes(i)
           F == IF popped THEN E \cup {i} ELSE E
           S == Called(E, ToSet(work))
           Z == Called(F, ToSet(work'))
           n == Len(mem.inode[i].dentrys)
<1>7. S \subseteq Z
  BY <1>0, <1>3, <1>4 DEF Called
<1>8. E \subseteq Owners(mem) /\ Done(mem, C, S, i, f.next) /\ mem.dentry[Root].inode \in S
  BY <1>0, <1>3 DEF Synced
<1> HIDE DEF S
<1>9. \A k \in DOMAIN mem.inode[i].dentrys : k = f.next =>
         mem.dentry[mem.inode[i].dentrys[k]].inode \in Z \cup {NULL}
  <2>1. \A h \in P : h.inode \in Z
    BY <1>4 DEF Called
  <2> HIDE DEF Z
  <2> QED
    BY <1>4, <2>1
<1> HIDE DEF Z
<1>10. DOMAIN mem.inode[i].dentrys = 1 .. n /\ n \in Nat
  BY <1>1, InodeFields DEF Heap, HeapBut
<1>11. Done(mem, D, Z, i, f.next + 1)
  <2>1. Put(mem, D, i, f.next + 1)
    BY <1>1, <1>2, <1>5, <1>8, PutNext DEF Done
  <2>2. Followed(mem, Z, i, f.next + 1)
    <3> SUFFICES ASSUME NEW k \in DOMAIN mem.inode[i].dentrys, k < f.next + 1
                 PROVE  mem.dentry[mem.inode[i].dentrys[k]].inode \in Z \cup {NULL}
      BY DEF Followed
    <3>1. k \in Nat
      BY <1>10
    <3>2. CASE k = f.next
      BY <1>9, <3>2
    <3>3. CASE k < f.next
      BY <1>7, <1>8, <3>3 DEF Done, Followed
    <3>4. f.next \in Nat /\ k < f.next + 1
      BY <1>1
    <3>5. k = f.next \/ k < f.next
      BY <3>1, <3>4
    <3> QED
      BY <3>2, <3>3, <3>5
  <2> QED
    BY <2>1, <2>2 DEF Done
<1>12. ASSUME NEW j \in Owners(mem), NEW l, Done(mem, C, S, j, l) PROVE Done(mem, D, Z, j, l)
  <2>1. Put(mem, D, j, l)
    BY <1>1, <1>2, <1>5, <1>12, PutKept DEF Done
  <2>2. Followed(mem, Z, j, l)
    BY <1>7, <1>12 DEF Done, Followed
  <2> QED
    BY <2>1, <2>2 DEF Done
<1>13. ASSUME popped PROVE Done(mem, D, Z, i, n + 1)
  <2>1. CASE Is(mem, i, "SFS_DIR")
    <3>1. f.next + 1 >= n + 1
      BY <1>1, <1>10, <1>13, <2>1 DEF Writes
    <3>2. \A k \in Offsets(mem, i) : k \in Nat
      BY <1>10 DEF Offsets
    <3>3. \A k \in Nat : k < n + 1 => k < f.next + 1
      BY <1>1, <1>10, <3>1
    <3> HIDE DEF n
    <3>4. Put(mem, D, i, n + 1)
      BY <1>11, <3>2, <3>3 DEF Done, Put
    <3>5. \A k \in DOMAIN mem.inode[i].dentrys : k \in Nat
      BY <1>10
    <3>6. Followed(mem, Z, i, n + 1)
      BY <1>11, <3>3, <3>5 DEF Done, Followed
    <3> QED
      BY <3>4, <3>6 DEF Done
  <2>2. CASE ~Is(mem, i, "SFS_DIR")
    <3>1. mem.inode[i].dentrys = <<>> /\ Offsets(mem, i) = {0}
      BY <1>2, <2>2 DEF Roomy, Offsets
    <3>2. 0 < f.next + 1
      BY <1>1
    <3>3. Put(mem, D, i, n + 1)
      BY <1>11, <3>1, <3>2 DEF Done, Put
    <3>4. DOMAIN mem.inode[i].dentrys = {}
      BY <3>1
    <3>5. Followed(mem, Z, i, n + 1)
      BY <3>4 DEF Followed
    <3> QED
      BY <3>3, <3>5 DEF Done
  <2> QED
    BY <2>1, <2>2
<1>14. ASSUME NEW j \in F PROVE j \in Owners(mem) /\ Done(mem, D, Z, j, Len(mem.inode[j].dentrys) + 1)
  <2>1. CASE j \in E
    <3>1. Done(mem, C, S, j, Len(mem.inode[j].dentrys) + 1)
      BY <1>0, <2>1 DEF Synced, S
    <3> QED
      BY <1>8, <1>12, <2>1, <3>1
  <2>2. CASE j \notin E
    BY <1>1, <1>13, <1>14, <2>2
  <2> QED
    BY <2>1, <2>2
<1>15. ASSUME NEW h \in ToSet(work') PROVE Done(mem, D, Z, h.inode, h.next)
  <2>1. CASE h \in P
    <3>1. h.next = 0 /\ h.inode \in DOMAIN mem.inode
      BY <1>4, <2>1
    <3>2. DOMAIN mem.inode[h.inode].dentrys = 1 .. Len(mem.inode[h.inode].dentrys)
          /\ Len(mem.inode[h.inode].dentrys) \in Nat
      BY <3>1, InodeFields DEF Heap, HeapBut
    <3>3. \A k \in Offsets(mem, h.inode) : ~(k < 0)
      BY <3>2 DEF Offsets
    <3>4. \A k \in DOMAIN mem.inode[h.inode].dentrys : ~(k < 0)
      BY <3>2
    <3> QED
      BY <3>1, <3>3, <3>4 DEF Done, Put, Followed
  <2>2. CASE h = g
    BY <1>4, <1>11, <2>2
  <2>3. CASE h \in T
    <3>1. h \in ToSet(work)
      BY <1>3, <2>3
    <3>2. Done(mem, C, S, h.inode, h.next)
      BY <1>0, <3>1 DEF Synced, S
    <3>3. h.inode \in Owners(mem)
      BY <3>1, StackedOwners
    <3> QED
      BY <1>12, <3>2, <3>3
  <2> QED
    BY <1>4, <2>1, <2>2, <2>3
<1>16. mem.dentry[Root].inode \in Z
  BY <1>7, <1>8
<1> HIDE DEF F
<1>17. Synced(mem, D, ToSet(work'), F)
  BY <1>14, <1>15, <1>16 DEF Synced, Z
<1> QED
  BY <1>0, <1>6, <1>17
-------------------------------------------------------------------------------
\* What sfs_sync_inode has left for an inode of E: its own record, and its entries' in their order.
LEMMA SavedAt ==
    ASSUME NEW m, Heap(m), NEW C, NEW U, Shape(m, C, U), NEW E, Synced(m, C, {}, E), NEW i \in E,
           NEW u, u = m.inode[i].ino
    PROVE  /\ i \in Owners(m) /\ u \in Bit \ U /\ u \in m.map_inode
           /\ C[SFS_INO_OFS(u)].type = "inode" /\ C[SFS_INO_OFS(u)].ino = u
           /\ C[SFS_INO_OFS(u)].dir_cnt <= Cells
           /\ \A k \in Kids(C, u) :
                 LET e == m.inode[i].dentrys[k + 1]
                 IN  /\ k \in Nat /\ k + 1 \in DOMAIN m.inode[i].dentrys /\ e \in List(m, i)
                     /\ Kid(C, u, k) = DentryD(m.dentry[e])
                     /\ m.dentry[e].inode \in E \cup {NULL}
<1>1. i \in Owners(m) /\ Done(m, C, Called(E, {}), i, Len(m.inode[i].dentrys) + 1)
  BY DEF Synced
<1>2. /\ i \in DOMAIN m.inode /\ u \in Bit \ U /\ u \in m.map_inode /\ Roomy(m, i)
  BY <1>1, OwnerFacts
<1>3. Called(E, {}) = E
  BY DEF Called
<1> PICK n : n = Len(m.inode[i].dentrys)
  OBVIOUS
<1>4. n = Len(m.inode[i].dentrys) /\ n \in Nat /\ DOMAIN m.inode[i].dentrys = 1 .. n /\ n <= Cells
  BY <1>2, InodeFields DEF Heap, HeapBut, Roomy
<1>5. Put(m, C, i, n + 1) /\ Followed(m, E, i, n + 1)
  BY <1>1, <1>3, <1>4 DEF Done
<1>6. SFS_INO_OFS(u) \in Nat
  <2>1. 0 \in 0 .. Cells
    OBVIOUS
  <2> QED
    BY <1>2, <2>1, SlotAddress
<1>7. C[SFS_INO_OFS(u)] = InodeD(m.inode[i])
  <2>1. 0 \in Offsets(m, i) /\ 0 < n + 1
    BY <1>4 DEF Offsets
  <2>2. C[Cell(m, i, 0)] = Image(m, i, 0)
    BY <1>5, <2>1 DEF Put
  <2>3. Cell(m, i, 0) = SFS_INO_OFS(u)
    BY <1>6 DEF Cell
  <2> QED
    BY <2>2, <2>3 DEF Image
<1>8. /\ C[SFS_INO_OFS(u)].type = "inode" /\ C[SFS_INO_OFS(u)].ino = u
      /\ C[SFS_INO_OFS(u)].dir_cnt = n
  BY <1>4, <1>7 DEF InodeD
<1>9. ASSUME NEW k \in Kids(C, u), NEW e, e = m.inode[i].dentrys[k + 1]
      PROVE  /\ k \in Nat /\ k + 1 \in DOMAIN m.inode[i].dentrys /\ e \in List(m, i)
             /\ Kid(C, u, k) = DentryD(m.dentry[e]) /\ m.dentry[e].inode \in E \cup {NULL}
  <2>1. k \in Nat /\ k + 1 \in 1 .. n /\ k + 1 < n + 1
    BY <1>4, <1>8 DEF Kids
  <2>2. k + 1 \in DOMAIN m.inode[i].dentrys
    BY <1>4, <2>1
  <2>3. Is(m, i, "SFS_DIR")
    <3>1. m.inode[i].dentrys # <<>>
      BY <2>2
    <3> QED
      BY <1>2, <3>1 DEF Roomy
  <2>4. k + 1 \in Offsets(m, i)
    BY <2>2, <2>3 DEF Offsets
  <2>5. C[Cell(m, i, k + 1)] = Image(m, i, k + 1)
    BY <1>5, <2>1, <2>4 DEF Put
  <2>6. Cell(m, i, k + 1) = SFS_DATA_OFS(u) + k
    BY <1>6, <2>1 DEF Cell, SFS_DATA_OFS
  <2>7. Image(m, i, k + 1) = DentryD(m.dentry[e])
    BY <1>9, <2>1 DEF Image
  <2>8. Kid(C, u, k) = DentryD(m.dentry[e])
    BY <2>5, <2>6, <2>7 DEF Kid
  <2>9. e \in List(m, i)
    BY <1>2, <1>9, <2>2, ListedIsLinked
  <2>10. m.dentry[e].inode \in E \cup {NULL}
    BY <1>5, <1>9, <2>1, <2>2 DEF Followed
  <2> QED
    BY <2>1, <2>2, <2>8, <2>9, <2>10
<1> QED
  BY <1>1, <1>2, <1>4, <1>8, <1>9

\* Kid k of u on the disk: of a directory that is not loaded, or of inode i of E, with its dentry e.
OnDisk(C, U, u, k) == u \in U /\ k \in Kids(C, u)
Saved(m, C, E, u, k, i, e) ==
    /\ i \in E /\ u = m.inode[i].ino /\ i \in DOMAIN m.inode /\ e \in List(m, i) /\ e \in Linked(m) \ {Root}
    /\ k \in Nat /\ k + 1 \in DOMAIN m.inode[i].dentrys /\ e = m.inode[i].dentrys[k + 1]
    /\ Kid(C, u, k) = DentryD(m.dentry[e]) /\ Kid(C, u, k).ino = m.dentry[e].ino
    /\ m.dentry[e].inode \in E \cup {NULL}

LEMMA SavedKid ==
    ASSUME NEW m, Heap(m), NEW C, NEW U, Shape(m, C, U), NEW E, Synced(m, C, {}, E), NEW i \in E,
           NEW u, u = m.inode[i].ino, NEW k \in Kids(C, u), NEW e, e = m.inode[i].dentrys[k + 1]
    PROVE  Saved(m, C, E, u, k, i, e)
<1>1. /\ i \in Owners(m) /\ k \in Nat /\ k + 1 \in DOMAIN m.inode[i].dentrys /\ e \in List(m, i)
      /\ Kid(C, u, k) = DentryD(m.dentry[e]) /\ m.dentry[e].inode \in E \cup {NULL}
  BY SavedAt
<1>2. i \in DOMAIN m.inode
  BY <1>1, OwnerFacts
<1>3. e \in Linked(m) \ {Root}
  BY <1>1, <1>2, ListedIsLinked DEF Heap, HeapBut, ListedOnce
<1>4. Kid(C, u, k).ino = m.dentry[e].ino
  BY <1>1 DEF DentryD
<1> QED
  BY <1>1, <1>2, <1>3, <1>4 DEF Saved

\* Two places of one number are one place.
LEMMA SavedOnce ==
    ASSUME NEW m, Heap(m), NEW C, NEW U, Shape(m, C, U), NEW E, NEW u, NEW v, NEW k, NEW l, NEW i, NEW j,
           NEW e, NEW f, Saved(m, C, E, u, k, i, e), Saved(m, C, E, v, l, j, f), Kid(C, u, k).ino = Kid(C, v, l).ino
    PROVE  u = v /\ k = l
<1>1. m.dentry[e].ino = m.dentry[f].ino /\ e \in Linked(m) /\ f \in Linked(m)
  BY DEF Saved
<1>2. e = f
  BY <1>1 DEF Shape, Owned
<1>3. i \in DOMAIN m.inode /\ j \in DOMAIN m.inode /\ e \in List(m, i) /\ e \in List(m, j)
  BY <1>2 DEF Saved
<1>4. i = j
  BY <1>3 DEF Heap, HeapBut, ListedOnce
<1>5. k \in Nat /\ l \in Nat /\ k + 1 = l + 1
  <2>1. Once(m.inode[i].dentrys)
    BY <1>3 DEF Heap, HeapBut, ListedOnce
  <2>2. /\ k + 1 \in DOMAIN m.inode[i].dentrys /\ l + 1 \in DOMAIN m.inode[i].dentrys
        /\ m.inode[i].dentrys[k + 1] = m.inode[i].dentrys[l + 1] /\ k \in Nat /\ l \in Nat
    BY <1>2, <1>4 DEF Saved
  <2> QED
    BY <2>1, <2>2 DEF Once
<1> QED
  BY <1>4, <1>5 DEF Saved

\* A number loaded is in no directory that is not.
LEMMA SavedApart ==
    ASSUME NEW m, NEW C, NEW U, Shape(m, C, U), NEW E, NEW u, NEW v, NEW k, NEW l, NEW j, NEW f,
           OnDisk(C, U, u, k), Saved(m, C, E, v, l, j, f)
    PROVE  Kid(C, u, k).ino # Kid(C, v, l).ino
<1>1. u \in U /\ k \in Kids(C, u) /\ f \in Linked(m) /\ Kid(C, v, l).ino = m.dentry[f].ino
  BY DEF OnDisk, Saved
<1> QED
  BY <1>1 DEF Shape, Apart

\* When sfs_sync_inode has returned for the root, a whole tree is on the disk.
LEMMA EndWhole ==
    ASSUME NEW m, Heap(m), NEW C, NEW U, Shape(m, C, U), NEW E, Synced(m, C, {}, E)
    PROVE  Whole(C, m.map_inode)
<1> DEFINE N == {u \in Bit : \E i \in E : u = m.inode[i].ino}
           V == U \cup N
<1>1. U \in SUBSET Bit /\ Stored(C, U, m.map_inode) /\ Owned(m, U) /\ Apart(m, C, U)
  BY DEF Shape
<1>2. ASSUME NEW i \in E PROVE m.inode[i].ino \in N
  <2>1. m.inode[i].ino \in Bit
    BY SavedAt
  <2> QED
    BY <2>1
<1>3. ASSUME NEW u \in V
      PROVE  /\ u \in m.map_inode
             /\ C[SFS_INO_OFS(u)].type = "inode" /\ C[SFS_INO_OFS(u)].ino = u
             /\ C[SFS_INO_OFS(u)].dir_cnt <= Cells
  <2>1. CASE u \in U
    BY <1>1, <2>1 DEF Stored
  <2>2. CASE u \in N
    <3>1. PICK i \in E : u = m.inode[i].ino
      BY <2>2
    <3> QED
      BY <3>1, SavedAt
  <2> QED
    BY <2>1, <2>2
<1>4. ASSUME NEW u \in V, NEW k \in Kids(C, u)
      PROVE  OnDisk(C, U, u, k) \/ \E i \in E : \E e : Saved(m, C, E, u, k, i, e)
  <2>1. CASE u \in U
    BY <2>1 DEF OnDisk
  <2>2. CASE u \in N
    <3>1. PICK i \in E : u = m.inode[i].ino
      BY <2>2
    <3>2. PICK e : e = m.inode[i].dentrys[k + 1]
      OBVIOUS
    <3>3. Saved(m, C, E, u, k, i, e)
      BY <3>1, <3>2, SavedKid
    <3> QED
      BY <3>3
  <2> QED
    BY <2>1, <2>2
<1>5. Root \in Linked(m) /\ m.dentry[Root].ino = 0
  BY DEF Linked, Heap, HeapBut, Rooted
<1>6. ASSUME NEW u \in V, NEW k \in Kids(C, u)
      PROVE  Kid(C, u, k).type = "dentry" /\ Kid(C, u, k).ino \in V /\ Kid(C, u, k).ino # 0
  <2>1. CASE OnDisk(C, U, u, k)
    <3>1. u \in U
      BY <2>1 DEF OnDisk
    <3>2. Kid(C, u, k).type = "dentry" /\ Kid(C, u, k).ino \in U
      BY <1>1, <3>1 DEF Stored
    <3>3. Kid(C, u, k).ino # m.dentry[Root].ino
      BY <1>1, <1>5, <3>1 DEF Apart
    <3> QED
      BY <1>5, <3>2, <3>3
  <2>2. ASSUME NEW i \in E, NEW e, Saved(m, C, E, u, k, i, e)
        PROVE  Kid(C, u, k).type = "dentry" /\ Kid(C, u, k).ino \in V /\ Kid(C, u, k).ino # 0
    <3>1. /\ e \in Linked(m) /\ e # Root /\ Kid(C, u, k) = DentryD(m.dentry[e])
          /\ Kid(C, u, k).ino = m.dentry[e].ino /\ m.dentry[e].inode \in E \cup {NULL}
      BY <2>2 DEF Saved
    <3>2. Kid(C, u, k).type = "dentry"
      BY <3>1 DEF DentryD
    <3>3. m.dentry[e].ino # 0
      BY <1>1, <1>5, <3>1 DEF Owned
    <3>4. CASE m.dentry[e].inode = NULL
      <4>1. m.dentry[e].ino \in U
        BY <1>1, <3>1, <3>4 DEF Owned
      <4> QED
        BY <3>1, <3>2, <3>3, <4>1
    <3>5. CASE m.dentry[e].inode # NULL
      <4>1. m.dentry[e].inode \in E /\ m.inode[m.dentry[e].inode].ino = m.dentry[e].ino
        BY <1>1, <3>1, <3>5 DEF Owned
      <4>2. m.dentry[e].ino \in N
        BY <1>2, <4>1
      <4> QED
        BY <3>1, <3>2, <3>3, <4>2
    <3> QED
      BY <3>4, <3>5
  <2> QED
    BY <1>4, <2>1, <2>2
<1>7. ASSUME NEW u \in V, NEW v \in V, NEW k \in Kids(C, u), NEW l \in Kids(C, v),
             Kid(C, u, k).ino = Kid(C, v, l).ino
      PROVE  u = v /\ k = l
  <2>1. CASE OnDisk(C, U, u, k) /\ OnDisk(C, U, v, l)
    BY <1>1, <1>7, <2>1 DEF OnDisk, Stored
  <2>2. ASSUME NEW j, NEW f, OnDisk(C, U, u, k), Saved(m, C, E, v, l, j, f) PROVE FALSE
    BY <1>7, <2>2, SavedApart
  <2>3. ASSUME NEW i, NEW e, OnDisk(C, U, v, l), Saved(m, C, E, u, k, i, e) PROVE FALSE
    BY <1>7, <2>3, SavedApart
  <2>4. ASSUME NEW i, NEW e, NEW j, NEW f, Saved(m, C, E, u, k, i, e), Saved(m, C, E, v, l, j, f)
        PROVE  u = v /\ k = l
    BY <1>7, <2>4, SavedOnce
  <2>5. OnDisk(C, U, u, k) \/ \E i \in E : \E e : Saved(m, C, E, u, k, i, e)
    BY <1>4
  <2>6. OnDisk(C, U, v, l) \/ \E i \in E : \E e : Saved(m, C, E, v, l, i, e)
    BY <1>4
  <2> QED
    BY <2>1, <2>2, <2>3, <2>4, <2>5, <2>6
<1>8. 0 \in V
  <2> PICK r : r = m.dentry[Root].inode
    OBVIOUS
  <2>1. r \in E
    BY DEF Synced, Called
  <2>2. r # NULL
    BY <2>1 DEF Synced, Owners
  <2>3. m.inode[r].ino = 0
    BY <1>1, <1>5, <2>2 DEF Owned
  <2> QED
    BY <1>2, <2>1, <2>3
<1>9. V \in SUBSET Bit
  BY <1>1
<1> HIDE DEF N
<1> HIDE DEF V
<1>10. V \subseteq m.map_inode
  BY <1>3
<1>11. Stored(C, V, m.map_inode)
  BY <1>3, <1>6, <1>7, <1>10 DEF Stored
<1>12. \A u \in V : \A k \in Kids(C, u) : Kid(C, u, k).ino # 0
  BY <1>6
<1> QED
  BY <1>8, <1>9, <1>11, <1>12 DEF Whole
-------------------------------------------------------------------------------
\* A whole tree can be mounted: nothing of it is loaded yet.
LEMMA MountShape ==
    ASSUME NEW C, NEW map \in SUBSET Bit, Whole(C, map), NEW max \in {0, MaxIno}, NEW m, m = FirstMemory(map, max)
    PROVE  \E U : Shape(m, C, U)
<1> PICK U \in SUBSET Bit : Stored(C, U, map) /\ 0 \in U
                            /\ \A u \in U : \A k \in Kids(C, u) : Kid(C, u, k).ino # 0
  BY DEF Whole
<1>1. /\ Heap(m) /\ Linked(m) = {Root} /\ m.dentry[Root] = RootDentry /\ RootDentry.inode = NULL
      /\ RootDentry.ino = 0 /\ m.map_inode = map
  BY FirstHeap
<1>2. U \subseteq map
  BY DEF Stored
<1>3. Owned(m, U)
  BY <1>1, <1>2 DEF Owned
<1>4. Apart(m, C, U)
  BY <1>1 DEF Apart
<1>5. Shape(m, C, U)
  BY <1>1, <1>3, <1>4 DEF Shape
<1> QED
  BY <1>5

\* The tree of a new disk: the root, and no entries.
LEMMA EmptyWhole ==
    ASSUME NEW C, C[SFS_INO_OFS(0)] = InodeD(NewInode(0, Root, "SFS_DIR"))
    PROVE  Whole(C, {0})
<1>1. 0 \in Bit /\ {0} \in SUBSET Bit
  BY DEF Bit
<1>2. /\ C[SFS_INO_OFS(0)].type = "inode" /\ C[SFS_INO_OFS(0)].ino = 0 /\ C[SFS_INO_OFS(0)].dir_cnt = 0
  BY DEF InodeD, NewInode
<1>3. Kids(C, 0) = {}
  BY <1>2 DEF Kids
<1>4. Stored(C, {0}, {0})
  BY <1>2, <1>3 DEF Stored
<1> QED
  BY <1>1, <1>3, <1>4 DEF Whole

\* Before the first write of sfs_sync_inode.
LEMMA FirstSynced ==
    ASSUME NEW m, Ready(m), NEW C
    PROVE  Synced(m, C, ToSet(<<Frame(m.dentry[Root].inode)>>), {})
<1> PICK r : r = m.dentry[Root].inode
  OBVIOUS
<1> PICK f : f = Frame(r)
  OBVIOUS
<1>1. f.inode = r /\ f.next = 0
  BY DEF Frame
<1>2. ToSet(<<f>>) = {f}
  BY Single
<1>3. Root \in Linked(m) /\ Heap(m) /\ r # NULL
  BY DEF Linked, Ready
<1>4. r \in DOMAIN m.inode
  BY <1>3, LoadedAt
<1>5. DOMAIN m.inode[r].dentrys = 1 .. Len(m.inode[r].dentrys) /\ Len(m.inode[r].dentrys) \in Nat
  BY <1>3, <1>4, InodeFields DEF Heap, HeapBut
<1>6. (\A k \in Offsets(m, r) : ~(k < 0)) /\ \A k \in DOMAIN m.inode[r].dentrys : ~(k < 0)
  BY <1>5 DEF Offsets
<1>7. \A S : Done(m, C, S, r, 0)
  BY <1>6 DEF Done, Put, Followed
<1>8. r \in Called({}, {f})
  BY <1>1 DEF Called
<1>9. Synced(m, C, {f}, {})
  BY <1>1, <1>7, <1>8 DEF Synced
<1> QED
  BY <1>2, <1>9

\* Without a mishap: nothing has gone wrong, memory and disk have a shape, and the disk that a
\* mount will find, or that sfs_umount is about to complete, holds a whole tree.
Shaped(m, C)      == \E U : Shape(m, C, U)
UnderWay(m, C, W) == \E U : Shape(m, C, U) /\ \E E : Synced(m, C, W, E)

ShapeInv ==
    spoilt = {} =>
        /\ fault = "none"
        /\ pc \in {"read_root", "mounted"} => Shaped(mem, disk.cell)
        /\ pc = "sync" => UnderWay(mem, disk.cell, ToSet(work))
        /\ pc \in {"super", "map_inode"} => Whole(disk.cell, mem.map_inode)
        /\ pc \notin Umounting /\ disk.magic => Whole(disk.cell, disk.map_inode)

\* What a handler has to show.
LEMMA HandledShape ==
    ASSUME ShapeInv, Serving, disk' = disk, pc' = pc, spoilt \subseteq spoilt',
           spoilt' = {} => fault' = "none" /\ Shaped(mem', disk.cell)
    PROVE  ShapeInv'
<1>1. pc = "mounted"
  BY DEF Serving
<1> SUFFICES ASSUME spoilt' = {} PROVE ShapeInv'
  BY DEF ShapeInv
<1>2. spoilt = {} /\ fault' = "none" /\ Shaped(mem', disk'.cell)
  OBVIOUS
<1>3. disk.magic => Whole(disk.cell, disk.map_inode)
  BY <1>1, <1>2 DEF ShapeInv, Umounting
<1> QED
  BY <1>1, <1>2, <1>3 DEF ShapeInv

LEMMA Unspoilt ==
    ASSUME ShapeInv, Serving, NEW mishaps, Spoils(mishaps), spoilt' = {}
    PROVE  mishaps = {} /\ spoilt = {} /\ \E U : Shape(mem, disk.cell, U)
<1>1. spoilt = {} /\ mishaps = {}
  BY DEF Spoils
<1> QED
  BY <1>1 DEF ShapeInv, Serving, Shaped

LEMMA ShapeGetattr ==
    ASSUME HeapInv, ShapeInv, NEW path \in Path, Getattr(path)
    PROVE  ShapeInv'
<1> PICK d : d = sfs_lookup(mem, path).ret
  OBVIOUS
<1>1. /\ Serving /\ sfs_access(mem, path) /\ mem.dentry[d].inode = NULL
      /\ mem' = sfs_read_inode(mem, d) /\ fault' = ReadFault(mem, d)
      /\ UNCHANGED <<disk, pc, work, spoilt, live, durable, ops>>
  BY DEF Getattr
<1>2. Heap(mem) /\ DiskType
  BY <1>1, InvDisk DEF HeapInv, Serving, Ready
<1>3. d \in Linked(mem)
  <2>1. path \in Seq(Name)
    BY PathType
  <2>2. sfs_lookup(mem, path).find = {TRUE}
    BY <1>1 DEF sfs_access
  <2> QED
    BY <1>2, <2>1, <2>2, FoundAt
<1>4. ASSUME spoilt' = {} PROVE fault' = "none" /\ Shaped(mem', disk.cell)
  <2>1. PICK U : Shape(mem, disk.cell, U)
    BY <1>1, <1>4 DEF ShapeInv, Serving, Shaped
  <2>2. fault' = "none"
    BY <1>1, <1>2, <1>3, <2>1, ShapeReadable
  <2>3. \E V : Shape(mem', disk.cell, V)
    BY <1>1, <1>2, <1>3, <2>1, ReadShape
  <2> QED
    BY <2>2, <2>3 DEF Shaped
<1> QED
  BY <1>1, <1>4, HandledShape

\* A new dentry without a mishap: it has a number, and its directory has room for it.
LEMMA MadeShaped ==
    ASSUME HeapInv, Serving, NEW U, Shape(mem, disk.cell, U), NEW path \in Path, KnownAbsent(path),
           MakeSpoils(path) = {}, NEW ft \in FileType, NEW n, n = Make(mem, path, ft),
           NEW d, d = sfs_lookup(n, path).ret, NEW p, p = sfs_lookup(mem, path).ret,
           NEW i, i = mem.dentry[p].inode
    PROVE  /\ Shape(n, disk.cell, U) /\ n.dentry[d].inode # NULL /\ NewNumber(mem, n, d, ft)
           /\ MadeIn(mem, n, p, i, d, Last(path), ft)
           /\ Is(mem, i, "SFS_DIR") /\ Len(mem.inode[i].dentrys) < Cells
<1>1. Heap(mem)
  BY DEF HeapInv, Serving, Ready
<1>2. Made(mem, n, path, ft) /\ d = Top(mem.dentry) + 1
  BY <1>1, KnownMade
<1>3. MadeIn(mem, n, p, i, d, Last(path), ft)
  BY <1>2 DEF Made
<1>4. Is(mem, i, "SFS_DIR")
  BY <1>1, MadeInDir DEF KnownAbsent
<1>5. (\A s \in Scan(mem.map_inode, mem.max_ino) : s.no # None) /\ ~(Len(mem.inode[i].dentrys) >= Cells)
  BY DEF MakeSpoils, Spoil, InodeAt
<1>6. Len(mem.inode[i].dentrys) < Cells
  <2>1. i \in DOMAIN mem.inode
    BY <1>3 DEF MadeIn
  <2>2. Len(mem.inode[i].dentrys) \in Nat
    BY <1>1, <2>1, InodeFields DEF Heap, HeapBut
  <2> QED
    BY <1>5, <2>2
<1>7. NewNumber(mem, n, d, ft)
  BY <1>3, <1>5 DEF MadeIn, NoNumber
<1>8. n.dentry[d].inode # NULL
  BY <1>7 DEF NewNumber
<1>9. Shape(n, disk.cell, U)
  BY <1>1, <1>3, <1>4, <1>6, <1>7, MadeShape
<1> QED
  BY <1>3, <1>4, <1>6, <1>7, <1>8, <1>9

LEMMA ShapeCreate ==
    ASSUME HeapInv, ShapeInv, Serving, NEW path \in Path, NEW ft \in FileType, Create(path, ft)
    PROVE  ShapeInv'
<1>1. /\ KnownAbsent(path) /\ mem' = Make(mem, path, ft) /\ Spoils(MakeSpoils(path))
      /\ UNCHANGED <<disk, pc, work, fault, durable>>
  BY DEF Create
<1>2. ASSUME spoilt' = {} PROVE fault' = "none" /\ Shaped(mem', disk.cell)
  <2>1. PICK U : Shape(mem, disk.cell, U)
    BY <1>1, <1>2, Unspoilt
  <2>2. MakeSpoils(path) = {}
    BY <1>1, <1>2, Unspoilt
  <2>3. Shape(mem', disk.cell, U)
    BY <1>1, <2>1, <2>2, MadeShaped
  <2> QED
    BY <1>1, <2>3 DEF Shaped, Serving
<1>3. spoilt \subseteq spoilt'
  BY <1>1 DEF Spoils
<1> QED
  BY <1>1, <1>2, <1>3, HandledShape

\* No number is changed, and no directory ceases to be one, when a new dentry becomes a link.
LEMMA LinkifiedShape ==
    ASSUME NEW m, Ready(m), NEW C, NEW U, Shape(m, C, U), NEW d \in Linked(m) \ {Root}, NEW i,
           i = m.dentry[d].inode, i # NULL, NEW target \in Target, m.dentry[d].ftype # "SFS_DIR",
           NEW n, n = Linkified(m, d, i, target)
    PROVE  Shape(n, C, U)
<1>1. Heap(m) /\ Memory(m)
  BY DEF Ready, Heap, HeapBut
<1>2. Linked(n) = Linked(m) /\ Altered(m, n)
  BY LinkifiedReady
<1>3. d \in DOMAIN m.dentry /\ i \in DOMAIN m.inode
  BY <1>1, LoadedAt
<1>4. /\ m = [dentry |-> m.dentry, inode |-> m.inode, map_inode |-> m.map_inode, max_ino |-> m.max_ino]
      /\ m.dentry \in [DOMAIN m.dentry -> Dentry] /\ m.inode \in [DOMAIN m.inode -> Inode]
  BY <1>1, MemoryFields
<1>5. n.map_inode = m.map_inode
  BY <1>4 DEF Linkified
<1>6. ASSUME NEW e \in DOMAIN m.dentry
      PROVE  n.dentry[e].ino = m.dentry[e].ino /\ (m.dentry[e].ftype = "SFS_DIR" => n.dentry[e].ftype = "SFS_DIR")
  <2>1. m.dentry[e] \in Dentry
    BY <1>1, DentryFields
  <2>2. n.dentry[e] = IF e = d THEN [m.dentry[d] EXCEPT !.ftype = "SFS_SYM_LINK"] ELSE m.dentry[e]
    BY <1>3, <1>4 DEF Linkified
  <2> QED
    BY <2>1, <2>2 DEF Dentry
<1>7. ASSUME NEW j \in DOMAIN m.inode
      PROVE  n.inode[j].ino = m.inode[j].ino /\ n.inode[j].dentry = m.inode[j].dentry
  <2>1. m.inode[j] \in Inode
    BY <1>1, InodeFields
  <2>2. n.inode[j] = IF j = i THEN [m.inode[i] EXCEPT !.target_path = target] ELSE m.inode[j]
    BY <1>3, <1>4 DEF Linkified
  <2> QED
    BY <2>1, <2>2 DEF Inode
<1>8. ASSUME NEW e \in Linked(m), NEW j \in DOMAIN m.inode, j = m.dentry[e].inode
      PROVE  n.inode[j].ino = m.inode[j].ino /\ (Is(m, j, "SFS_DIR") => Is(n, j, "SFS_DIR"))
  <2>1. j # NULL
    BY <1>1, MemoryFields
  <2>2. m.inode[j].dentry \in DOMAIN m.dentry
    BY <1>1, <1>8, <2>1, LoadedAt
  <2> QED
    BY <1>6, <1>7, <2>2 DEF Is
<1> QED
  BY <1>1, <1>2, <1>5, <1>6, <1>8, ShapeAltered
-------------------------------------------------------------------------------
LEMMA ShapeSymlink ==
    ASSUME HeapInv, ShapeInv, NEW path \in Path, NEW target \in Target, sfs_symlink(target, path)
    PROVE  ShapeInv'
<1> PICK made : made = Make(mem, path, "SFS_REG_FILE")
  OBVIOUS
<1> PICK d : d = sfs_lookup(made, path).ret
  OBVIOUS
<1> PICK i : i = made.dentry[d].inode
  OBVIOUS
<1>0. made = Make(mem, path, "SFS_REG_FILE") /\ d = sfs_lookup(made, path).ret /\ i = made.dentry[d].inode
  OBVIOUS
<1>1. /\ Changing("symlink") /\ KnownAbsent(path)
      /\ mem' = IF i = NULL THEN made ELSE Linkified(made, d, i, target)
      /\ fault' = ReadFault(made, d) /\ Spoils(MakeSpoils(path))
      /\ UNCHANGED <<disk, pc, work, durable>>
  BY <1>0 DEF sfs_symlink, Linkified
<1>2. Serving /\ Ready(mem) /\ Heap(mem)
  BY <1>1, Changed
<1>3. ASSUME spoilt' = {} PROVE fault' = "none" /\ Shaped(mem', disk.cell)
  <2>1. PICK U : Shape(mem, disk.cell, U)
    BY <1>1, <1>2, <1>3, Unspoilt
  <2>2. MakeSpoils(path) = {}
    BY <1>1, <1>2, <1>3, Unspoilt
  <2> PICK p : p = sfs_lookup(mem, path).ret
    OBVIOUS
  <2> PICK ip : ip = mem.dentry[p].inode
    OBVIOUS
  <2>3. "SFS_REG_FILE" \in FileType
    BY DEF FileType
  <2>4. /\ Shape(made, disk.cell, U) /\ i # NULL
        /\ MadeIn(mem, made, p, ip, d, Last(path), "SFS_REG_FILE")
    BY <1>0, <1>1, <1>2, <2>1, <2>2, <2>3, MadeShaped
  <2>5. Ready(made) /\ d \in Linked(made) \ {Root} /\ made.dentry[d].ftype = "SFS_REG_FILE"
    <3>1. Made(mem, made, path, "SFS_REG_FILE")
      BY <1>0, <1>1, <1>2, <2>3, KnownMade
    <3>2. Ready(made)
      BY <1>2, <3>1, MadeReady
    <3> QED
      BY <2>4, <3>2 DEF MadeIn
  <2>6. mem' = Linkified(made, d, i, target)
    BY <1>1, <2>4
  <2>7. Shape(mem', disk.cell, U)
    BY <1>0, <2>4, <2>5, <2>6, LinkifiedShape
  <2>8. fault' = "none"
    BY <1>0, <1>1, <2>4 DEF ReadFault
  <2> QED
    BY <2>7, <2>8 DEF Shaped
<1>4. spoilt \subseteq spoilt'
  BY <1>1 DEF Spoils
<1> QED
  BY <1>1, <1>2, <1>3, <1>4, HandledShape

LEMMA ShapeUnlink ==
    ASSUME HeapInv, ShapeInv, NEW op, Changing(op), NEW path \in Path, NEW ft, Unlink(path, ft)
    PROVE  ShapeInv'
<1> PICK d : d = sfs_lookup(mem, path).ret
  OBVIOUS
<1> PICK i : i = mem.dentry[d].inode
  OBVIOUS
<1> PICK j : j = mem.dentry[mem.dentry[d].parent].inode
  OBVIOUS
<1> PICK faults : faults = DropFaults(mem, i)
  OBVIOUS
<1>0. /\ d = sfs_lookup(mem, path).ret /\ i = mem.dentry[d].inode
      /\ j = mem.dentry[mem.dentry[d].parent].inode /\ faults = DropFaults(mem, i)
  OBVIOUS
<1>1. /\ KnownAs(path, ft) /\ fault' \in faults
      /\ mem' = IF "null" \in faults THEN mem
                ELSE sfs_drop_dentry(sfs_drop_inode(mem, i), j, d)
      /\ Spoils(Spoil("null" \in faults, "unloaded") \cup Spoil("bad free" \in faults, "old link"))
      /\ UNCHANGED <<disk, pc, work, durable>>
  BY <1>0 DEF Unlink
<1>2. Serving /\ Ready(mem) /\ Heap(mem)
  BY Changed
<1>3. ListedIn(mem, d, j) /\ i # NULL
  BY <1>0, <1>1, <1>2, KnownIn DEF KnownAs
<1>4. ASSUME spoilt' = {} PROVE fault' = "none" /\ Shaped(mem', disk.cell)
  <2> DEFINE mishaps == Spoil("null" \in faults, "unloaded") \cup Spoil("bad free" \in faults, "old link")
  <2>1. PICK U : Shape(mem, disk.cell, U)
    BY <1>1, <1>2, <1>4, Unspoilt
  <2>2. mishaps = {}
    BY <1>1, <1>2, <1>4, Unspoilt
  <2>3. "null" \notin faults /\ "bad free" \notin faults
    BY <2>2 DEF Spoil
  <2>4. faults = {"none"} /\ NULL \notin Dropped(mem, i)
    BY <1>0, <2>3 DEF DropFaults
  <2>5. Unlinked(mem, mem', d, i)
    BY <1>0, <1>1, <1>2, <1>3, <2>3, <2>4, UnlinkReady
  <2>6. d \in Linked(mem)
    BY <1>3 DEF ListedIn
  <2>7. Shape(mem', disk.cell, U)
    BY <1>0, <1>2, <2>1, <2>4, <2>5, <2>6, UnlinkShape
  <2> QED
    BY <1>1, <2>4, <2>7 DEF Shaped
<1>5. spoilt \subseteq spoilt'
  BY <1>1 DEF Spoils
<1> QED
  BY <1>1, <1>2, <1>4, <1>5, HandledShape

LEMMA ShapeRename ==
    ASSUME HeapInv, ShapeInv, NEW from \in Path, NEW to \in Path, sfs_rename(from, to)
    PROVE  ShapeInv'
<1> PICK f : f = sfs_lookup(mem, from).ret
  OBVIOUS
<1> PICK i : i = mem.dentry[f].inode
  OBVIOUS
<1> PICK ft : ft = IF Is(mem, i, "SFS_DIR") THEN "SFS_DIR" ELSE "SFS_REG_FILE"
  OBVIOUS
<1> PICK made : made = Make(mem, to, ft)
  OBVIOUS
<1> PICK t : t = sfs_lookup(made, to).ret
  OBVIOUS
<1> PICK j : j = mem.dentry[mem.dentry[f].parent].inode
  OBVIOUS
<1> PICK n : n = sfs_drop_dentry(Relink(sfs_drop_inode(made, made.dentry[t].inode), t, i), j, f)
  OBVIOUS
<1>0. /\ f = sfs_lookup(mem, from).ret /\ i = mem.dentry[f].inode /\ made = Make(mem, to, ft)
      /\ ft = (IF Is(mem, i, "SFS_DIR") THEN "SFS_DIR" ELSE "SFS_REG_FILE")
      /\ t = sfs_lookup(made, to).ret /\ j = mem.dentry[mem.dentry[f].parent].inode
      /\ n = sfs_drop_dentry(Relink(sfs_drop_inode(made, made.dentry[t].inode), t, i), j, f)
  OBVIOUS
<1> DEFINE mishaps == MakeSpoils(to) \cup Spoil(Is(mem, i, "SFS_SYM_LINK"), "moved link")
<1>1. /\ Changing("rename") /\ (\E g \in FileType : KnownAs(from, g)) /\ KnownAbsent(to)
      /\ mem' = IF made.dentry[t].inode = NULL THEN made ELSE n
      /\ fault' = ReadFault(made, t) /\ Spoils(mishaps)
      /\ UNCHANGED <<disk, pc, work, durable>>
  BY ONLY sfs_rename(from, to), <1>0 DEF sfs_rename
<1> HIDE DEF mishaps
<1>2. Serving /\ Ready(mem) /\ Heap(mem)
  BY <1>1, Changed
<1>3. ListedIn(mem, f, j) /\ i # NULL
  <2>1. PICK g : Shows(mem, from, g)
    BY <1>1 DEF KnownAs
  <2> QED
    BY <1>0, <1>2, <2>1, KnownIn
<1>4. ASSUME spoilt' = {} PROVE fault' = "none" /\ Shaped(mem', disk.cell)
  <2>1. PICK U : Shape(mem, disk.cell, U)
    BY <1>1, <1>2, <1>4, Unspoilt
  <2>2. mishaps = {}
    BY <1>1, <1>2, <1>4, Unspoilt
  <2>3. MakeSpoils(to) = {}
    BY <2>2 DEF mishaps
  <2> PICK p : p = sfs_lookup(mem, to).ret
    OBVIOUS
  <2> PICK ip : ip = mem.dentry[p].inode
    OBVIOUS
  <2> PICK fname : fname = Last(to)
    OBVIOUS
  <2>4. ft \in FileType
    BY <1>0 DEF FileType
  <2>5. /\ made.dentry[t].inode # NULL /\ NewNumber(mem, made, t, ft)
        /\ MadeIn(mem, made, p, ip, t, fname, ft)
        /\ Is(mem, ip, "SFS_DIR") /\ Len(mem.inode[ip].dentrys) < Cells
    BY <1>0, <1>1, <1>2, <2>1, <2>3, <2>4, MadeShaped
  <2>6. Renamed(mem, n, ip, f, t, i, fname, ft)
    BY ONLY <1>0, <1>2, <1>3, <2>4, <2>5, RenameReady
  <2>7. ip \in DOMAIN mem.inode /\ f \in Linked(mem)
    BY <1>3, <2>5 DEF MadeIn, ListedIn
  <2>8. Shape(n, disk.cell, U)
    BY ONLY <1>0, <1>2, <1>3, <2>1, <2>5, <2>6, <2>7, RenameShape
  <2>9. mem' = n
    BY <1>1, <2>5
  <2>10. fault' = "none"
    BY <1>1, <2>5 DEF ReadFault
  <2> QED
    BY <2>8, <2>9, <2>10 DEF Shaped
<1>5. spoilt \subseteq spoilt'
  BY <1>1 DEF Spoils
<1> QED
  BY <1>1, <1>2, <1>4, <1>5, HandledShape
-------------------------------------------------------------------------------
\* With another record for inode i that has its number, points and lists as before, the shape stays.
LEMMA InodeShape ==
    ASSUME NEW m, Heap(m), NEW C, NEW U, Shape(m, C, U), NEW i \in DOMAIN m.inode, NEW rec \in Inode,
           rec.ino = m.inode[i].ino, rec.dentry = m.inode[i].dentry, rec.dentrys = m.inode[i].dentrys,
           Len(rec.data) = Len(m.inode[i].data),
           NEW n, n = [dentry |-> m.dentry, inode |-> [m.inode EXCEPT ![i] = rec],
                       map_inode |-> m.map_inode, max_ino |-> m.max_ino]
    PROVE  Shape(n, C, U)
<1>1. Memory(m)
  BY DEF Heap, HeapBut
<1>2. Altered(m, n)
  BY <1>1, AlteredInode
<1>3. Linked(n) = Linked(m)
  BY <1>2, AlteredHeap
<1>4. \A e \in Linked(m), j \in DOMAIN m.inode : j = m.dentry[e].inode =>
          n.inode[j].ino = m.inode[j].ino /\ (Is(m, j, "SFS_DIR") => Is(n, j, "SFS_DIR"))
  BY DEF Is
<1>5. n.map_inode = m.map_inode /\ \A d \in DOMAIN m.dentry : n.dentry[d].ino = m.dentry[d].ino
  OBVIOUS
<1> QED
  BY <1>2, <1>3, <1>4, <1>5, ShapeAltered

LEMMA ShapeWrite ==
    ASSUME HeapInv, ShapeInv, NEW path \in Path, NEW offset \in 0 .. Cells, NEW n \in 1 .. Cells,
           NEW byte \in Byte, sfs_write(path, offset, n, byte)
    PROVE  ShapeInv'
<1> PICK i : i = mem.dentry[sfs_lookup(mem, path).ret].inode
  OBVIOUS
<1> PICK w : w = Written(mem.inode[i].size, mem.inode[i].data, offset, n, byte)
  OBVIOUS
<1>0. /\ i = mem.dentry[sfs_lookup(mem, path).ret].inode
      /\ w = Written(mem.inode[i].size, mem.inode[i].data, offset, n, byte)
  OBVIOUS
<1>1. /\ Changing("write") /\ KnownAs(path, "SFS_REG_FILE")
      /\ mem' = IF offset + n > Cells THEN mem
                ELSE [mem EXCEPT !.inode[i].size = w.size, !.inode[i].data = w.data]
      /\ fault' = IF offset + n > Cells THEN "overrun" ELSE "none"
      /\ Spoils(Spoil(offset + n > Cells, "long"))
      /\ UNCHANGED <<disk, pc, work, durable>>
  BY <1>0 DEF sfs_write
<1>2. Serving /\ Heap(mem) /\ Memory(mem)
  BY <1>1, Changed DEF Heap, HeapBut
<1>3. i \in DOMAIN mem.inode
  BY <1>0, <1>1, <1>2, KnownFile
<1>4. ASSUME spoilt' = {} PROVE fault' = "none" /\ Shaped(mem', disk.cell)
  <2>1. PICK U : Shape(mem, disk.cell, U)
    BY <1>1, <1>2, <1>4, Unspoilt
  <2>2. Spoil(offset + n > Cells, "long") = {}
    BY <1>1, <1>2, <1>4, Unspoilt
  <2>3. ~(offset + n > Cells)
    BY <2>2 DEF Spoil
  <2>4. Fits(w, Len(mem.inode[i].data))
    <3>1. mem.inode[i].size \in Nat /\ mem.inode[i].data \in Seq(Byte \cup {Junk})
      BY <1>2, <1>3, InodeFields
    <3>2. offset \in Nat /\ n \in Nat
      OBVIOUS
    <3> QED
      BY <1>0, <3>1, <3>2, WrittenData
  <2> DEFINE rec == [mem.inode[i] EXCEPT !.size = w.size, !.data = w.data]
  <2>5. mem.inode[i] \in Inode
    BY <1>2, <1>3, InodeFields
  <2>6. /\ rec \in Inode /\ rec.dentry = mem.inode[i].dentry /\ rec.dentrys = mem.inode[i].dentrys
        /\ Len(rec.data) = Len(mem.inode[i].data) /\ rec.ino = mem.inode[i].ino
    BY <2>4, <2>5 DEF Inode, Fits
  <2>7. mem = [dentry |-> mem.dentry, inode |-> mem.inode, map_inode |-> mem.map_inode,
               max_ino |-> mem.max_ino] /\ mem.inode \in [DOMAIN mem.inode -> Inode]
    BY <1>2, MemoryFields
  <2>8. mem' = [mem EXCEPT !.inode[i].size = w.size, !.inode[i].data = w.data]
    BY <1>1, <2>3
  <2>9. mem' = [mem EXCEPT !.inode = [@ EXCEPT ![i] = rec]]
    BY ONLY <1>3, <2>5, <2>7, <2>8 DEF Inode
  <2>10. mem' = [dentry |-> mem.dentry, inode |-> [mem.inode EXCEPT ![i] = rec],
                 map_inode |-> mem.map_inode, max_ino |-> mem.max_ino]
    BY ONLY <2>7, <2>9
  <2> HIDE DEF rec
  <2>11. Shape(mem', disk.cell, U)
    BY <1>2, <1>3, <2>1, <2>6, <2>10, InodeShape
  <2> QED
    BY <1>1, <2>3, <2>11 DEF Shaped
<1>5. spoilt \subseteq spoilt'
  BY <1>1 DEF Spoils
<1> QED
  BY <1>1, <1>2, <1>4, <1>5, HandledShape

LEMMA ShapeTruncate ==
    ASSUME HeapInv, ShapeInv, NEW path \in Path, NEW size \in 0 .. Cells, sfs_truncate(path, size)
    PROVE  ShapeInv'
<1> PICK i : i = mem.dentry[sfs_lookup(mem, path).ret].inode
  OBVIOUS
<1>0. i = mem.dentry[sfs_lookup(mem, path).ret].inode
  OBVIOUS
<1>1. /\ Changing("truncate") /\ KnownAs(path, "SFS_REG_FILE")
      /\ mem' = [mem EXCEPT !.inode[i].size = size]
      /\ UNCHANGED <<disk, pc, work, fault, spoilt, durable>>
  BY <1>0 DEF sfs_truncate
<1>2. Serving /\ Heap(mem) /\ Memory(mem)
  BY <1>1, Changed DEF Heap, HeapBut
<1>3. i \in DOMAIN mem.inode
  BY <1>0, <1>1, <1>2, KnownFile
<1>4. ASSUME spoilt' = {} PROVE fault' = "none" /\ Shaped(mem', disk.cell)
  <2>1. PICK U : Shape(mem, disk.cell, U)
    BY <1>1, <1>2, <1>4 DEF ShapeInv, Serving, Shaped
  <2> DEFINE rec == [mem.inode[i] EXCEPT !.size = size]
  <2>2. mem.inode[i] \in Inode
    BY <1>2, <1>3, InodeFields
  <2>3. /\ rec \in Inode /\ rec.dentry = mem.inode[i].dentry /\ rec.dentrys = mem.inode[i].dentrys
        /\ Len(rec.data) = Len(mem.inode[i].data) /\ rec.ino = mem.inode[i].ino
    <3>1. size \in Nat
      OBVIOUS
    <3> QED
      BY <2>2, <3>1 DEF Inode
  <2>4. mem = [dentry |-> mem.dentry, inode |-> mem.inode, map_inode |-> mem.map_inode,
               max_ino |-> mem.max_ino] /\ mem.inode \in [DOMAIN mem.inode -> Inode]
    BY <1>2, MemoryFields
  <2>5. mem' = [dentry |-> mem.dentry, inode |-> [mem.inode EXCEPT ![i] = rec],
                map_inode |-> mem.map_inode, max_ino |-> mem.max_ino]
    BY <1>1, <1>3, <2>4
  <2> HIDE DEF rec
  <2>6. Shape(mem', disk.cell, U)
    BY <1>2, <1>3, <2>1, <2>3, <2>5, InodeShape
  <2> QED
    BY <1>1, <1>2, <2>6 DEF Shaped, Serving
<1> QED
  BY <1>1, <1>2, <1>4, HandledShape

LEMMA ShapeMount ==
    ASSUME HeapInv, ShapeInv, FormatNew \/ MountOld
    PROVE  ShapeInv'
<1>1. pc = "unmounted" /\ pc' = "read_root" /\ UNCHANGED <<work, fault, spoilt>>
  BY DEF FormatNew, MountOld
<1> SUFFICES ASSUME spoilt = {} PROVE ShapeInv'
  BY <1>1 DEF ShapeInv
<1>2. fault' = "none" /\ DiskIs(disk)
  BY <1>1 DEF ShapeInv, HeapInv, DiskIs
<1>3. CASE FormatNew
  <2>1. disk.map_inode = {} /\ ~disk.magic
    BY <1>3 DEF FormatNew, HeapInv
  <2>2. /\ mem' = FirstMemory({0}, MaxIno)
        /\ disk' = [disk EXCEPT !.cell[SFS_INO_OFS(0)] = InodeD(NewInode(0, Root, "SFS_DIR"))]
    BY <1>3, <2>1, Formatted
  <2>3. SFS_INO_OFS(0) \in Address
    <3>1. 0 \in Bit /\ 0 \in 0 .. Cells
      BY DEF Bit
    <3>2. SFS_INO_OFS(0) + 0 \in Address /\ SFS_INO_OFS(0) \in Nat
      BY <3>1, SlotAddress
    <3> QED
      BY <3>2
  <2>4. disk'.cell[SFS_INO_OFS(0)] = InodeD(NewInode(0, Root, "SFS_DIR")) /\ ~disk'.magic
    BY <1>2, <2>1, <2>2, <2>3 DEF DiskIs
  <2>5. Whole(disk'.cell, {0})
    BY <2>4, EmptyWhole
  <2>6. \E U : Shape(mem', disk'.cell, U)
    <3>1. {0} \in SUBSET Bit /\ MaxIno \in {0, MaxIno}
      BY DEF Bit
    <3> QED
      BY <2>2, <2>5, <3>1, MountShape
  <2> QED
    BY <1>1, <1>2, <2>4, <2>6 DEF ShapeInv, Shaped, Umounting
<1>4. CASE MountOld
  <2>1. disk.magic /\ mem' = FirstMemory(disk.map_inode, 0) /\ disk' = disk
    BY <1>4 DEF MountOld, OldMemory
  <2>2. Whole(disk.cell, disk.map_inode)
    BY <1>1, <2>1 DEF ShapeInv, Umounting
  <2>3. \E U : Shape(mem', disk.cell, U)
    BY <1>2, <2>1, <2>2, MountShape DEF DiskIs
  <2> QED
    BY <1>1, <1>2, <2>1, <2>2, <2>3 DEF ShapeInv, Shaped, Umounting
<1> QED
  BY <1>3, <1>4

LEMMA ShapeReadRoot ==
    ASSUME HeapInv, ShapeInv, ReadRoot
    PROVE  ShapeInv'
<1>1. /\ pc = "read_root" /\ pc' = "mounted" /\ mem' = sfs_read_inode(mem, Root)
      /\ fault' = ReadFault(mem, Root) /\ UNCHANGED <<disk, work, spoilt>>
  BY DEF ReadRoot
<1> SUFFICES ASSUME spoilt = {} PROVE ShapeInv'
  BY <1>1 DEF ShapeInv
<1>2. Heap(mem) /\ mem.dentry[Root].inode = NULL /\ DiskType
  BY <1>1, InvDisk DEF HeapInv
<1>3. PICK U : Shape(mem, disk.cell, U)
  BY <1>1 DEF ShapeInv, Shaped
<1>4. Root \in Linked(mem)
  BY DEF Linked
<1>5. fault' = "none"
  BY <1>1, <1>2, <1>3, <1>4, ShapeReadable
<1>6. \E V : Shape(mem', disk.cell, V)
  BY <1>1, <1>2, <1>3, <1>4, ReadShape
<1>7. disk.magic => Whole(disk.cell, disk.map_inode)
  BY <1>1 DEF ShapeInv, Umounting
<1> QED
  BY <1>1, <1>5, <1>6, <1>7 DEF ShapeInv, Shaped

\* sfs_umount, from its start to the last write.
LEMMA ShapeUmount ==
    ASSUME HeapInv, ShapeInv, sfs_umount \/ sfs_sync_inode \/ EndSync \/ WriteSuper
    PROVE  ShapeInv'
<1>1. pc' \in Umounting /\ UNCHANGED <<mem, fault, spoilt>>
  BY DEF sfs_umount, sfs_sync_inode, EndSync, WriteSuper, Umounting
<1> SUFFICES ASSUME spoilt = {} PROVE ShapeInv'
  BY <1>1 DEF ShapeInv
<1>2. fault' = "none"
  BY <1>1 DEF ShapeInv
<1>3. CASE sfs_umount
  <2>1. Serving /\ pc' = "sync" /\ work' = <<Frame(mem.dentry[Root].inode)>> /\ disk' = disk
    BY <1>3 DEF sfs_umount
  <2>2. Ready(mem)
    BY <2>1 DEF HeapInv
  <2>3. PICK U : Shape(mem, disk.cell, U)
    BY <2>1 DEF ShapeInv, Shaped, Serving
  <2>4. Synced(mem, disk.cell, ToSet(work'), {})
    BY <2>1, <2>2, FirstSynced
  <2>5. UnderWay(mem', disk'.cell, ToSet(work'))
    BY <1>1, <2>1, <2>3, <2>4 DEF UnderWay
  <2> QED
    BY <1>1, <1>2, <2>1, <2>5 DEF ShapeInv
<1>4. CASE sfs_sync_inode
  <2> PICK f : f = Head(work)
    OBVIOUS
  <2>1. /\ pc = "sync" /\ pc' = "sync" /\ work # <<>> /\ f = Head(work)
        /\ WriteInode(f) \/ WriteDentry(f) \/ WriteData(f)
    BY <1>4 DEF sfs_sync_inode
  <2>2. Heap(mem) /\ Stacked(mem, work) /\ DiskIs(disk)
    BY <2>1 DEF HeapInv, DiskIs
  <2>3. PICK U : Shape(mem, disk.cell, U) /\ \E E : Synced(mem, disk.cell, ToSet(work), E)
    BY <2>1 DEF ShapeInv, UnderWay
  <2>4. PICK E : Synced(mem, disk.cell, ToSet(work), E)
    BY <2>3
  <2>5. Shape(mem, disk'.cell, U) /\ \E F : Synced(mem, disk'.cell, ToSet(work'), F)
    BY <2>1, <2>2, <2>3, <2>4, SyncedStep
  <2>6. UnderWay(mem', disk'.cell, ToSet(work'))
    BY <1>1, <2>5 DEF UnderWay
  <2> QED
    BY <1>1, <1>2, <2>1, <2>6 DEF ShapeInv
<1>5. CASE EndSync
  <2>1. pc = "sync" /\ pc' = "super" /\ work = <<>> /\ disk' = disk
    BY <1>5 DEF EndSync
  <2>2. ToSet(work) = {}
    BY <2>1 DEF ToSet
  <2>3. PICK U : Shape(mem, disk.cell, U) /\ \E E : Synced(mem, disk.cell, {}, E)
    BY <2>1, <2>2 DEF ShapeInv, UnderWay
  <2>4. Heap(mem)
    BY <2>1 DEF HeapInv
  <2>5. Whole(disk.cell, mem.map_inode)
    BY <2>3, <2>4, EndWhole
  <2> QED
    BY <1>1, <1>2, <2>1, <2>5 DEF ShapeInv
<1>6. CASE WriteSuper
  <2>1. pc = "super" /\ pc' = "map_inode" /\ disk' = [disk EXCEPT !.magic = TRUE]
    BY <1>6 DEF WriteSuper
  <2>2. disk'.cell = disk.cell
    BY <2>1 DEF HeapInv
  <2>3. Whole(disk.cell, mem.map_inode)
    BY <2>1 DEF ShapeInv
  <2> QED
    BY <1>1, <1>2, <2>1, <2>2, <2>3 DEF ShapeInv
<1> QED
  BY <1>3, <1>4, <1>5, <1>6

LEMMA ShapeExit ==
    ASSUME HeapInv, ShapeInv, WriteMapInode \/ Crash
    PROVE  ShapeInv'
<1>1. pc' = "unmounted" /\ fault' = "none" /\ spoilt \subseteq spoilt'
  BY DEF WriteMapInode, Crash, Exit, Spoils
<1> SUFFICES ASSUME spoilt' = {} PROVE disk'.magic => Whole(disk'.cell, disk'.map_inode)
  BY <1>1 DEF ShapeInv, Umounting
<1>2. spoilt = {}
  BY <1>1
<1>3. CASE WriteMapInode
  <2>1. pc = "map_inode" /\ disk' = [disk EXCEPT !.map_inode = mem.map_inode]
    BY <1>3 DEF WriteMapInode
  <2>2. disk'.cell = disk.cell /\ disk'.map_inode = mem.map_inode
    BY <2>1 DEF HeapInv
  <2>3. Whole(disk.cell, mem.map_inode)
    BY <1>2, <2>1 DEF ShapeInv
  <2> QED
    BY <2>2, <2>3
<1>4. CASE Crash
  <2>1. disk' = disk /\ Spoils(Spoil(pc \in Umounting /\ disk.magic, "torn"))
    BY <1>4 DEF Crash
  <2>2. Spoil(pc \in Umounting /\ disk.magic, "torn") = {}
    BY <2>1 DEF Spoils
  <2>3. ~(pc \in Umounting /\ disk.magic)
    BY <2>2 DEF Spoil
  <2> QED
    BY <1>2, <2>1, <2>3 DEF ShapeInv
<1> QED
  BY <1>3, <1>4
-------------------------------------------------------------------------------
LEMMA ShapeInit ==
    ASSUME Init
    PROVE  ShapeInv
  BY DEF Init, ShapeInv, Umounting

\* Every step keeps the shape of memory and disk, or is a mishap.
LEMMA ShapeNext ==
    ASSUME HeapInv, ShapeInv, Next
    PROVE  ShapeInv'
<1>1. ASSUME NEW path \in Path, Getattr(path) PROVE ShapeInv'
  BY <1>1, ShapeGetattr
<1>2. ASSUME NEW path \in Path, sfs_mkdir(path) \/ sfs_mknod(path) PROVE ShapeInv'
  <2>1. CASE sfs_mkdir(path)
    <3>1. Serving /\ Create(path, "SFS_DIR")
      BY <2>1 DEF sfs_mkdir, Changing
    <3>2. "SFS_DIR" \in FileType
      BY DEF FileType
    <3> QED
      BY <3>1, <3>2, ShapeCreate
  <2>2. CASE sfs_mknod(path)
    <3>1. Serving /\ Create(path, "SFS_REG_FILE")
      BY <2>2 DEF sfs_mknod, Changing
    <3>2. "SFS_REG_FILE" \in FileType
      BY DEF FileType
    <3> QED
      BY <3>1, <3>2, ShapeCreate
  <2> QED
    BY <1>2, <2>1, <2>2
<1>3. ASSUME NEW path \in Path, sfs_unlink(path) \/ sfs_rmdir(path) PROVE ShapeInv'
  <2>1. CASE sfs_unlink(path)
    <3>1. PICK ft : Changing("unlink") /\ Unlink(path, ft)
      BY <2>1 DEF sfs_unlink
    <3> QED
      BY <3>1, ShapeUnlink
  <2>2. CASE sfs_rmdir(path)
    <3>1. Changing("rmdir") /\ Unlink(path, "SFS_DIR")
      BY <2>2 DEF sfs_rmdir
    <3> QED
      BY <3>1, ShapeUnlink
  <2> QED
    BY <1>3, <2>1, <2>2
<1>4. ASSUME NEW path \in Path, NEW target \in Target, sfs_symlink(target, path) PROVE ShapeInv'
  BY <1>4, ShapeSymlink
<1>5. ASSUME NEW path \in Path, NEW to \in Path, sfs_rename(path, to) PROVE ShapeInv'
  BY <1>5, ShapeRename
<1>6. ASSUME NEW path \in Path, NEW offset \in 0 .. Cells, NEW n \in 1 .. Cells, NEW byte \in Byte,
             sfs_write(path, offset, n, byte)
      PROVE ShapeInv'
  BY <1>6, ShapeWrite
<1>7. ASSUME NEW path \in Path, NEW size \in 0 .. Cells, sfs_truncate(path, size) PROVE ShapeInv'
  BY <1>7, ShapeTruncate
<1>8. CASE FormatNew \/ MountOld
  BY <1>8, ShapeMount
<1>9. CASE ReadRoot
  BY <1>9, ShapeReadRoot
<1>10. CASE sfs_umount \/ sfs_sync_inode \/ EndSync \/ WriteSuper
  BY <1>10, ShapeUmount
<1>11. CASE WriteMapInode \/ Crash
  BY <1>11, ShapeExit
<1> QED
  BY <1>1, <1>2, <1>3, <1>4, <1>5, <1>6, <1>7, <1>8, <1>9, <1>10, <1>11 DEF Next

\* Without a mishap every number has one owner, in memory or on the disk, sfs_umount overwrites
\* nothing that is not loaded, and what it leaves is a whole tree, whose numbers are all in the
\* bitmap: for any calls, mounts and crashes, on a disk of any size.
THEOREM TreesStayWhole == Spec => []ShapeInv
<1>1. Init => ShapeInv
  BY ShapeInit
<1>2. HeapInv /\ ShapeInv /\ [Next]_vars => ShapeInv'
  <2>1. ASSUME HeapInv, ShapeInv, Next PROVE ShapeInv'
    BY <2>1, ShapeNext
  <2>2. ASSUME ShapeInv, UNCHANGED vars PROVE ShapeInv'
    BY <2>2 DEF vars, ShapeInv
  <2> QED
    BY <2>1, <2>2
<1> QED
  BY <1>1, <1>2, HeapIsInOrder, PTL DEF Spec

\* FaultNeedsMishap holds in every reachable state: no null pointer is followed, nothing is freed
\* that malloc has not given, no bytes of the disk are taken for what they are not, but after one
\* of the mishaps Mishap lists.
THEOREM NoFaultWithoutMishap == Spec => []FaultNeedsMishap
<1>1. ShapeInv => FaultNeedsMishap
  BY DEF ShapeInv, FaultNeedsMishap
<1> QED
  BY <1>1, TreesStayWhole, PTL
===============================================================================
