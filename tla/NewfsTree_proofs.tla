--------------------------- MODULE NewfsTree_proofs ---------------------------
(***************************************************************************)
(* The names: TreeIsPromised, DiskIsPromised, LookupIsExact and            *)
(* ListingMissesNone for every set of names none of which begins with      *)
(* another.  The invariant of Newfs_proofs is strengthened by where each   *)
(* inode number is in the tree that mkdir and mknod have promised.         *)
(***************************************************************************)
EXTENDS Newfs_proofs

USE AreaAssumption, CellsAssumption, BoundAssumption, MapBitsAssumption

Where == Path \cup {<<>>}

\* The numbers in use: those of the dentries D in memory and of the stored inodes U.
Numbers(D, U) == U \cup {D[d].ino : d \in DOMAIN D}

(***************************************************************************)
(* Each number x in use has the place at[x], its own, and the type         *)
(* kind[x].  What is below x, in memory or on the disk, is placed below    *)
(* at[x], everything but the root is below something, and all of it makes  *)
(* up the tree T.                                                          *)
(***************************************************************************)
Labelled(at, kind, D, U) ==
    /\ at \in [Numbers(D, U) -> Where] /\ kind \in [Numbers(D, U) -> FileType]
    /\ 0 \in Numbers(D, U) /\ at[0] = <<>> /\ kind[0] = "NFS_DIR"
    /\ \A x, y \in Numbers(D, U) : at[x] = at[y] => x = y
    /\ \A d \in DOMAIN D : kind[D[d].ino] = D[d].file_type

BelowLoaded(at, D, I) ==
    \A i \in DOMAIN I : \A k \in DOMAIN I[i].dentries :
        LET e == D[I[i].dentries[k]]
        IN  D[I[i].dentry].file_type = "NFS_DIR" /\ at[e.ino] = Append(at[I[i].ino], e.name)

BelowStored(at, kind, C, U) ==
    \A u \in U : \A k \in Kids(C, u) :
        LET e == Kid(C, u, k)
        IN  at[e.ino] = Append(at[u], e.name) /\ kind[e.ino] = e.file_type /\ e.name \in Name

Covered(D, I, C, U) ==
    \A x \in Numbers(D, U) \ {0} :
        \/ \E i \in DOMAIN I : \E k \in DOMAIN I[i].dentries : D[I[i].dentries[k]].ino = x
        \/ \E u \in U : \E k \in Kids(C, u) : Kid(C, u, k).ino = x

Named(at, kind, D, I, C, U, T) ==
    /\ Labelled(at, kind, D, U) /\ BelowLoaded(at, D, I) /\ BelowStored(at, kind, C, U)
    /\ Covered(D, I, C, U)
    /\ T = {<<at[x], kind[x]>> : x \in Numbers(D, U) \ {0}}

\* A listing l under way: what it had at its start it has returned or is still to return.
ToCome(D, i, l, n) == \E k \in DOMAIN i.dentries : k > l.offset /\ D[i.dentries[k]].name = n

Underway(at, D, I, l) ==
    l.on => \E i \in DOMAIN I : /\ at[I[i].ino] = l.path
                                /\ \A n \in l.had : n \in l.seen \/ ToCome(D, I[i], l, n)

\* The memory D, I and the disk C hold the tree T between them.
HoldsTree(D, I, C, mi, md, T, l) ==
    \E U \in SUBSET Bit : \E at, kind :
        /\ Stored(C, U, mi, md) /\ Linked(D, I, C, U, mi, md)
        /\ Named(at, kind, D, I, C, U, T) /\ Underway(at, D, I, l)

SavedTree(C, mi, md, T) == HoldsTree(<<RootDentry>>, <<>>, C, mi, md, T, NoListing)

MemoryTree ==
    pc \in {"read_root", "mounted", "sync"} /\ spoilt = {} =>
        HoldsTree(dentry, inode, disk.cell, super.map_inode, super.map_data,
                  live, ls)

DiskTree ==
    spoilt = {} =>
        /\ pc \notin Destroying /\ disk.magic =>
              SavedTree(disk.cell, disk.map_inode, disk.map_data, durable)
        /\ pc \in Destroying \ {"sync"} =>
              SavedTree(disk.cell, super.map_inode, super.map_data, live)

HistoryOk ==
    /\ pc = "unmounted" => live = durable
    /\ ~disk.magic => durable = {}
    /\ pc # "mounted" => ~ls.on

TreeInv == ShapeInv /\ MemoryTree /\ DiskTree /\ HistoryOk
-------------------------------------------------------------------------------
\* One level further down.
Deeper(S) == UNION {{<<Append(x[1], c.name), c>> : c \in Children(x[2])} : x \in S}

\* A child of what is in S is one level further down.
LEMMA OneDeeper ==
    ASSUME NEW S, NEW z \in S, NEW c \in Children(z[2])
    PROVE  <<Append(z[1], c.name), c>> \in Deeper(S)
<1> DEFINE F(x) == {<<Append(x[1], e.name), e>> : e \in Children(x[2])}
<1>1. <<Append(z[1], c.name), c>> \in F(z)
  OBVIOUS
<1>2. Deeper(S) = UNION {F(x) : x \in S}
  BY DEF Deeper
<1> HIDE DEF F
<1> QED
  BY <1>1, <1>2

\* The levels of a tree exist: built one by one, none is the first to be missing.
LEMMA LevelsExist ==
    ASSUME NEW root
    PROVE  \E L : /\ L = [k \in 0 .. MaxDepth |-> IF k = 0 THEN {<<<<>>, root>>} ELSE Deeper(L[k - 1])]
                  /\ Descendants(root) = UNION {L[k] : k \in 1 .. MaxDepth}
<1> DEFINE Step(L, k) == IF k = 0 THEN {<<<<>>, root>>} ELSE Deeper(L[k - 1])
           Built(L, n) == L = [k \in 0 .. n |-> Step(L, k)]
           S == {n \in Nat : ~ \E L : Built(L, n)}
<1>1. S = {}
  <2> SUFFICES ASSUME S # {} PROVE FALSE
    OBVIOUS
  <2>1. PICK n \in S : \A m \in S : n <= m
    BY Least
  <2>2. CASE n = 0
    <3> DEFINE L == [k \in 0 .. 0 |-> {<<<<>>, root>>}]
    <3>1. Built(L, 0)
      OBVIOUS
    <3> QED
      BY <2>1, <2>2, <3>1
  <2>3. CASE n > 0
    <3> HIDE DEF Built
    <3>0. n \in Nat /\ n - 1 \in Nat /\ ~(n <= n - 1)
      BY <2>1, <2>3
    <3>1. n - 1 \in Nat /\ n - 1 \notin S
      BY <2>1, <3>0
    <3>2. PICK v : Built(v, n - 1)
      BY <3>1
    <3> USE DEF Built
    <3> DEFINE L == [k \in 0 .. n |-> IF k = n THEN Deeper(v[n - 1]) ELSE v[k]]
    <3>3. L[n - 1] = v[n - 1] /\ L[n] = Deeper(v[n - 1])
      BY <3>0
    <3>4. ASSUME NEW k \in 0 .. n PROVE L[k] = Step(L, k)
      <4>1. CASE k = n
        <5>1. L[k] = Deeper(v[n - 1]) /\ L[k - 1] = v[n - 1] /\ k # 0
          BY <4>1, <3>3, <2>3
        <5> HIDE DEF L
        <5>2. L[k] = Deeper(L[k - 1])
          BY <5>1, Zenon
        <5> QED
          BY <5>1, <5>2
      <4>2. CASE k # n
        <5>0. k \in 0 .. n - 1
          BY <4>2, <3>0
        <5>1. k \in 0 .. n - 1 /\ L[k] = v[k] /\ v[k] = Step(v, k)
          <6>1. v[k] = Step(v, k)
            <7> HIDE DEF Step
            <7> QED
              BY <5>0, <3>2
          <6> QED
            BY <4>2, <5>0, <6>1
        <5>2. CASE k = 0
          BY <5>1, <5>2
        <5>3. CASE k # 0
          <6>1. k - 1 \in 0 .. n /\ k - 1 # n
            BY <5>1, <5>3, <3>0
          <6>2. L[k - 1] = v[k - 1]
            BY <6>1
          <6> QED
            BY <5>1, <5>3, <6>2
        <5> QED
          BY <5>2, <5>3
      <4> QED
        BY <4>1, <4>2
    <3>5. Built(L, n)
      <4>1. L = [k \in 0 .. n |-> L[k]]
        OBVIOUS
      <4> HIDE DEF L, Step
      <4> QED
        BY <3>4, <4>1
    <3> HIDE DEF L, Built
    <3> QED
      BY <2>1, <3>5
  <2> QED
    BY <2>1, <2>2, <2>3
<1>2. \E L : Built(L, MaxDepth)
  BY <1>1
<1> DEFINE level == CHOOSE L : Built(L, MaxDepth)
<1>3. Built(level, MaxDepth)
  BY <1>2
<1>4. Descendants(root) = UNION {level[k] : k \in 1 .. MaxDepth}
  BY DEF Descendants, Deeper
<1> HIDE DEF level
<1> QED
  BY <1>3, <1>4

\* A place has a length, the root's 0, all others up to MaxDepth.
LEMMA WhereType ==
    ASSUME NEW p \in Where
    PROVE  /\ p \in Seq(Name) /\ Len(p) \in 0 .. MaxDepth
           /\ p = <<>> <=> Len(p) = 0
           /\ p # <<>> => p \in Path /\ Len(p) \in 1 .. MaxDepth
<1>1. CASE p \in Path
  BY <1>1, PathType
<1>2. CASE p = <<>>
  <2>1. <<>> \in Seq(Name) /\ Len(<<>>) = 0
    OBVIOUS
  <2> QED
    BY <1>2, <2>1
<1> QED
  BY <1>1, <1>2 DEF Where

\* One component more.
LEMMA Longer ==
    ASSUME NEW p \in Where, NEW n \in Name
    PROVE  /\ Append(p, n) \in Seq(Name) /\ Len(Append(p, n)) = Len(p) + 1
           /\ Append(p, n)[Len(p) + 1] = n
           /\ \A k \in 1 .. Len(p) : Append(p, n)[k] = p[k]
<1>1. p \in Seq(Name)
  BY WhereType
<1> QED
  BY <1>1, AppendProperties

(***************************************************************************)
(* A tree of records r, each with a place at[r.ino] of its own, its        *)
(* children one component below it: what Descendants finds is all of it.   *)
(***************************************************************************)
Placement(R, N, at, kind, root) ==
    /\ root \in R /\ at \in [N -> Where] /\ at[root.ino] = <<>>
    /\ \A x, y \in N : at[x] = at[y] => x = y
    /\ \A r \in R : r.ino \in N /\ kind[r.ino] = r.file_type
    /\ \A r \in R : \A c \in Children(r) :
          c \in R /\ c.name \in Name /\ at[c.ino] = Append(at[r.ino], c.name)
    /\ \A r, s \in R : r.ino = s.ino => r = s
    /\ \A x \in N \ {root.ino} : \E r \in R : \E c \in Children(r) : c.ino = x

\* What can be reached from the root then are the numbers, each at its place.
LEMMA TreeOf ==
    ASSUME NEW R, NEW N, NEW at, NEW kind, NEW root, Placement(R, N, at, kind, root)
    PROVE  Tree(root) = {<<at[x], kind[x]>> : x \in N \ {root.ino}}
<1>1. /\ root \in R /\ root.ino \in N /\ at \in [N -> Where] /\ at[root.ino] = <<>>
      /\ \A x, y \in N : at[x] = at[y] => x = y
      /\ \A r \in R : r.ino \in N /\ kind[r.ino] = r.file_type
      /\ \A r \in R : \A c \in Children(r) :
            c \in R /\ c.name \in Name /\ at[c.ino] = Append(at[r.ino], c.name)
      /\ \A r, s \in R : r.ino = s.ino => r = s
      /\ \A x \in N \ {root.ino} : \E r \in R : \E c \in Children(r) : c.ino = x
  BY DEF Placement
<1>2. PICK L : /\ L = [k \in 0 .. MaxDepth |->
                          IF k = 0 THEN {<<<<>>, root>>} ELSE Deeper(L[k - 1])]
               /\ Descendants(root) = UNION {L[k] : k \in 1 .. MaxDepth}
  BY LevelsExist
<1>3. L[0] = {<<<<>>, root>>}
  BY <1>2
<1>4. ASSUME NEW k \in 1 .. MaxDepth PROVE L[k] = Deeper(L[k - 1])
  <2>1. k \in 0 .. MaxDepth /\ k # 0
    OBVIOUS
  <2> QED
    BY <1>2, <2>1
<1>5. \A x \in N : at[x] \in Where /\ Len(at[x]) \in 0 .. MaxDepth
  BY <1>1, WhereType
<1> DEFINE At(y, k) == \E r \in R : y = <<at[r.ino], r>> /\ Len(at[r.ino]) = k
           Bad == {k \in 0 .. MaxDepth : ~ \A y \in L[k] : At(y, k)}
           Found(x) == \E r \in R : r.ino = x /\ <<at[x], r>> \in L[Len(at[x])]
           Lost == {k \in 0 .. MaxDepth : \E x \in N : Len(at[x]) = k /\ ~Found(x)}
<1>6. Bad = {}
  <2> SUFFICES ASSUME Bad # {} PROVE FALSE
    OBVIOUS
  <2>1. PICK k \in Bad : \A n \in Bad : k <= n
    <3>1. Bad \in SUBSET Nat
      OBVIOUS
    <3> QED
      BY <3>1, Least
  <2>2. PICK y \in L[k] : ~At(y, k)
    BY <2>1
  <2>3. k # 0
    <3>1. Len(at[root.ino]) = 0
      BY <1>1
    <3>2. At(<<<<>>, root>>, 0)
      BY <1>1, <3>1
    <3> QED
      BY <1>3, <2>2, <3>2
  <2>4. k \in 1 .. MaxDepth /\ k - 1 \in 0 .. MaxDepth /\ ~(k <= k - 1)
    BY <2>1, <2>3
  <2>5. k - 1 \notin Bad
    BY <2>1, <2>4
  <2>6. \A z \in L[k - 1] : At(z, k - 1)
    BY <2>4, <2>5
  <2>7. y \in Deeper(L[k - 1])
    BY <1>4, <2>2, <2>4
  <2>8. PICK z \in L[k - 1] : \E c \in Children(z[2]) : y = <<Append(z[1], c.name), c>>
    BY <2>7 DEF Deeper
  <2>9. PICK r \in R : z = <<at[r.ino], r>> /\ Len(at[r.ino]) = k - 1
    BY <2>6
  <2>10. PICK c \in Children(r) : y = <<Append(at[r.ino], c.name), c>>
    BY <2>8, <2>9
  <2>11. c \in R /\ c.name \in Name /\ at[c.ino] = Append(at[r.ino], c.name)
    BY <1>1
  <2>12. at[r.ino] \in Where
    BY <1>1, <1>5
  <2>13. Len(at[c.ino]) = Len(at[r.ino]) + 1
    BY <2>11, <2>12, Longer
  <2>14. Len(at[c.ino]) = k
    BY <2>4, <2>9, <2>13
  <2> QED
    BY <2>2, <2>10, <2>11, <2>14
<1>7. Lost = {}
  <2> SUFFICES ASSUME Lost # {} PROVE FALSE
    OBVIOUS
  <2>1. PICK k \in Lost : \A n \in Lost : k <= n
    <3>1. Lost \in SUBSET Nat
      OBVIOUS
    <3> QED
      BY <3>1, Least
  <2>2. PICK x \in N : Len(at[x]) = k /\ ~Found(x)
    BY <2>1
  <2>3. x # root.ino
    <3>1. Len(at[root.ino]) = 0
      BY <1>1
    <3>2. Found(root.ino)
      BY <1>1, <1>3, <3>1
    <3> QED
      BY <2>2, <3>2
  <2>4. PICK r \in R : \E c \in Children(r) : c.ino = x
    BY <1>1, <2>3
  <2>5. PICK c \in Children(r) : c.ino = x
    BY <2>4
  <2>6. /\ c \in R /\ c.name \in Name /\ at[x] = Append(at[r.ino], c.name)
        /\ r.ino \in N /\ at[r.ino] \in Where
    BY <1>1, <1>5, <2>5
  <2> PICK p : p = at[r.ino]
    OBVIOUS
  <2>7. k = Len(p) + 1 /\ Len(p) \in 0 .. MaxDepth
    <3>1. Len(Append(p, c.name)) = Len(p) + 1
      BY <2>6, Longer
    <3>2. k = Len(Append(p, c.name))
      BY <2>2, <2>6
    <3>3. Len(p) \in 0 .. MaxDepth
      BY <1>5, <2>6
    <3> QED
      BY <3>1, <3>2, <3>3
  <2>8. Len(p) \notin Lost
    <3> SUFFICES ASSUME Len(p) \in Lost PROVE FALSE
      OBVIOUS
    <3>1. k <= Len(p)
      BY <2>1
    <3> QED
      BY <2>7, <3>1
  <2>9. Found(r.ino)
    BY <2>6, <2>7, <2>8
  <2>10. PICK s \in R : s.ino = r.ino /\ <<at[r.ino], s>> \in L[Len(at[r.ino])]
    BY <2>9
  <2>11. s = r
    BY <1>1, <2>10
  <2>12. <<at[x], c>> \in Deeper(L[Len(at[r.ino])])
    <3>1. <<at[r.ino], r>>[1] = at[r.ino] /\ <<at[r.ino], r>>[2] = r
      OBVIOUS
    <3> PICK S : S = L[Len(at[r.ino])]
      OBVIOUS
    <3> PICK z : z = <<at[r.ino], r>>
      OBVIOUS
    <3>2. z \in S /\ z[1] = at[r.ino] /\ z[2] = r
      BY <2>10, <2>11
    <3>3. <<at[x], c>> = <<Append(z[1], c.name), c>>
      BY <2>6, <3>2
    <3>4. <<at[x], c>> \in Deeper(S)
      BY <2>5, <3>2, <3>3, OneDeeper
    <3> QED
      BY <3>4
  <2>13. k \in 1 .. MaxDepth /\ k - 1 = Len(at[r.ino])
    BY <2>1, <2>7
  <2>14. <<at[x], c>> \in L[k]
    BY <1>4, <2>12, <2>13
  <2> QED
    BY <2>2, <2>5, <2>6, <2>14
<1>8. ASSUME NEW k \in 1 .. MaxDepth, NEW y \in L[k]
      PROVE  \E x \in N \ {root.ino} : y[1] = at[x] /\ y[2].file_type = kind[x]
  <2>1. k \in 0 .. MaxDepth /\ k # 0
    OBVIOUS
  <2>2. At(y, k)
    BY <1>6, <2>1
  <2>3. PICK r \in R : y = <<at[r.ino], r>> /\ Len(at[r.ino]) = k
    BY <2>2
  <2>4. r.ino # root.ino
    <3>1. Len(at[root.ino]) = 0
      BY <1>1
    <3> QED
      BY <2>1, <2>3, <3>1
  <2>5. y[1] = at[r.ino] /\ y[2] = r
    BY <2>3
  <2> QED
    BY <1>1, <2>4, <2>5
<1>9. ASSUME NEW x \in N \ {root.ino}
      PROVE  \E k \in 1 .. MaxDepth : \E y \in L[k] : y[1] = at[x] /\ y[2].file_type = kind[x]
  <2>1. Found(x)
    BY <1>5, <1>7
  <2>2. PICK r \in R : r.ino = x /\ <<at[x], r>> \in L[Len(at[x])]
    BY <2>1
  <2>3. at[x] # <<>>
    BY <1>1
  <2>4. Len(at[x]) \in 1 .. MaxDepth
    BY <1>5, <2>3, WhereType
  <2>5. <<at[x], r>>[1] = at[x] /\ <<at[x], r>>[2] = r
    OBVIOUS
  <2> QED
    BY <1>1, <2>2, <2>4, <2>5
<1> HIDE DEF At, Bad, Found, Lost
<1>10. ASSUME NEW z \in Tree(root) PROVE z \in {<<at[x], kind[x]>> : x \in N \ {root.ino}}
  <2>1. PICK y \in Descendants(root) : z = <<y[1], y[2].file_type>>
    BY DEF Tree
  <2>2. PICK k \in 1 .. MaxDepth : y \in L[k]
    BY <1>2
  <2> QED
    BY <1>8, <2>1, <2>2
<1>11. ASSUME NEW x \in N \ {root.ino} PROVE <<at[x], kind[x]>> \in Tree(root)
  <2>1. PICK k \in 1 .. MaxDepth : \E y \in L[k] : y[1] = at[x] /\ y[2].file_type = kind[x]
    BY <1>9
  <2>2. PICK y \in L[k] : y[1] = at[x] /\ y[2].file_type = kind[x]
    BY <2>1
  <2>3. y \in Descendants(root)
    BY <1>2
  <2> QED
    BY <2>2, <2>3 DEF Tree
<1> QED
  BY <1>10, <1>11
-------------------------------------------------------------------------------
\* A child of a stored inode as read_inode finds it.
Found(e) == [name |-> e.name, ino |-> e.ino, file_type |-> e.file_type, inode |-> NULL]

\* What is below a record that is not loaded: the stored children of its number.
LEMMA StoredChildren ==
    ASSUME NEW U, NEW mi, NEW md, Stored(disk.cell, U, mi, md),
           NEW r, r.inode = NULL, r.ino \in U, Fits(r, disk.cell)
    PROVE  Children(r) = {Found(Kid(disk.cell, r.ino, k)) : k \in Kids(disk.cell, r.ino)}
<1> PICK n : n = ChildCount(r)
  OBVIOUS
<1> PICK x : x = r.ino
  OBVIOUS
<1> PICK C : C = disk.cell
  OBVIOUS
<1>1. Source(r, C, U, x, n)
  BY FetchSource
<1>2. /\ Readable(r) /\ n \in 0 .. Cells /\ Kids(C, x) = 0 .. n - 1
      /\ \A k \in 1 .. n : /\ k - 1 \in Kids(C, x)
                           /\ ReadDentry(r, k).ino = Kid(C, x, k - 1).ino
                           /\ ReadDentry(r, k).name = Kid(C, x, k - 1).name
                           /\ ReadDentry(r, k).file_type = Kid(C, x, k - 1).file_type
  BY <1>1 DEF Source
<1> PICK s : s = ChildrenOnDisk(r)
  OBVIOUS
<1>3. s = [k \in 1 .. n |-> ReadDentry(r, k)]
  BY DEF ChildrenOnDisk, ReadDentry
<1>4. Children(r) = ToSet(s)
  BY <1>2 DEF Children
<1>5. ASSUME NEW k \in 1 .. n PROVE s[k] = Found(Kid(C, x, k - 1))
  <2>1. s[k] = ReadDentry(r, k)
    BY <1>3
  <2>2. ReadDentry(r, k) = Found(ReadDentry(r, k))
    BY DEF ReadDentry, Found
  <2>3. Found(ReadDentry(r, k)) = Found(Kid(C, x, k - 1))
    BY <1>2 DEF Found
  <2> QED
    BY <2>1, <2>2, <2>3
<1>6. ASSUME NEW c \in ToSet(s) PROVE c \in {Found(Kid(C, x, k)) : k \in Kids(C, x)}
  <2>1. PICK k \in 1 .. n : c = s[k]
    BY <1>3 DEF ToSet
  <2> PICK j : j = k - 1
    OBVIOUS
  <2>2. j \in Kids(C, x)
    BY <1>2
  <2>3. c = Found(Kid(C, x, j))
    BY <1>5, <2>1
  <2> QED
    BY <2>2, <2>3
<1>7. ASSUME NEW k \in Kids(C, x) PROVE Found(Kid(C, x, k)) \in ToSet(s)
  <2> PICK j : j = k + 1
    OBVIOUS
  <2>1. j \in 1 .. n /\ j - 1 = k
    BY <1>2
  <2>2. s[j] = Found(Kid(C, x, k))
    BY <1>5, <2>1
  <2>3. DOMAIN s = 1 .. n
    BY <1>3
  <2> QED
    BY <2>1, <2>2, <2>3 DEF ToSet
<1> QED
  BY <1>4, <1>6, <1>7

(***************************************************************************)
(* Whatever memory and disk hold between them is what Tree finds, for the  *)
(* memory as it is and for the memory of a mount that has loaded nothing.  *)
(***************************************************************************)
LEMMA TreeFits ==
    ASSUME NEW D, NEW I, NEW U, NEW mi, NEW md, NEW at, NEW kind, NEW T,
           Stored(disk.cell, U, mi, md), Linked(D, I, disk.cell, U, mi, md),
           Named(at, kind, D, I, disk.cell, U, T),
           Root \in DOMAIN D, D[Root].ino = 0,
           \A d \in DOMAIN D : d # Root => D[d].name \in Name,
           \A i \in DOMAIN I : /\ I[i].dentry \in DOMAIN D /\ i # NULL
                               /\ ToSet(I[i].dentries) \subseteq DOMAIN D \ {Root},
           \A d \in DOMAIN D : D[d].inode # NULL =>
               D[d].inode \in DOMAIN I
               /\ Children(D[d]) = {D[c] : c \in ToSet(I[D[d].inode].dentries)}
    PROVE  Tree(D[Root]) = T
<1> PICK C : C = disk.cell
  OBVIOUS
<1> PICK N : N = Numbers(D, U)
  OBVIOUS
<1> DEFINE below == UNION {{Found(Kid(C, u, k)) : k \in Kids(C, u)} : u \in U}
           R == {D[d] : d \in DOMAIN D} \cup below
<1>1. /\ Typed(C, U, mi, md) /\ BlocksOnce(C, U) /\ KidsStored(C, U) /\ KidsOnce(C, U)
      /\ Placed(D, C, U, mi) /\ NumbersOnce(D) /\ NotBelow(D, C, U)
      /\ Paired(D, I, md) /\ OwnBlocks(I, C, U) /\ ListedOnce(I)
  BY DEF Stored, Linked
<1>2. /\ Labelled(at, kind, D, U) /\ BelowLoaded(at, D, I) /\ BelowStored(at, kind, C, U)
      /\ Covered(D, I, C, U) /\ T = {<<at[x], kind[x]>> : x \in N \ {0}}
  BY DEF Named
<1>3. /\ at \in [N -> Where] /\ at[0] = <<>> /\ 0 \in N
      /\ \A x, y \in N : at[x] = at[y] => x = y
      /\ \A d \in DOMAIN D : kind[D[d].ino] = D[d].file_type /\ D[d].ino \in N
  BY <1>2 DEF Labelled, Numbers
<1>4. ASSUME NEW u \in U, NEW k \in Kids(C, u), NEW e, e = Found(Kid(C, u, k))
      PROVE  /\ e.ino = Kid(C, u, k).ino /\ e.name = Kid(C, u, k).name
             /\ e.file_type = Kid(C, u, k).file_type /\ e.inode = NULL
             /\ e.ino \in U /\ Fits(e, C)
             /\ at[e.ino] = Append(at[u], e.name) /\ kind[e.ino] = e.file_type /\ e.name \in Name
  <2>1. /\ e.ino = Kid(C, u, k).ino /\ e.name = Kid(C, u, k).name
        /\ e.file_type = Kid(C, u, k).file_type /\ e.inode = NULL
    BY <1>4 DEF Found
  <2>2. Kid(C, u, k).ino \in U /\ Fits(Kid(C, u, k), C)
    BY <1>1 DEF KidsStored
  <2>3. /\ at[Kid(C, u, k).ino] = Append(at[u], Kid(C, u, k).name)
        /\ kind[Kid(C, u, k).ino] = Kid(C, u, k).file_type /\ Kid(C, u, k).name \in Name
    BY <1>2 DEF BelowStored
  <2> QED
    BY <2>1, <2>2, <2>3 DEF Fits
<1>5. ASSUME NEW r \in below
      PROVE  \E u \in U : \E k \in Kids(C, u) : r = Found(Kid(C, u, k))
  OBVIOUS
<1>6. ASSUME NEW u \in U, NEW k \in Kids(C, u) PROVE Found(Kid(C, u, k)) \in below
  OBVIOUS
<1> HIDE DEF below
<1>7. ASSUME NEW r \in R PROVE r.ino \in N /\ kind[r.ino] = r.file_type
  <2>1. CASE r \in below
    <3>1. PICK u \in U : \E k \in Kids(C, u) : r = Found(Kid(C, u, k))
      BY <1>5, <2>1
    <3>2. PICK k \in Kids(C, u) : r = Found(Kid(C, u, k))
      BY <3>1
    <3>3. r.ino \in U /\ kind[r.ino] = r.file_type
      BY <1>4, <3>2
    <3> QED
      BY <3>3 DEF Numbers
  <2>2. CASE r \in {D[d] : d \in DOMAIN D}
    BY <1>3, <2>2
  <2> QED
    BY <2>1, <2>2
<1>8. ASSUME NEW r \in R, r.inode = NULL
      PROVE  r.ino \in U /\ Fits(r, C)
  <2>1. CASE r \in below
    <3>1. PICK u \in U : \E k \in Kids(C, u) : r = Found(Kid(C, u, k))
      BY <1>5, <2>1
    <3>2. PICK k \in Kids(C, u) : r = Found(Kid(C, u, k))
      BY <3>1
    <3> QED
      BY <1>4, <3>2
  <2>2. CASE r \in {D[d] : d \in DOMAIN D}
    BY <1>1, <1>8, <2>2 DEF Placed
  <2> QED
    BY <2>1, <2>2
<1>9. ASSUME NEW r \in R, r.inode # NULL
      PROVE  \E d \in DOMAIN D : r = D[d]
  <2>1. r \notin below
    <3> SUFFICES ASSUME r \in below PROVE FALSE
      OBVIOUS
    <3>1. PICK u \in U : \E k \in Kids(C, u) : r = Found(Kid(C, u, k))
      BY <1>5
    <3>2. PICK k \in Kids(C, u) : r = Found(Kid(C, u, k))
      BY <3>1
    <3> QED
      BY <1>4, <1>9, <3>2
  <2> QED
    BY <2>1
<1>10. ASSUME NEW r \in R, NEW c \in Children(r)
       PROVE  c \in R /\ c.name \in Name /\ at[c.ino] = Append(at[r.ino], c.name)
  <2>1. CASE r.inode = NULL
    <3> PICK u : u = r.ino
      OBVIOUS
    <3>1. r.inode = NULL /\ r.ino = u /\ u \in U /\ Fits(r, C)
      BY <1>8, <2>1
    <3>2. Children(r) = {Found(Kid(C, u, k)) : k \in Kids(C, u)}
      <4> HIDE DEF R
      <4> QED
        BY <3>1, StoredChildren
    <3>3. PICK k \in Kids(C, u) : c = Found(Kid(C, u, k))
      BY <3>2
    <3> QED
      BY <1>4, <1>6, <3>1, <3>3
  <2>2. CASE r.inode # NULL
    <3>1. PICK d \in DOMAIN D : r = D[d]
      BY <1>9, <2>2
    <3> PICK i : i = D[d].inode
      OBVIOUS
    <3>2. i \in DOMAIN I /\ Children(r) = {D[e] : e \in ToSet(I[i].dentries)} /\ I[i].dentry = d
      BY <1>1, <2>2, <3>1 DEF Paired
    <3>3. PICK e \in ToSet(I[i].dentries) : c = D[e]
      BY <3>2
    <3>4. PICK k \in DOMAIN I[i].dentries : e = I[i].dentries[k]
      BY DEF ToSet
    <3>5. e \in DOMAIN D \ {Root}
      BY <3>2
    <3>6. I[i].ino = r.ino
      BY <1>1, <3>1, <3>2 DEF Paired
    <3>7. at[D[e].ino] = Append(at[I[i].ino], D[e].name)
      BY <1>2, <3>2, <3>4 DEF BelowLoaded
    <3> QED
      BY <3>3, <3>5, <3>6, <3>7
  <2> QED
    BY <2>1, <2>2
<1>11. ASSUME NEW r \in R, NEW s \in R, r.ino = s.ino PROVE r = s
  <2>1. ASSUME NEW x \in below, NEW d \in DOMAIN D PROVE x.ino # D[d].ino
    <3>1. PICK u \in U : \E k \in Kids(C, u) : x = Found(Kid(C, u, k))
      BY <1>5
    <3>2. PICK k \in Kids(C, u) : x = Found(Kid(C, u, k))
      BY <3>1
    <3> QED
      BY <1>1, <1>4, <3>2 DEF NotBelow
  <2>2. ASSUME NEW x \in below, NEW y \in below, x.ino = y.ino PROVE x = y
    <3>1. PICK u \in U : \E k \in Kids(C, u) : x = Found(Kid(C, u, k))
      BY <1>5
    <3>2. PICK k \in Kids(C, u) : x = Found(Kid(C, u, k))
      BY <3>1
    <3>3. PICK v \in U : \E l \in Kids(C, v) : y = Found(Kid(C, v, l))
      BY <1>5
    <3>4. PICK l \in Kids(C, v) : y = Found(Kid(C, v, l))
      BY <3>3
    <3>5. Kid(C, u, k).ino = Kid(C, v, l).ino
      BY <1>4, <2>2, <3>2, <3>4
    <3>6. u = v /\ k = l
      BY <1>1, <3>5 DEF KidsOnce
    <3> QED
      BY <3>2, <3>4, <3>6
  <2>3. CASE r \in below /\ s \in below
    BY <1>11, <2>2, <2>3
  <2>4. CASE r \notin below /\ s \notin below
    <3>1. PICK d \in DOMAIN D : r = D[d]
      BY <2>4
    <3>2. PICK e \in DOMAIN D : s = D[e]
      BY <2>4
    <3> QED
      BY <1>1, <1>11, <3>1, <3>2 DEF NumbersOnce
  <2>5. CASE r \in below /\ s \notin below
    <3>1. PICK e \in DOMAIN D : s = D[e]
      BY <2>5
    <3> QED
      BY <1>11, <2>1, <2>5, <3>1
  <2>6. CASE r \notin below /\ s \in below
    <3>1. PICK d \in DOMAIN D : r = D[d]
      BY <2>6
    <3> QED
      BY <1>11, <2>1, <2>6, <3>1
  <2> QED
    BY <2>3, <2>4, <2>5, <2>6
<1>12. ASSUME NEW x \in U PROVE \E r \in R : r.ino = x /\ r.inode = NULL
  <2>1. x \in N
    BY DEF Numbers
  <2>2. CASE x = 0
    <3>1. D[Root].inode = NULL
      BY <1>1, <2>2 DEF Placed
    <3> QED
      BY <2>2, <3>1
  <2>3. CASE x # 0
    <3>1. CASE \E i \in DOMAIN I : \E k \in DOMAIN I[i].dentries : D[I[i].dentries[k]].ino = x
      <4>1. PICK i \in DOMAIN I : \E k \in DOMAIN I[i].dentries : D[I[i].dentries[k]].ino = x
        BY <3>1
      <4>2. PICK k \in DOMAIN I[i].dentries : D[I[i].dentries[k]].ino = x
        BY <4>1
      <4> PICK e : e = I[i].dentries[k]
        OBVIOUS
      <4>3. e \in DOMAIN D
        BY DEF ToSet
      <4>4. D[e].inode = NULL
        BY <1>1, <4>2, <4>3 DEF Placed
      <4> QED
        BY <4>2, <4>3, <4>4
    <3>2. CASE \E u \in U : \E k \in Kids(C, u) : Kid(C, u, k).ino = x
      <4>1. PICK u \in U : \E k \in Kids(C, u) : Kid(C, u, k).ino = x
        BY <3>2
      <4>2. PICK k \in Kids(C, u) : Kid(C, u, k).ino = x
        BY <4>1
      <4> PICK e : e = Found(Kid(C, u, k))
        OBVIOUS
      <4>3. e \in R /\ e.ino = x /\ e.inode = NULL
        BY <1>4, <1>6, <4>2
      <4> QED
        BY <4>3
    <3> QED
      BY <1>2, <2>1, <2>3, <3>1, <3>2 DEF Covered
  <2> QED
    BY <2>2, <2>3
<1>13. ASSUME NEW x \in N \ {0} PROVE \E r \in R : \E c \in Children(r) : c.ino = x
  <2>1. CASE \E i \in DOMAIN I : \E k \in DOMAIN I[i].dentries : D[I[i].dentries[k]].ino = x
    <3>1. PICK i \in DOMAIN I : \E k \in DOMAIN I[i].dentries : D[I[i].dentries[k]].ino = x
      BY <2>1
    <3>2. PICK k \in DOMAIN I[i].dentries : D[I[i].dentries[k]].ino = x
      BY <3>1
    <3> PICK d : d = I[i].dentry
      OBVIOUS
    <3> PICK e : e = I[i].dentries[k]
      OBVIOUS
    <3>3. d \in DOMAIN D /\ D[d].inode = i /\ D[d].inode # NULL
      BY <1>1 DEF Paired
    <3>4. e \in ToSet(I[i].dentries)
      BY DEF ToSet
    <3>5. D[e] \in Children(D[d])
      BY <3>3, <3>4
    <3> QED
      BY <3>2, <3>3, <3>5
  <2>2. CASE \E u \in U : \E k \in Kids(C, u) : Kid(C, u, k).ino = x
    <3>1. PICK u \in U : \E k \in Kids(C, u) : Kid(C, u, k).ino = x
      BY <2>2
    <3>2. PICK k \in Kids(C, u) : Kid(C, u, k).ino = x
      BY <3>1
    <3>3. PICK r \in R : r.ino = u /\ r.inode = NULL
      BY <1>12
    <3>4. Fits(r, C)
      BY <1>8, <3>3
    <3>5. Children(r) = {Found(Kid(C, u, l)) : l \in Kids(C, u)}
      BY <3>3, <3>4, StoredChildren
    <3> PICK e : e = Found(Kid(C, u, k))
      OBVIOUS
    <3>6. e \in Children(r) /\ e.ino = x
      BY <1>4, <3>2, <3>5
    <3> QED
      BY <3>6
  <2> QED
    BY <1>2, <2>1, <2>2 DEF Covered
<1> PICK root : root = D[Root]
  OBVIOUS
<1>14. root \in R /\ root.ino = 0
  OBVIOUS
<1> HIDE DEF R
<1>15. Placement(R, N, at, kind, root)
  BY <1>3, <1>7, <1>10, <1>11, <1>13, <1>14 DEF Placement
<1>16. Tree(root) = {<<at[x], kind[x]>> : x \in N \ {root.ino}}
  BY <1>15, TreeOf
<1> QED
  BY <1>2, <1>14, <1>16
-------------------------------------------------------------------------------
\* The numbers in use are marked.
LEMMA NumbersMarked ==
    ASSUME NEW D, NEW C, NEW U, NEW mi, NEW md, Typed(C, U, mi, md), Placed(D, C, U, mi)
    PROVE  Numbers(D, U) \subseteq Ino \cap mi
  BY DEF Numbers, Typed, Placed

\* What read_inode has added to the memory.
Added(D, I, N, n, new, d, x) ==
    /\ DOMAIN D = 1 .. N + n /\ DOMAIN I = 1 .. new
    /\ \A e \in 1 .. N : /\ D[e].ino = dentry[e].ino /\ D[e].name = dentry[e].name
                         /\ D[e].file_type = dentry[e].file_type
    /\ \A k \in 1 .. n : /\ D[N + k].ino = Kid(disk.cell, x, k - 1).ino
                         /\ D[N + k].name = Kid(disk.cell, x, k - 1).name
                         /\ D[N + k].file_type = Kid(disk.cell, x, k - 1).file_type
    /\ \A e \in DOMAIN D : e \in 1 .. N \/ \E k \in 1 .. n : e = N + k
    /\ \A i \in DOMAIN inode : I[i] = inode[i]
    /\ \A i \in DOMAIN I : i \in DOMAIN inode \/ i = new
    /\ I[new].ino = x /\ I[new].dentry = d /\ DOMAIN I[new].dentries = 1 .. n
    /\ \A k \in 1 .. n : I[new].dentries[k] = N + n + 1 - k

\* It has: the old dentries and inodes, the ones read behind them.
LEMMA FetchAdds ==
    ASSUME TypeOK, NEW U, NEW mi, NEW md, Typed(disk.cell, U, mi, md),
           NEW d \in DOMAIN dentry, NEW x, NEW n, Source(dentry[d], disk.cell, U, x, n),
           NEW new, new = Len(inode) + 1, NEW N, N = Len(dentry),
           NEW m, ReadWell(m, d, n, new, N)
    PROVE  Added(m.dentry, m.inode, N, n, new, d, x)
<1> PICK C : C = disk.cell
  OBVIOUS
<1> PICK D : D = m.dentry
  OBVIOUS
<1> PICK I : I = m.inode
  OBVIOUS
<1>1. /\ dentry[d].ino = x /\ x \in U /\ n \in 0 .. Cells
      /\ \A k \in 1 .. n : /\ k - 1 \in Kids(C, x)
                           /\ ReadDentry(dentry[d], k).ino = Kid(C, x, k - 1).ino
                           /\ ReadDentry(dentry[d], k).name = Kid(C, x, k - 1).name
                           /\ ReadDentry(dentry[d], k).file_type = Kid(C, x, k - 1).file_type
      /\ OnDisk(dentry[d]) = C[INO_OFS(x)]
  BY DEF Source
<1>2. N \in Nat /\ DOMAIN dentry = 1 .. N /\ new \in Nat \ {0} /\ DOMAIN inode = 1 .. new - 1
  BY Domains
<1>3. DOMAIN D = 1 .. N + n /\ DOMAIN I = 1 .. new
  <2>1. D \in Seq(Dentry) /\ Len(D) = N + n /\ I \in Seq(Inode) /\ Len(I) = new
    BY DEF ReadWell
  <2> QED
    BY <2>1, LenProperties
<1>4. ASSUME NEW e \in 1 .. N
      PROVE  /\ D[e].ino = dentry[e].ino /\ D[e].name = dentry[e].name
             /\ D[e].file_type = dentry[e].file_type
  <2>1. CASE e = d
    <3>1. D[d] = [dentry[d] EXCEPT !.inode = new] /\ dentry[d] \in Dentry
      BY DentryFields DEF ReadWell
    <3> QED
      BY <2>1, <3>1 DEF Dentry
  <2>2. CASE e # d
    BY <1>2, <2>2 DEF ReadWell
  <2> QED
    BY <2>1, <2>2
<1>5. ASSUME NEW k \in 1 .. n
      PROVE  /\ D[N + k].ino = Kid(C, x, k - 1).ino /\ D[N + k].name = Kid(C, x, k - 1).name
             /\ D[N + k].file_type = Kid(C, x, k - 1).file_type
  <2>1. D[N + k] = ReadDentry(dentry[d], k)
    BY DEF ReadWell
  <2> QED
    BY <1>1, <2>1
<1>6. ASSUME NEW e \in DOMAIN D PROVE e \in 1 .. N \/ \E k \in 1 .. n : e = N + k
  <2> SUFFICES ASSUME e \notin 1 .. N PROVE \E k \in 1 .. n : e = N + k
    OBVIOUS
  <2>1. e - N \in 1 .. n /\ e = N + (e - N)
    BY <1>1, <1>2, <1>3
  <2> QED
    BY <2>1
<1>7. \A i \in DOMAIN I : i \in DOMAIN inode \/ i = new
  BY <1>2, <1>3
<1>8. /\ \A i \in DOMAIN inode : I[i] = inode[i]
      /\ I[new].dentry = d /\ DOMAIN I[new].dentries = 1 .. n
      /\ \A k \in 1 .. n : I[new].dentries[k] = N + n + 1 - k
  BY DEF ReadWell
<1>9. I[new].ino = x
  BY <1>1 DEF ReadWell, Typed
<1> QED
  BY <1>3, <1>4, <1>5, <1>6, <1>7, <1>8, <1>9 DEF Added

(***************************************************************************)
(* Loading moves names from the disk to the memory: every number keeps its *)
(* place, and a listing under way what it has to return.                   *)
(***************************************************************************)
LEMMA FetchNamed ==
    ASSUME TypeOK, NEW U, NEW mi, NEW md, Stored(disk.cell, U, mi, md),
           Linked(dentry, inode, disk.cell, U, mi, md),
           NEW at, NEW kind, NEW T, Named(at, kind, dentry, inode, disk.cell, U, T),
           NEW l, Underway(at, dentry, inode, l),
           NEW d \in DOMAIN dentry, dentry[d].inode = NULL,
           NEW x, NEW n, Source(dentry[d], disk.cell, U, x, n),
           NEW new, new = Len(inode) + 1, NEW N, N = Len(dentry),
           NEW m, ReadWell(m, d, n, new, N)
    PROVE  /\ Named(at, kind, m.dentry, m.inode, disk.cell, U \ {x}, T)
           /\ Underway(at, m.dentry, m.inode, l)
<1>p. PICK C : C = disk.cell
  OBVIOUS
<1>q. PICK D : D = m.dentry
  OBVIOUS
<1>r. PICK I : I = m.inode
  OBVIOUS
<1>s. PICK V : V = U \ {x}
  OBVIOUS
<1>1. /\ Typed(C, U, mi, md) /\ KidsStored(C, U) /\ Placed(dentry, C, U, mi)
      /\ Paired(dentry, inode, md)
  BY <1>p, <1>q, <1>r, <1>s DEF Stored, Linked
<1>2. /\ Labelled(at, kind, dentry, U) /\ BelowLoaded(at, dentry, inode)
      /\ BelowStored(at, kind, C, U) /\ Covered(dentry, inode, C, U)
      /\ T = {<<at[y], kind[y]>> : y \in Numbers(dentry, U) \ {0}}
  BY <1>p, <1>q, <1>r, <1>s DEF Named
<1>3. /\ dentry[d].ino = x /\ x \in U /\ n \in 0 .. Cells /\ Kids(C, x) = 0 .. n - 1
  BY <1>p, <1>q, <1>r, <1>s DEF Source
<1>4. Added(D, I, N, n, new, d, x)
  BY <1>p, <1>q, <1>r, <1>s, <1>1, FetchAdds
<1>5. N \in Nat /\ DOMAIN dentry = 1 .. N /\ new \in Nat \ {0} /\ DOMAIN inode = 1 .. new - 1
  BY Domains
<1>6. /\ DOMAIN D = 1 .. N + n /\ DOMAIN I = 1 .. new
      /\ \A e \in 1 .. N : /\ D[e].ino = dentry[e].ino /\ D[e].name = dentry[e].name
                           /\ D[e].file_type = dentry[e].file_type
      /\ \A k \in 1 .. n : /\ D[N + k].ino = Kid(C, x, k - 1).ino
                           /\ D[N + k].name = Kid(C, x, k - 1).name
                           /\ D[N + k].file_type = Kid(C, x, k - 1).file_type
      /\ \A e \in DOMAIN D : e \in 1 .. N \/ \E k \in 1 .. n : e = N + k
      /\ \A i \in DOMAIN inode : I[i] = inode[i]
      /\ \A i \in DOMAIN I : i \in DOMAIN inode \/ i = new
      /\ I[new].ino = x /\ I[new].dentry = d /\ DOMAIN I[new].dentries = 1 .. n
      /\ \A k \in 1 .. n : I[new].dentries[k] = N + n + 1 - k
  BY <1>p, <1>q, <1>r, <1>s, <1>4 DEF Added
<1>7. 1 .. N \subseteq DOMAIN D /\ DOMAIN inode \subseteq DOMAIN I /\ new \in DOMAIN I
  BY <1>3, <1>5, <1>6
<1>8. \A k \in 1 .. n : k - 1 \in Kids(C, x)
  BY <1>3
<1>9. Numbers(D, V) = Numbers(dentry, U)
  <2>1. ASSUME NEW e \in DOMAIN D PROVE D[e].ino \in Numbers(dentry, U)
    <3>1. CASE e \in 1 .. N
      BY <1>5, <1>6, <3>1 DEF Numbers
    <3>2. CASE \E k \in 1 .. n : e = N + k
      <4>1. PICK k \in 1 .. n : e = N + k
        BY <3>2
      <4>p. PICK j : j = k - 1
        OBVIOUS
      <4>2. j \in Kids(C, x) /\ D[e].ino = Kid(C, x, j).ino
        BY <1>p, <1>q, <1>r, <1>s, <4>p, <1>6, <1>8, <4>1
      <4>3. D[e].ino \in U
        BY <1>1, <1>3, <4>2 DEF KidsStored
      <4> QED
        BY <4>3 DEF Numbers
    <3> QED
      BY <1>6, <3>1, <3>2
  <2>2. ASSUME NEW e \in DOMAIN dentry PROVE dentry[e].ino \in Numbers(D, V)
    <3>1. e \in DOMAIN D /\ D[e].ino = dentry[e].ino
      BY <1>5, <1>6, <1>7
    <3> QED
      BY <3>1 DEF Numbers
  <2>3. U \subseteq Numbers(D, V)
    <3>1. x \in Numbers(D, V)
      BY <1>3, <2>2
    <3> QED
      BY <1>p, <1>q, <1>r, <1>s, <3>1 DEF Numbers
  <2>4. Numbers(D, V) \subseteq Numbers(dentry, U)
    BY <1>p, <1>q, <1>r, <1>s, <2>1 DEF Numbers
  <2>5. Numbers(dentry, U) \subseteq Numbers(D, V)
    BY <2>2, <2>3 DEF Numbers
  <2> QED
    BY <2>4, <2>5
<1>10. \A k \in 1 .. n : LET e == Kid(C, x, k - 1)
                        IN  at[e.ino] = Append(at[x], e.name) /\ kind[e.ino] = e.file_type
  <2> SUFFICES ASSUME NEW k \in 1 .. n
               PROVE  LET e == Kid(C, x, k - 1)
                      IN  at[e.ino] = Append(at[x], e.name) /\ kind[e.ino] = e.file_type
    OBVIOUS
  <2>p. PICK j : j = k - 1
    OBVIOUS
  <2>1. j \in Kids(C, x)
    BY <1>p, <1>q, <1>r, <1>s, <2>p, <1>8
  <2> QED
    BY <1>2, <1>3, <2>1 DEF BelowStored
<1>11. Labelled(at, kind, D, V)
  <2>1. ASSUME NEW e \in DOMAIN D PROVE kind[D[e].ino] = D[e].file_type
    <3>1. CASE e \in 1 .. N
      BY <1>2, <1>5, <1>6, <3>1 DEF Labelled
    <3>2. CASE \E k \in 1 .. n : e = N + k
      BY <1>6, <1>10, <3>2
    <3> QED
      BY <1>6, <3>1, <3>2
  <2> QED
    BY <1>2, <1>9, <2>1 DEF Labelled
<1>12. BelowLoaded(at, D, I)
  <2> SUFFICES ASSUME NEW i \in DOMAIN I, NEW k \in DOMAIN I[i].dentries
               PROVE  /\ D[I[i].dentry].file_type = "NFS_DIR"
                      /\ at[D[I[i].dentries[k]].ino] = Append(at[I[i].ino], D[I[i].dentries[k]].name)
    BY DEF BelowLoaded
  <2>1. CASE i \in DOMAIN inode
    <3>1. I[i] = inode[i] /\ inode[i].dentry \in 1 .. N
      BY <1>5, <1>6, <2>1, InodeFields
    <3>p. PICK e : e = inode[i].dentries[k]
      OBVIOUS
    <3>2. e \in 1 .. N
      <4>1. inode[i].dentries \in Seq(DOMAIN dentry \ {Root}) /\ k \in DOMAIN inode[i].dentries
        BY <2>1, <3>1, InodeFields
      <4> QED
        BY <1>p, <1>q, <1>r, <1>s, <3>p, <1>5, <4>1, LenProperties, ElementOfSeq
    <3>3. /\ dentry[inode[i].dentry].file_type = "NFS_DIR"
          /\ at[dentry[e].ino] = Append(at[inode[i].ino], dentry[e].name)
      BY <1>p, <1>q, <1>r, <1>s, <3>p, <1>2, <2>1, <3>1 DEF BelowLoaded
    <3>4. D[inode[i].dentry].file_type = "NFS_DIR"
      BY <1>6, <3>1, <3>3
    <3>5. D[e].ino = dentry[e].ino /\ D[e].name = dentry[e].name
      BY <1>6, <3>2
    <3>6. I[i].dentries[k] = e /\ I[i].dentry = inode[i].dentry /\ I[i].ino = inode[i].ino
      BY <1>p, <1>q, <1>r, <1>s, <3>p, <3>1
    <3> QED
      BY <3>3, <3>4, <3>5, <3>6
  <2>2. CASE i = new
    <3>q. PICK j : j = n + 1 - k
      OBVIOUS
    <3>1. k \in 1 .. n /\ j \in 1 .. n /\ I[i].dentries[k] = N + j
      <4>1. k \in 1 .. n
        BY <1>6, <2>2
      <4>2. I[i].dentries[k] = N + n + 1 - k
        BY <1>6, <2>2, <4>1
      <4> QED
        BY <1>p, <1>q, <1>r, <1>s, <3>q, <1>3, <1>5, <4>1, <4>2
    <3>2. at[D[N + j].ino] = Append(at[x], D[N + j].name)
      <4>q. PICK e : e = Kid(C, x, j - 1)
        OBVIOUS
      <4>1. D[N + j].ino = e.ino /\ D[N + j].name = e.name
        BY <1>p, <1>q, <1>r, <1>s, <3>q, <4>q, <1>6, <3>1
      <4>2. at[e.ino] = Append(at[x], e.name)
        BY <1>p, <1>q, <1>r, <1>s, <3>q, <4>q, <1>10, <3>1
      <4> QED
        BY <4>1, <4>2
    <3>3. dentry[d].file_type = "NFS_DIR"
      <4>1. Fits(dentry[d], C)
        BY <1>1 DEF Placed
      <4>2. Kids(C, x) # {}
        BY <1>8, <3>1
      <4> QED
        BY <1>3, <4>1, <4>2 DEF Fits, Kids
    <3>4. D[d].file_type = "NFS_DIR"
      BY <1>5, <1>6, <3>3
    <3> QED
      BY <1>6, <2>2, <3>1, <3>2, <3>4
  <2> QED
    BY <1>6, <2>1, <2>2
<1>13. BelowStored(at, kind, C, V)
  BY <1>p, <1>q, <1>r, <1>s, <1>2 DEF BelowStored
<1>14. Covered(D, I, C, V)
  <2> SUFFICES ASSUME NEW y \in Numbers(dentry, U) \ {0}
               PROVE  \/ \E i \in DOMAIN I : \E k \in DOMAIN I[i].dentries : D[I[i].dentries[k]].ino = y
                      \/ \E u \in V : \E k \in Kids(C, u) : Kid(C, u, k).ino = y
    BY <1>9 DEF Covered
  <2>1. CASE \E i \in DOMAIN inode : \E k \in DOMAIN inode[i].dentries :
                 dentry[inode[i].dentries[k]].ino = y
    <3>1. PICK i \in DOMAIN inode : \E k \in DOMAIN inode[i].dentries :
                 dentry[inode[i].dentries[k]].ino = y
      BY <2>1
    <3>2. PICK k \in DOMAIN inode[i].dentries : dentry[inode[i].dentries[k]].ino = y
      BY <3>1
    <3>r. PICK e : e = inode[i].dentries[k]
      OBVIOUS
    <3>3. e \in 1 .. N
      <4>1. inode[i].dentries \in Seq(DOMAIN dentry \ {Root})
        BY InodeFields
      <4> QED
        BY <1>p, <1>q, <1>r, <1>s, <3>r, <1>5, <4>1, LenProperties, ElementOfSeq
    <3>4. i \in DOMAIN I /\ I[i] = inode[i] /\ D[e].ino = y
      BY <1>p, <1>q, <1>r, <1>s, <3>r, <1>6, <1>7, <3>2, <3>3
    <3> QED
      BY <1>p, <1>q, <1>r, <1>s, <3>r, <3>4
  <2>2. CASE \E u \in U : \E k \in Kids(C, u) : Kid(C, u, k).ino = y
    <3>1. PICK u \in U : \E k \in Kids(C, u) : Kid(C, u, k).ino = y
      BY <2>2
    <3>2. PICK k \in Kids(C, u) : Kid(C, u, k).ino = y
      BY <3>1
    <3>3. CASE u # x
      BY <1>p, <1>q, <1>r, <1>s, <3>2, <3>3
    <3>4. CASE u = x
      <4>r. PICK j : j = k + 1
        OBVIOUS
      <4>s. PICK q : q = n + 1 - j
        OBVIOUS
      <4>1. k \in 0 .. n - 1 /\ j \in 1 .. n /\ q \in 1 .. n /\ N + n + 1 - q = N + j /\ j - 1 = k
        <5>1. k \in 0 .. n - 1 /\ n \in Nat
          BY <1>3, <3>4
        <5> QED
          BY <1>p, <1>q, <1>r, <1>s, <4>r, <4>s, <1>5, <5>1
      <4>2. I[new].dentries[q] = N + j /\ D[N + j].ino = Kid(C, x, k).ino
        <5>1. I[new].dentries[q] = N + n + 1 - q /\ D[N + j].ino = Kid(C, x, j - 1).ino
          BY <1>6, <4>1
        <5> QED
          BY <4>1, <5>1
      <4>3. q \in DOMAIN I[new].dentries /\ D[I[new].dentries[q]].ino = y
        BY <1>6, <3>2, <3>4, <4>1, <4>2
      <4> QED
        BY <1>7, <4>3
    <3> QED
      BY <3>3, <3>4
  <2> QED
    BY <1>2, <2>1, <2>2 DEF Covered
<1>15. Underway(at, D, I, l)
  <2> SUFFICES ASSUME l.on
               PROVE  \E i \in DOMAIN I : /\ at[I[i].ino] = l.path
                                          /\ \A w \in l.had : w \in l.seen \/ ToCome(D, I[i], l, w)
    BY DEF Underway
  <2>1. PICK i \in DOMAIN inode : /\ at[inode[i].ino] = l.path
                                  /\ \A w \in l.had : w \in l.seen \/ ToCome(dentry, inode[i], l, w)
    BY DEF Underway
  <2>2. i \in DOMAIN I /\ I[i] = inode[i]
    BY <1>6, <1>7
  <2>3. ASSUME NEW w, ToCome(dentry, inode[i], l, w) PROVE ToCome(D, I[i], l, w)
    <3>1. PICK k \in DOMAIN inode[i].dentries :
             k > l.offset /\ dentry[inode[i].dentries[k]].name = w
      BY <2>3 DEF ToCome
    <3>s. PICK e : e = inode[i].dentries[k]
      OBVIOUS
    <3>2. e \in 1 .. N
      <4>1. inode[i].dentries \in Seq(DOMAIN dentry \ {Root})
        BY InodeFields
      <4> QED
        BY <1>p, <1>q, <1>r, <1>s, <3>s, <1>5, <4>1, LenProperties, ElementOfSeq
    <3>3. D[e].name = w
      BY <1>p, <1>q, <1>r, <1>s, <3>s, <1>6, <3>1, <3>2
    <3> QED
      BY <1>p, <1>q, <1>r, <1>s, <3>s, <2>2, <3>1, <3>3 DEF ToCome
  <2> QED
    BY <2>1, <2>2, <2>3
<1> QED
  BY <1>p, <1>q, <1>r, <1>s, <1>2, <1>9, <1>11, <1>12, <1>13, <1>14, <1>15 DEF Named

\* Places and types in which the numbers make up the tree T, the listing l on its way.
SomeNamed(D, I, C, U, T, l) ==
    \E at, kind : Named(at, kind, D, I, C, U, T) /\ Underway(at, D, I, l)

(***************************************************************************)
(* A new dentry called name in a directory that has none of that name: its *)
(* number gets the path asked for, and the tree has one more member.       *)
(***************************************************************************)
LEMMA MakeNamed ==
    ASSUME NEW m \in MemoryRecord, NEW c \in Nat, MemoryType(m.dentry, m.inode, c), c < MaxMade,
           NEW C, NEW U, NEW mi, NEW md, Stored(C, U, mi, md),
           Linked(m.dentry, m.inode, C, U, mi, md),
           NEW at, NEW kind, NEW T, Named(at, kind, m.dentry, m.inode, C, U, T),
           NEW l, l.offset \in Nat, Underway(at, m.dentry, m.inode, l),
           NEW p \in DOMAIN m.inode, m.dentry[m.inode[p].dentry].file_type = "NFS_DIR",
           NEW name \in Name, NEW ft \in FileType, NEW path \in Path,
           path = Append(at[m.inode[p].ino], name),
           \A x \in Numbers(m.dentry, U) : at[x] # path,
           NEW a, a.ino \in Ino, a.ino \notin mi,
           NEW d, d = Len(m.dentry) + 1, NEW new, new = Len(m.inode) + 1,
           NEW m2, MadeWell(m, m2, p, name, ft, a, d, new)
    PROVE  SomeNamed(m2.dentry, m2.inode, C, U, T \cup {<<path, ft>>}, l)
<1>p. PICK D : D = m.dentry
  OBVIOUS
<1>q. PICK I : I = m.inode
  OBVIOUS
<1>r. PICK E : E = m2.dentry
  OBVIOUS
<1>s. PICK J : J = m2.inode
  OBVIOUS
<1>t. PICK N : N = Numbers(D, U)
  OBVIOUS
<1>1. Typed(C, U, mi, md) /\ Placed(D, C, U, mi) /\ Paired(D, I, md) /\ KidsStored(C, U)
  BY <1>p, <1>q, <1>r, <1>s, <1>t DEF Stored, Linked
<1>2. /\ Labelled(at, kind, D, U) /\ BelowLoaded(at, D, I) /\ BelowStored(at, kind, C, U)
      /\ Covered(D, I, C, U) /\ T = {<<at[x], kind[x]>> : x \in N \ {0}}
  BY <1>p, <1>q, <1>r, <1>s, <1>t DEF Named
<1>3. /\ d \in Nat \ {0} /\ DOMAIN D = 1 .. d - 1 /\ new \in Nat \ {0} /\ DOMAIN I = 1 .. new - 1
      /\ D \in Seq(Dentry) /\ I \in Seq(Inode)
  BY <1>p, <1>q, <1>r, <1>s, <1>t, LenProperties DEF MemoryType
<1>4. a.ino # None
  BY DEF Ino, None
<1>5. /\ E \in Seq(Dentry) /\ Len(E) = d /\ J \in Seq(Inode) /\ Len(J) = new
      /\ \A e \in DOMAIN D : E[e] = D[e]
      /\ E[d] = [name |-> name, ino |-> a.ino, file_type |-> ft, inode |-> new]
      /\ \A i \in DOMAIN I \ {p} : J[i] = I[i]
      /\ J[p] = [I[p] EXCEPT !.dentries = <<d>> \o @, !.dir_dentry_cnt = @ + 1]
      /\ J[new] = [ino |-> a.ino, dentry |-> d, dir_dentry_cnt |-> 0,
                   dentries |-> <<>>, data_block_no |-> a.block]
  BY <1>p, <1>q, <1>r, <1>s, <1>t, <1>4 DEF MadeWell
<1>6. DOMAIN E = 1 .. d /\ DOMAIN J = 1 .. new
  BY <1>5, LenProperties
<1>7. /\ \A e \in DOMAIN E : e \in DOMAIN D \/ e = d
      /\ \A i \in DOMAIN J : i \in DOMAIN I \/ i = new
      /\ DOMAIN D \subseteq DOMAIN E /\ DOMAIN I \subseteq DOMAIN J
      /\ d \in DOMAIN E /\ d \notin DOMAIN D /\ new \notin DOMAIN I
  BY ONLY <1>3, <1>6
<1>8. E[d].ino = a.ino /\ E[d].file_type = ft /\ E[d].name = name /\ DOMAIN J[new].dentries = {}
  BY <1>5
<1>9. I[p] \in Inode /\ I[p].dir_dentry_cnt < MaxMade
  <2>1. I[p] \in Inode
    BY <1>3, LenProperties, ElementOfSeq
  <2>2. I[p].dir_dentry_cnt <= c /\ I[p].dir_dentry_cnt \in 0 .. MaxMade
    BY <1>p, <1>q, <1>r, <1>s, <1>t, <2>1 DEF MemoryType, Inode
  <2> QED
    BY <2>1, <2>2
<1>10. Grown(I[p], d, J[p])
  BY ONLY <1>3, <1>5, <1>9, GrownInode
<1>11. /\ J[p].ino = I[p].ino /\ J[p].dentry = I[p].dentry
       /\ DOMAIN J[p].dentries = 1 .. Len(I[p].dentries) + 1
       /\ J[p].dentries[1] = d
       /\ \A k \in DOMAIN I[p].dentries : J[p].dentries[1 + k] = I[p].dentries[k]
       /\ Len(I[p].dentries) \in Nat /\ DOMAIN I[p].dentries = 1 .. Len(I[p].dentries)
  <2>1. I[p].dentries \in Seq(Nat \ {0})
    BY ONLY <1>9 DEF Inode
  <2> QED
    BY <1>10, <2>1, LenProperties DEF Grown
<1>12. \A i \in DOMAIN I : J[i].ino = I[i].ino /\ J[i].dentry = I[i].dentry
  BY <1>5, <1>11
<1>13. ASSUME NEW i \in DOMAIN I
       PROVE  /\ I[i].dentry \in DOMAIN D /\ I[i].ino \in N
              /\ \A k \in DOMAIN I[i].dentries : I[i].dentries[k] \in DOMAIN D
  <2>1. I[i].dentry \in DOMAIN D /\ ToSet(I[i].dentries) \subseteq DOMAIN D \ {Root}
    BY <1>p, <1>q, <1>r, <1>s, <1>t DEF MemoryType
  <2>2. I[i].ino = D[I[i].dentry].ino
    BY <1>1 DEF Paired
  <2> QED
    BY <1>p, <1>q, <1>r, <1>s, <1>t, <2>1, <2>2 DEF Numbers, ToSet
<1>14. a.ino \notin N
  BY <1>p, <1>q, <1>r, <1>s, <1>t, <1>1, NumbersMarked
<1>u. PICK N2 : N2 = N \cup {a.ino}
  OBVIOUS
<1>15. Numbers(E, U) = N2
  <2>1. \A e \in DOMAIN D : E[e].ino = D[e].ino
    BY <1>5
  <2>2. {E[e].ino : e \in DOMAIN E} = {D[e].ino : e \in DOMAIN D} \cup {a.ino}
    BY ONLY <1>7, <1>8, <2>1
  <2> QED
    BY <1>p, <1>q, <1>r, <1>s, <1>t, <1>u, <2>2 DEF Numbers
<1>v. PICK at2 : at2 = [x \in N2 |-> IF x = a.ino THEN path ELSE at[x]]
  OBVIOUS
<1>w. PICK kind2 : kind2 = [x \in N2 |-> IF x = a.ino THEN ft ELSE kind[x]]
  OBVIOUS
<1>16. at2[a.ino] = path /\ kind2[a.ino] = ft /\ \A x \in N : at2[x] = at[x] /\ kind2[x] = kind[x]
  BY ONLY <1>p, <1>q, <1>r, <1>s, <1>t, <1>u, <1>v, <1>w, <1>14
<1>17. /\ at \in [N -> Where] /\ kind \in [N -> FileType] /\ 0 \in N
       /\ at[0] = <<>> /\ kind[0] = "NFS_DIR"
       /\ \A x, y \in N : at[x] = at[y] => x = y
       /\ \A e \in DOMAIN D : kind[D[e].ino] = D[e].file_type /\ D[e].ino \in N
  BY ONLY <1>p, <1>q, <1>r, <1>s, <1>t, <1>u, <1>v, <1>w, <1>2 DEF Labelled, Numbers
<1>18. Labelled(at2, kind2, E, U)
  <2>1. at2 \in [N2 -> Where] /\ kind2 \in [N2 -> FileType]
    BY <1>p, <1>q, <1>r, <1>s, <1>t, <1>u, <1>v, <1>w, <1>17 DEF Where
  <2>2. ASSUME NEW x \in N2, NEW y \in N2, at2[x] = at2[y] PROVE x = y
    <3>1. CASE x = a.ino /\ y # a.ino
      BY <1>p, <1>q, <1>r, <1>s, <1>t, <1>u, <1>v, <1>w, <1>16, <2>2, <3>1
    <3>2. CASE x # a.ino /\ y = a.ino
      BY <1>p, <1>q, <1>r, <1>s, <1>t, <1>u, <1>v, <1>w, <1>16, <2>2, <3>2
    <3>3. CASE x # a.ino /\ y # a.ino
      BY ONLY <1>p, <1>q, <1>r, <1>s, <1>t, <1>u, <1>v, <1>w, <1>16, <1>17, <2>2, <3>3
    <3> QED
      BY ONLY <3>1, <3>2, <3>3
  <2>3. ASSUME NEW e \in DOMAIN E PROVE kind2[E[e].ino] = E[e].file_type
    <3>1. CASE e = d
      BY <1>8, <1>16, <3>1
    <3>2. CASE e \in DOMAIN D
      <4>1. E[e] = D[e]
        BY <1>5, <3>2
      <4>2. kind[D[e].ino] = D[e].file_type /\ D[e].ino \in N
        BY ONLY <1>17, <3>2
      <4>3. kind2[D[e].ino] = kind[D[e].ino]
        BY ONLY <1>16, <4>2
      <4> QED
        BY ONLY <4>1, <4>2, <4>3
    <3> QED
      BY ONLY <1>7, <3>1, <3>2
  <2>4. 0 \in N2 /\ at2[0] = <<>> /\ kind2[0] = "NFS_DIR"
    BY ONLY <1>p, <1>q, <1>r, <1>s, <1>t, <1>u, <1>v, <1>w, <1>16, <1>17
  <2> QED
    BY ONLY <1>15, <2>1, <2>2, <2>3, <2>4 DEF Labelled
<1>19. BelowLoaded(at2, E, J)
  <2> SUFFICES ASSUME NEW i \in DOMAIN J, NEW k \in DOMAIN J[i].dentries
               PROVE  /\ E[J[i].dentry].file_type = "NFS_DIR"
                      /\ at2[E[J[i].dentries[k]].ino] = Append(at2[J[i].ino], E[J[i].dentries[k]].name)
    BY DEF BelowLoaded
  <2>1. i \in DOMAIN I
    BY ONLY <1>7, <1>8
  <2>2. J[i].ino = I[i].ino /\ J[i].dentry = I[i].dentry /\ at2[I[i].ino] = at[I[i].ino]
    BY ONLY <1>12, <1>13, <1>16, <2>1
  <2>3. ASSUME NEW q \in DOMAIN I[i].dentries, NEW e, e = I[i].dentries[q]
        PROVE  /\ E[J[i].dentry].file_type = "NFS_DIR"
               /\ at2[E[e].ino] = Append(at2[J[i].ino], E[e].name)
    <3>1. e \in DOMAIN D /\ I[i].dentry \in DOMAIN D
      BY ONLY <1>13, <2>1, <2>3
    <3>2. E[e] = D[e] /\ E[I[i].dentry] = D[I[i].dentry] /\ D[e].ino \in N
      BY ONLY <1>5, <1>17, <3>1
    <3>3. D[I[i].dentry].file_type = "NFS_DIR" /\ at[D[e].ino] = Append(at[I[i].ino], D[e].name)
      BY ONLY <1>2, <2>1, <2>3 DEF BelowLoaded
    <3>4. at2[D[e].ino] = at[D[e].ino]
      BY ONLY <1>16, <3>2
    <3> QED
      BY ONLY <2>2, <3>2, <3>3, <3>4
  <2>4. CASE i # p
    <3>1. J[i] = I[i]
      BY ONLY <1>5, <2>1, <2>4
    <3> QED
      BY ONLY <2>3, <3>1
  <2>5. CASE i = p /\ k = 1
    <3>1. J[i].dentries[k] = d
      BY ONLY <1>11, <2>5
    <3>2. E[J[i].dentry] = D[I[p].dentry] /\ D[I[p].dentry].file_type = "NFS_DIR"
      <4>1. J[i].dentry = I[p].dentry /\ I[p].dentry \in DOMAIN D
        BY ONLY <1>p, <1>q, <1>r, <1>s, <1>t, <1>u, <1>v, <1>w, <1>13, <2>2, <2>5
      <4>2. E[I[p].dentry] = D[I[p].dentry]
        BY ONLY <1>5, <4>1
      <4> QED
        BY <1>p, <1>q, <1>r, <1>s, <1>t, <1>u, <1>v, <1>w, <4>1, <4>2
    <3>3. at2[E[d].ino] = Append(at2[J[i].ino], E[d].name)
      BY <1>p, <1>q, <1>r, <1>s, <1>t, <1>u, <1>v, <1>w, <1>8, <1>16, <2>2, <2>5
    <3> QED
      BY <3>1, <3>2, <3>3
  <2>6. CASE i = p /\ k # 1
    <3>p. PICK q : q = k - 1
      OBVIOUS
    <3>q. PICK len : len = Len(I[p].dentries)
      OBVIOUS
    <3>1. q \in DOMAIN I[p].dentries /\ k = 1 + q
      <4>1. k \in 1 .. len + 1 /\ len \in Nat
        BY ONLY <1>p, <1>q, <1>r, <1>s, <1>t, <1>u, <1>v, <1>w, <3>p, <3>q, <1>11, <2>6
      <4>2. q \in 1 .. len /\ k = 1 + q
        BY ONLY <1>p, <1>q, <1>r, <1>s, <1>t, <1>u, <1>v, <1>w, <3>p, <3>q, <2>6, <4>1
      <4> QED
        BY <1>p, <1>q, <1>r, <1>s, <1>t, <1>u, <1>v, <1>w, <3>p, <3>q, <1>11, <4>2
    <3>2. J[i].dentries[k] = I[i].dentries[q] /\ q \in DOMAIN I[i].dentries
      BY ONLY <1>11, <2>6, <3>1
    <3> QED
      BY ONLY <2>3, <3>2
  <2> QED
    BY ONLY <2>4, <2>5, <2>6
<1>20. BelowStored(at2, kind2, C, U)
  <2> SUFFICES ASSUME NEW u \in U, NEW k \in Kids(C, u), NEW e, e = Kid(C, u, k)
               PROVE  at2[e.ino] = Append(at2[u], e.name) /\ kind2[e.ino] = e.file_type /\ e.name \in Name
    BY DEF BelowStored
  <2>1. e.ino \in N /\ u \in N
    BY <1>p, <1>q, <1>r, <1>s, <1>t, <1>u, <1>v, <1>w, <1>1 DEF KidsStored, Numbers
  <2>2. at[e.ino] = Append(at[u], e.name) /\ kind[e.ino] = e.file_type /\ e.name \in Name
    BY <1>2 DEF BelowStored
  <2> QED
    BY <1>16, <2>1, <2>2
<1>21. Covered(E, J, C, U)
  <2> SUFFICES ASSUME NEW y \in N2 \ {0}
               PROVE  \/ \E i \in DOMAIN J : \E k \in DOMAIN J[i].dentries : E[J[i].dentries[k]].ino = y
                      \/ \E u \in U : \E k \in Kids(C, u) : Kid(C, u, k).ino = y
    BY <1>15 DEF Covered
  <2>1. CASE y = a.ino
    <3>1. 1 \in DOMAIN J[p].dentries /\ E[J[p].dentries[1]].ino = y
      BY <1>8, <1>11, <2>1
    <3> QED
      BY ONLY <1>p, <1>q, <1>r, <1>s, <1>t, <1>u, <1>v, <1>w, <1>7, <3>1
  <2>2. CASE \E u \in U : \E k \in Kids(C, u) : Kid(C, u, k).ino = y
    BY ONLY <2>2
  <2>3. CASE \E i \in DOMAIN I : \E k \in DOMAIN I[i].dentries : D[I[i].dentries[k]].ino = y
    <3>1. PICK i \in DOMAIN I : \E k \in DOMAIN I[i].dentries : D[I[i].dentries[k]].ino = y
      BY ONLY <2>3
    <3>2. PICK k \in DOMAIN I[i].dentries : D[I[i].dentries[k]].ino = y
      BY ONLY <3>1
    <3>r. PICK e : e = I[i].dentries[k]
      OBVIOUS
    <3>3. E[e].ino = y
      BY ONLY <1>p, <1>q, <1>r, <1>s, <1>t, <1>u, <1>v, <1>w, <3>r, <1>5, <1>13, <3>2
    <3>4. \E q \in DOMAIN J[i].dentries : J[i].dentries[q] = e
      <4>1. CASE i # p
        BY ONLY <1>p, <1>q, <1>r, <1>s, <1>t, <1>u, <1>v, <1>w, <3>r, <1>5, <4>1
      <4>2. CASE i = p
        <5>p. PICK q : q = 1 + k
          OBVIOUS
        <5>q. PICK len : len = Len(I[p].dentries)
          OBVIOUS
        <5>1. k \in 1 .. len /\ len \in Nat /\ k \in DOMAIN I[p].dentries
          BY <1>p, <1>q, <1>r, <1>s, <1>t, <1>u, <1>v, <1>w, <3>r, <5>p, <5>q, <1>11, <4>2
        <5>2. q \in 1 .. len + 1
          BY ONLY <1>p, <1>q, <1>r, <1>s, <1>t, <1>u, <1>v, <1>w, <3>r, <5>p, <5>q, <5>1
        <5>3. q \in DOMAIN J[p].dentries /\ J[p].dentries[q] = I[p].dentries[k]
          BY <1>p, <1>q, <1>r, <1>s, <1>t, <1>u, <1>v, <1>w, <3>r, <5>p, <5>q, <1>11, <5>1, <5>2
        <5> QED
          BY <1>p, <1>q, <1>r, <1>s, <1>t, <1>u, <1>v, <1>w, <3>r, <5>p, <5>q, <4>2, <5>3
      <4> QED
        BY ONLY <4>1, <4>2
    <3> QED
      BY ONLY <1>7, <3>3, <3>4
  <2> QED
    BY ONLY <1>p, <1>q, <1>r, <1>s, <1>t, <1>u, <1>v, <1>w, <1>2, <2>1, <2>2, <2>3 DEF Covered
<1>22. T \cup {<<path, ft>>} = {<<at2[x], kind2[x]>> : x \in N2 \ {0}}
  <2>1. a.ino # 0
    BY ONLY <1>14, <1>17
  <2> DEFINE F(x) == <<at[x], kind[x]>>
             G(x) == <<at2[x], kind2[x]>>
  <2>2. \A x \in N : G(x) = F(x)
    BY ONLY <1>16
  <2>3. G(a.ino) = <<path, ft>>
    BY <1>16
  <2>4. T = {F(x) : x \in N \ {0}}
    BY ONLY <1>2
  <2> HIDE DEF F, G
  <2>5. {F(x) : x \in N \ {0}} \cup {<<path, ft>>} = {G(x) : x \in N2 \ {0}}
    BY <1>p, <1>q, <1>r, <1>s, <1>t, <1>u, <1>v, <1>w, <2>1, <2>2, <2>3
  <2> QED
    BY <2>4, <2>5 DEF G
<1>23. Underway(at2, E, J, l)
  <2> SUFFICES ASSUME l.on
               PROVE  \E i \in DOMAIN J : /\ at2[J[i].ino] = l.path
                                          /\ \A w \in l.had : w \in l.seen \/ ToCome(E, J[i], l, w)
    BY DEF Underway
  <2>1. PICK i \in DOMAIN I : /\ at[I[i].ino] = l.path
                              /\ \A w \in l.had : w \in l.seen \/ ToCome(D, I[i], l, w)
    BY <1>p, <1>q, <1>r, <1>s, <1>t, <1>u, <1>v, <1>w DEF Underway
  <2>2. i \in DOMAIN J /\ at2[J[i].ino] = l.path
    <3>1. J[i].ino = I[i].ino /\ I[i].ino \in N /\ i \in DOMAIN J
      BY ONLY <1>7, <1>12, <1>13
    <3>2. at2[I[i].ino] = at[I[i].ino]
      BY <1>16, <3>1
    <3> QED
      BY <2>1, <3>1, <3>2
  <2>3. ASSUME NEW w, ToCome(D, I[i], l, w) PROVE ToCome(E, J[i], l, w)
    <3>1. PICK k \in DOMAIN I[i].dentries : k > l.offset /\ D[I[i].dentries[k]].name = w
      BY <2>3 DEF ToCome
    <3>s. PICK e : e = I[i].dentries[k]
      OBVIOUS
    <3>2. E[e].name = w
      BY ONLY <1>p, <1>q, <1>r, <1>s, <1>t, <1>u, <1>v, <1>w, <3>s, <1>5, <1>13, <3>1
    <3>3. CASE i # p
      <4>1. J[i] = I[i]
        BY <1>5, <3>3
      <4> QED
        BY ONLY <1>p, <1>q, <1>r, <1>s, <1>t, <1>u, <1>v, <1>w, <3>s, <3>1, <3>2, <4>1 DEF ToCome
    <3>4. CASE i = p
      <4>p. PICK q : q = 1 + k
        OBVIOUS
      <4>q. PICK len : len = Len(I[p].dentries)
        OBVIOUS
      <4>1. k \in 1 .. len /\ len \in Nat /\ k \in DOMAIN I[p].dentries /\ k > l.offset
        BY ONLY <1>p, <1>q, <1>r, <1>s, <1>t, <1>u, <1>v, <1>w, <3>s, <4>p, <4>q, <1>11, <3>1, <3>4
      <4>2. q \in 1 .. len + 1 /\ q > l.offset
        BY <1>p, <1>q, <1>r, <1>s, <1>t, <1>u, <1>v, <1>w, <3>s, <4>p, <4>q, <4>1
      <4>3. q \in DOMAIN J[p].dentries /\ J[p].dentries[q] = e
        BY <1>p, <1>q, <1>r, <1>s, <1>t, <1>u, <1>v, <1>w, <3>s, <4>p, <4>q, <1>11, <3>4, <4>1, <4>2
      <4> QED
        BY <3>2, <3>4, <4>2, <4>3 DEF ToCome
    <3> QED
      BY <3>3, <3>4
  <2> QED
    BY <2>1, <2>2, <2>3
<1>24. Named(at2, kind2, E, J, C, U, T \cup {<<path, ft>>})
  BY <1>15, <1>18, <1>19, <1>20, <1>21, <1>22 DEF Named
<1> QED
  BY ONLY <1>p, <1>q, <1>r, <1>s, <1>t, <1>u, <1>v, <1>w, <1>23, <1>24 DEF SomeNamed
-------------------------------------------------------------------------------
\* No name begins with another one.
NamesApart == StartsWith = {<<n, n>> : n \in Name}

\* The way along a path, one component at a time.
LEMMA OneFurther ==
    ASSUME NEW path \in Path, NEW k \in Nat, k < Len(path)
    PROVE  /\ path[k + 1] \in Name /\ k + 1 \in 1 .. Len(path)
           /\ SubSeq(path, 1, k) \in Seq(Name)
           /\ Append(SubSeq(path, 1, k), path[k + 1]) = SubSeq(path, 1, k + 1)
<1>1. path \in Seq(Name) /\ Len(path) \in 1 .. MaxDepth
  BY PathType
<1>2. k \in Nat /\ k + 1 \in 1 .. Len(path) /\ k \in 0 .. Len(path)
  BY <1>1
<1>3. path[k + 1] \in Name
  BY <1>1, <1>2, ElementOfSeq
<1>6. ASSUME NEW n \in 0 .. Len(path)
      PROVE  /\ SubSeq(path, 1, n) \in Seq(Name) /\ Len(SubSeq(path, 1, n)) = n
             /\ \A i \in 1 .. n : SubSeq(path, 1, n)[i] = path[i]
  <2>1. \A i \in 1 .. n : path[i] \in Name
    BY <1>1, ElementOfSeq
  <2>2. /\ SubSeq(path, 1, n) \in Seq(Name)
        /\ Len(SubSeq(path, 1, n)) = IF 1 <= n THEN n - 1 + 1 ELSE 0
        /\ \A i \in 1 .. n - 1 + 1 : SubSeq(path, 1, n)[i] = path[1 + i - 1]
    BY <2>1, SubSeqProperties
  <2>3. ASSUME NEW i \in 1 .. n PROVE SubSeq(path, 1, n)[i] = path[i]
    <3>1. i \in 1 .. n - 1 + 1 /\ 1 + i - 1 = i
      BY <1>1
    <3>2. SubSeq(path, 1, n)[i] = path[1 + i - 1]
      BY <2>2, <3>1
    <3> QED
      BY <3>1, <3>2
  <2>4. Len(SubSeq(path, 1, n)) = n
    BY <1>1, <2>2
  <2> QED
    BY <2>2, <2>3, <2>4
<1>7. SubSeq(path, 1, k) \in Seq(Name)
  BY <1>2, <1>6
<1>8. Append(SubSeq(path, 1, k), path[k + 1]) = SubSeq(path, 1, k + 1)
  <2> PICK s : s = SubSeq(path, 1, k)
    OBVIOUS
  <2> PICK t : t = SubSeq(path, 1, k + 1)
    OBVIOUS
  <2> PICK n : n = path[k + 1]
    OBVIOUS
  <2>1. s \in Seq(Name) /\ Len(s) = k /\ \A i \in 1 .. k : s[i] = path[i]
    BY <1>2, <1>6
  <2>2. t \in Seq(Name) /\ Len(t) = k + 1 /\ \A i \in 1 .. k + 1 : t[i] = path[i]
    <3>1. k + 1 \in 0 .. Len(path)
      BY <1>1, <1>2
    <3> QED
      BY <1>6, <3>1
  <2>3. /\ Append(s, n) \in Seq(Name) /\ Len(Append(s, n)) = k + 1
        /\ \A i \in 1 .. k : Append(s, n)[i] = s[i]
        /\ Append(s, n)[k + 1] = n
    BY <1>3, <2>1, OneMore, LenProperties
  <2>4. \A i \in 1 .. k + 1 : Append(s, n)[i] = t[i]
    <3>1. \A i \in 1 .. k + 1 : i \in 1 .. k \/ i = k + 1
      BY <1>2
    <3>2. \A i \in 1 .. k : i \in 1 .. k + 1
      BY <1>2
    <3>3. t[k + 1] = n
      BY <1>2, <2>2
    <3> QED
      BY <2>1, <2>2, <2>3, <3>1, <3>2, <3>3
  <2>5. Append(s, n) = t
    BY <2>2, <2>3, <2>4, SeqEqual
  <2> QED
    BY <2>5
<1> QED
  BY <1>2, <1>3, <1>7, <1>8

\* Its two ends.
LEMMA WholeWay ==
    ASSUME NEW path \in Path
    PROVE  SubSeq(path, 1, 0) = <<>> /\ SubSeq(path, 1, Len(path)) = path
<1>1. SubSeq(path, 1, 0) = <<>>
  BY SubSeqEmpty
<1>2. SubSeq(path, 1, Len(path)) = path
  BY PathType, SubSeqFull
<1> QED
  BY <1>1, <1>2

\* Two places one component below two others.
LEMMA SamePlace ==
    ASSUME NEW p \in Where, NEW q \in Where, NEW n \in Name, NEW m \in Name,
           Append(p, n) = Append(q, m)
    PROVE  p = q /\ n = m
<1>1. p \in Seq(Name) /\ q \in Seq(Name) /\ Len(p) \in Nat /\ Len(q) \in Nat
  BY WhereType
<1>2. Len(p) = Len(q)
  BY <1>1, Longer
<1>3. n = m
  BY <1>2, Longer
<1>4. \A k \in 1 .. Len(p) : p[k] = q[k]
  BY <1>2, Longer
<1> QED
  BY <1>1, <1>2, <1>3, <1>4, SeqEqual

(***************************************************************************)
(* A number placed right below that of an inode in memory is the number of *)
(* a dentry in that inode's list: what is loaded is loaded with all its    *)
(* dentries.                                                               *)
(***************************************************************************)
LEMMA ChildFound ==
    ASSUME NEW D, NEW I, NEW c, MemoryType(D, I, c),
           NEW C, NEW U, NEW mi, NEW md, Stored(C, U, mi, md), Linked(D, I, C, U, mi, md),
           NEW at, NEW kind, NEW T, Named(at, kind, D, I, C, U, T),
           NEW i \in DOMAIN I, NEW x \in Numbers(D, U), NEW n \in Name,
           at[x] = Append(at[I[i].ino], n)
    PROVE  \E k \in DOMAIN I[i].dentries :
              /\ I[i].dentries[k] \in DOMAIN D \ {Root}
              /\ D[I[i].dentries[k]].ino = x /\ D[I[i].dentries[k]].name = n
<1>1. /\ Typed(C, U, mi, md) /\ KidsStored(C, U) /\ Placed(D, C, U, mi) /\ NumbersOnce(D)
      /\ Paired(D, I, md)
  BY DEF Stored, Linked
<1>2. /\ Labelled(at, kind, D, U) /\ BelowLoaded(at, D, I) /\ BelowStored(at, kind, C, U)
      /\ Covered(D, I, C, U)
  BY DEF Named
<1>3. /\ at \in [Numbers(D, U) -> Where] /\ at[0] = <<>>
      /\ \A y, z \in Numbers(D, U) : at[y] = at[z] => y = z
  BY <1>2 DEF Labelled
<1>4. ASSUME NEW j \in DOMAIN I
      PROVE  /\ I[j].dentry \in DOMAIN D /\ D[I[j].dentry].inode = j /\ j # NULL
             /\ D[I[j].dentry].ino = I[j].ino /\ I[j].ino \in Numbers(D, U) /\ I[j].ino \notin U
             /\ \A k \in DOMAIN I[j].dentries : I[j].dentries[k] \in DOMAIN D \ {Root}
  <2>1. I[j].dentry \in DOMAIN D /\ ToSet(I[j].dentries) \subseteq DOMAIN D \ {Root}
    BY DEF MemoryType
  <2>2. D[I[j].dentry].inode = j /\ D[I[j].dentry].ino = I[j].ino
    BY <1>1 DEF Paired
  <2>3. j # NULL
    <3>1. I \in Seq(Inode)
      BY DEF MemoryType
    <3> QED
      BY <3>1, LenProperties DEF NULL
  <2>4. I[j].ino \notin U
    BY <1>1, <2>1, <2>2, <2>3 DEF Placed
  <2> QED
    BY <2>1, <2>2, <2>3, <2>4 DEF Numbers, ToSet
<1> PICK p : p = at[I[i].ino]
  OBVIOUS
<1>5. p \in Where
  BY <1>3, <1>4
<1>6. x # 0
  <2> PICK q : q = Append(p, n)
    OBVIOUS
  <2>1. Len(q) = Len(p) + 1 /\ Len(p) \in Nat
    BY <1>5, Longer, WhereType
  <2>2. q # <<>>
    BY <2>1
  <2> QED
    BY <1>3, <2>2
<1>7. CASE \E j \in DOMAIN I : \E k \in DOMAIN I[j].dentries : D[I[j].dentries[k]].ino = x
  <2>1. PICK j \in DOMAIN I : \E k \in DOMAIN I[j].dentries : D[I[j].dentries[k]].ino = x
    BY <1>7
  <2>2. PICK k \in DOMAIN I[j].dentries : D[I[j].dentries[k]].ino = x
    BY <2>1
  <2> PICK e : e = I[j].dentries[k]
    OBVIOUS
  <2>3. at[x] = Append(at[I[j].ino], D[e].name)
    BY <1>2, <2>2 DEF BelowLoaded
  <2>4. e \in DOMAIN D \ {Root}
    BY <1>4
  <2>5. D[e].name \in Name
    BY <2>4 DEF MemoryType
  <2>6. at[I[j].ino] \in Where
    BY <1>3, <1>4
  <2> PICK q : q = at[I[j].ino]
    OBVIOUS
  <2> PICK m : m = D[e].name
    OBVIOUS
  <2>7. q = p /\ m = n
    <3>1. Append(q, m) = Append(p, n) /\ q \in Where /\ m \in Name
      BY <2>3, <2>5, <2>6
    <3> QED
      BY <1>5, <3>1, SamePlace
  <2>8. I[j].ino = I[i].ino
    <3>1. I[j].ino \in Numbers(D, U) /\ I[i].ino \in Numbers(D, U)
      BY <1>4
    <3> QED
      BY <1>3, <2>7, <3>1
  <2>9. I[j].dentry = I[i].dentry
    <3>1. I[j].dentry \in DOMAIN D /\ I[i].dentry \in DOMAIN D
      BY <1>4
    <3>2. D[I[j].dentry].ino = D[I[i].dentry].ino
      BY <1>4, <2>8
    <3> QED
      BY <1>1, <3>1, <3>2 DEF NumbersOnce
  <2>10. j = i
    BY <1>4, <2>9
  <2> QED
    BY <2>2, <2>4, <2>7, <2>10
<1>8. CASE \E u \in U : \E k \in Kids(C, u) : Kid(C, u, k).ino = x
  <2>1. PICK u \in U : \E k \in Kids(C, u) : Kid(C, u, k).ino = x
    BY <1>8
  <2>2. PICK k \in Kids(C, u) : Kid(C, u, k).ino = x
    BY <2>1
  <2> PICK e : e = Kid(C, u, k)
    OBVIOUS
  <2>3. at[x] = Append(at[u], e.name) /\ e.name \in Name
    BY <1>2, <2>2 DEF BelowStored
  <2>4. u \in Numbers(D, U)
    BY DEF Numbers
  <2>5. at[u] \in Where
    BY <1>3, <2>4
  <2> PICK q : q = at[u]
    OBVIOUS
  <2> PICK m : m = e.name
    OBVIOUS
  <2>6. q = p
    <3>1. Append(q, m) = Append(p, n) /\ q \in Where /\ m \in Name
      BY <2>3, <2>5
    <3> QED
      BY <1>5, <3>1, SamePlace
  <2>7. u = I[i].ino
    <3>1. I[i].ino \in Numbers(D, U)
      BY <1>4
    <3> QED
      BY <1>3, <2>4, <2>6, <3>1
  <2> QED
    BY <1>4, <2>7
<1> QED
  BY <1>2, <1>6, <1>7, <1>8 DEF Covered

(***************************************************************************)
(* Where the lookup of a path may end: at the path, or, when there is no   *)
(* such path, in the directory it would be in.                             *)
(***************************************************************************)
Ends(at, U, acc, path) ==
    \/ acc.find = {TRUE} /\ at[dentry[acc.ret].ino] = path
    \/ /\ acc.find = {FALSE} /\ dentry[acc.ret].inode # NULL
       /\ dentry[acc.ret].file_type = "NFS_DIR"
       /\ path = Append(at[dentry[acc.ret].ino], Last(path))
       /\ \A x \in Numbers(dentry, U) : at[x] # path

\* The walk after k components: on its way, at an inode that is missing, or at its end.
Follows(at, U, acc, path, k) ==
    /\ acc \in Reach /\ acc.total = Len(path) /\ (acc.null => acc.stop)
    /\ ~acc.stop => /\ k < Len(path) /\ acc.lvl = k
                    /\ at[dentry[acc.cur].ino] = SubSeq(path, 1, k)
    /\ acc.stop => acc.null \/ Ends(at, U, acc, path)

\* Every directory above path has been created.
DirectoriesAbove(path) ==
    \A k \in 1 .. Len(path) - 1 : <<SubSeq(path, 1, k), "NFS_DIR">> \in live

\* The inode of a loaded dentry, when the way to it is known to be one of directories.
LEMMA OnTheWay ==
    ASSUME TypeOK, RootOk(dentry, inode), NEW U, NEW mi, NEW md,
           Linked(dentry, inode, disk.cell, U, mi, md),
           NEW at, NEW kind, Named(at, kind, dentry, inode, disk.cell, U, live),
           NEW path \in Path, DirectoriesAbove(path),
           NEW k \in Nat, k < Len(path), NEW c \in DOMAIN dentry,
           at[dentry[c].ino] = SubSeq(path, 1, k), dentry[c].inode # NULL
    PROVE  /\ dentry[c].inode \in DOMAIN inode /\ inode[dentry[c].inode].dentry = c
           /\ inode[dentry[c].inode].ino = dentry[c].ino
           /\ dentry[c].file_type = "NFS_DIR"
<1>1. Placed(dentry, disk.cell, U, mi) /\ Paired(dentry, inode, md)
  BY DEF Linked
<1>2. /\ Labelled(at, kind, dentry, U)
      /\ live = {<<at[x], kind[x]>> : x \in Numbers(dentry, U) \ {0}}
  BY DEF Named
<1>3. /\ dentry[c].inode \in DOMAIN inode /\ inode[dentry[c].inode].dentry = c
      /\ inode[dentry[c].inode].ino = dentry[c].ino
  <2>1. dentry[c].inode \in DOMAIN inode
    BY DentryFields
  <2>2. inode[dentry[c].inode].dentry = c
    BY <1>1 DEF Paired
  <2>3. dentry[inode[dentry[c].inode].dentry].ino = inode[dentry[c].inode].ino
    BY <1>1, <2>1 DEF Paired
  <2> QED
    BY <2>1, <2>2, <2>3
<1> PICK n : n = dentry[c].ino
  OBVIOUS
<1>4. n \in Numbers(dentry, U) /\ kind[n] = dentry[c].file_type
  BY <1>2 DEF Labelled, Numbers
<1>5. CASE k = 0
  <2>1. at[n] = <<>>
    BY <1>5, WholeWay
  <2>2. at[0] = <<>> /\ 0 \in Numbers(dentry, U) /\ kind[0] = "NFS_DIR"
    BY <1>2 DEF Labelled
  <2>3. n = 0
    BY <1>2, <1>4, <2>1, <2>2 DEF Labelled
  <2> QED
    BY <1>3, <1>4, <2>2, <2>3
<1>6. CASE k # 0
  <2>1. k \in 1 .. Len(path) - 1
    BY <1>6, PathType
  <2>2. <<SubSeq(path, 1, k), "NFS_DIR">> \in live
    BY <2>1 DEF DirectoriesAbove
  <2> PICK q : q = SubSeq(path, 1, k)
    OBVIOUS
  <2>3. PICK x \in Numbers(dentry, U) \ {0} : <<q, "NFS_DIR">> = <<at[x], kind[x]>>
    BY <1>2, <2>2
  <2>4. at[x] = q /\ kind[x] = "NFS_DIR" /\ at[n] = q
    BY <2>3
  <2>5. x = n
    BY <1>2, <1>4, <2>3, <2>4 DEF Labelled
  <2> QED
    BY <1>3, <1>4, <2>4, <2>5
<1> QED
  BY <1>5, <1>6

\* One component of the walk, when no name begins with another.
LEMMA WalkFollows ==
    ASSUME NamesApart, TypeOK, RootOk(dentry, inode), NEW U, NEW mi, NEW md,
           Stored(disk.cell, U, mi, md), Linked(dentry, inode, disk.cell, U, mi, md),
           NEW at, NEW kind, Named(at, kind, dentry, inode, disk.cell, U, live),
           NEW path \in Path, DirectoriesAbove(path), NEW k \in Nat, k < Len(path),
           NEW acc, Follows(at, U, acc, path, k)
    PROVE  Follows(at, U, Walk(acc, path[k + 1]), path, k + 1)
<1>p. PICK f : f = path[k + 1]
  OBVIOUS
<1>q. PICK w : w = Walk(acc, f)
  OBVIOUS
<1>r. PICK p : p = SubSeq(path, 1, k)
  OBVIOUS
<1>s. PICK q : q = SubSeq(path, 1, k + 1)
  OBVIOUS
<1>1. acc \in Reach /\ w \in Reach /\ acc.total = Len(path) /\ (acc.null => acc.stop)
  BY <1>p, <1>q, <1>r, <1>s, WalkType DEF Follows
<1>2. f \in Name /\ k + 1 \in 1 .. Len(path) /\ p \in Seq(Name) /\ Append(p, f) = q
  BY <1>p, <1>q, <1>r, <1>s, OneFurther
<1>3. Len(path) \in Nat /\ (k + 1 = Len(path) => q = path /\ f = Last(path))
  BY <1>p, <1>q, <1>r, <1>s, PathType, WholeWay DEF Last
<1>4. CASE acc.stop
  <2>1. w = acc
    BY <1>p, <1>q, <1>r, <1>s, <1>4 DEF Walk
  <2> QED
    BY <1>p, <1>q, <1>r, <1>s, <1>4, <2>1 DEF Follows
<1>5. CASE ~acc.stop /\ dentry[acc.cur].inode = NULL
  <2>1. w = [acc EXCEPT !.stop = TRUE, !.null = TRUE]
    BY <1>p, <1>q, <1>r, <1>s, <1>5 DEF Walk
  <2>2. w.stop /\ w.null /\ w.total = acc.total
    BY <1>1, <2>1 DEF Reach
  <2> QED
    BY <1>p, <1>q, <1>r, <1>s, <1>1, <2>2 DEF Follows
<1>6. CASE ~acc.stop /\ dentry[acc.cur].inode # NULL
  <2>p. PICK c : c = acc.cur
    OBVIOUS
  <2>q. PICK j : j = dentry[c].inode
    OBVIOUS
  <2>r. PICK i : i = inode[j]
    OBVIOUS
  <2>s. PICK hit : hit = Hits(i, f)
    OBVIOUS
  <2>1. c \in DOMAIN dentry /\ acc.lvl = k /\ at[dentry[c].ino] = p /\ ~acc.null
    BY <1>p, <1>q, <1>r, <1>s, <2>p, <2>q, <2>r, <2>s, <1>1, <1>6 DEF Follows, Reach
  <2>2. j \in DOMAIN inode /\ i.dentry = c /\ i.ino = dentry[c].ino /\ dentry[c].file_type = "NFS_DIR"
    BY <1>p, <1>q, <1>r, <1>s, <2>p, <2>q, <2>r, <2>s, <1>6, <2>1, OnTheWay
  <2>3. at[i.ino] = p /\ dentry[i.dentry].file_type # "NFS_REG_FILE"
    BY <2>1, <2>2
  <2>4. CASE hit = {}
    <3>1. w = [acc EXCEPT !.stop = TRUE, !.find = {FALSE}, !.ret = i.dentry]
      BY <1>p, <1>q, <1>r, <1>s, <2>p, <2>q, <2>r, <2>s, <1>6, <2>3, <2>4 DEF Walk
    <3>2. /\ w.stop /\ w.null = acc.null /\ w.total = acc.total /\ w.find = {FALSE} /\ w.ret = c
      BY ONLY <1>1, <2>2, <3>1 DEF Reach
    <3>3. \A x \in Numbers(dentry, U) : at[x] # q
      <4> SUFFICES ASSUME NEW x \in Numbers(dentry, U), at[x] = q
                   PROVE  FALSE
        OBVIOUS
      <4>1. MemoryType(dentry, inode, made)
        BY Parts
      <4>2. at[x] = Append(at[inode[j].ino], f)
        BY <1>p, <1>q, <1>r, <1>s, <2>p, <2>q, <2>r, <2>s, <1>2, <2>3
      <4>3. \E n \in DOMAIN inode[j].dentries :
               /\ inode[j].dentries[n] \in DOMAIN dentry \ {Root}
               /\ dentry[inode[j].dentries[n]].ino = x
               /\ dentry[inode[j].dentries[n]].name = f
        <5>1. j \in DOMAIN inode /\ f \in Name /\ x \in Numbers(dentry, U)
          BY <1>2, <2>2
        <5>2. /\ Stored(disk.cell, U, mi, md) /\ Linked(dentry, inode, disk.cell, U, mi, md)
              /\ Named(at, kind, dentry, inode, disk.cell, U, live)
          OBVIOUS
        <5> QED
          BY ONLY <4>1, <4>2, <5>1, <5>2, ChildFound, SMTT(30)
      <4>4. PICK n \in DOMAIN i.dentries : dentry[i.dentries[n]].name = f
        BY <1>p, <1>q, <1>r, <1>s, <2>p, <2>q, <2>r, <2>s, <4>3
      <4>5. Matches(i.dentries[n], f)
        BY <1>2, <4>4 DEF Matches, NamesApart
      <4> QED
        BY <1>p, <1>q, <1>r, <1>s, <2>p, <2>q, <2>r, <2>s, <2>4, <4>4, <4>5 DEF Hits
    <3>4. k + 1 = Len(path)
      <4> SUFFICES ASSUME k + 1 # Len(path)
                   PROVE  FALSE
        OBVIOUS
      <4>1. k + 1 \in 1 .. Len(path) - 1
        BY <1>2, <1>3
      <4>2. <<q, "NFS_DIR">> \in live
        BY <1>p, <1>q, <1>r, <1>s, <2>p, <2>q, <2>r, <2>s, <4>1 DEF DirectoriesAbove
      <4>3. PICK x \in Numbers(dentry, U) \ {0} : <<q, "NFS_DIR">> = <<at[x], kind[x]>>
        BY <4>2 DEF Named
      <4>4. at[x] = q
        BY <4>3
      <4> QED
        BY <3>3, <4>4
    <3>5. Ends(at, U, w, path)
      <4>1. q = path /\ f = Last(path)
        BY <1>3, <3>4
      <4>2. path = Append(at[dentry[w.ret].ino], Last(path))
        BY <1>2, <2>1, <3>2, <4>1
      <4>3. dentry[w.ret].inode # NULL /\ dentry[w.ret].file_type = "NFS_DIR"
        BY <1>p, <1>q, <1>r, <1>s, <2>p, <2>q, <2>r, <2>s, <1>6, <2>2, <3>2
      <4>4. \A x \in Numbers(dentry, U) : at[x] # path
        BY <3>3, <4>1
      <4> QED
        BY <3>2, <4>2, <4>3, <4>4 DEF Ends
    <3> QED
      BY <1>p, <1>q, <1>r, <1>s, <2>p, <2>q, <2>r, <2>s, <1>1, <2>1, <3>2, <3>5 DEF Follows
  <2>5. CASE hit # {}
    <3>p. PICK h : h = i.dentries[Min(hit)]
      OBVIOUS
    <3>1. h \in DOMAIN dentry \ {Root}
      BY <1>p, <1>q, <1>r, <1>s, <2>p, <2>q, <2>r, <2>s, <3>p, <2>2, <2>5, HitType
    <3>2. Min(hit) \in DOMAIN i.dentries /\ Matches(h, f)
      <4>1. i.dentries \in Seq(DOMAIN dentry \ {Root})
        BY <1>p, <1>q, <1>r, <1>s, <2>p, <2>q, <2>r, <2>s, <3>p, <2>2, InodeFields
      <4>2. hit \in SUBSET Nat
        <5>1. DOMAIN i.dentries = 1 .. Len(i.dentries) /\ Len(i.dentries) \in Nat
          BY <4>1, LenProperties
        <5>2. hit \subseteq DOMAIN i.dentries
          BY <1>p, <1>q, <1>r, <1>s, <2>p, <2>q, <2>r, <2>s, <3>p DEF Hits
        <5>3. DOMAIN i.dentries \subseteq Nat
          BY <5>1
        <5> QED
          BY <5>2, <5>3
      <4>3. Min(hit) \in hit
        BY <2>5, <4>2, MinOf
      <4> QED
        BY <1>p, <1>q, <1>r, <1>s, <2>p, <2>q, <2>r, <2>s, <3>p, <4>3 DEF Hits
    <3>3. dentry[h].name = f
      <4>1. <<dentry[h].name, f>> \in {<<n, n>> : n \in Name}
        BY <3>2 DEF Matches, NamesApart
      <4> QED
        BY <4>1
    <3>4. at[dentry[h].ino] = q
      <4>1. BelowLoaded(at, dentry, inode)
        BY DEF Named
      <4>2. at[dentry[h].ino] = Append(at[i.ino], dentry[h].name)
        BY <1>p, <1>q, <1>r, <1>s, <2>p, <2>q, <2>r, <2>s, <3>p, <2>2, <3>2, <4>1 DEF BelowLoaded
      <4> QED
        BY <1>2, <2>3, <3>3, <4>2
    <3>5. CASE k + 1 = Len(path)
      <4>1. w = [acc EXCEPT !.stop = TRUE, !.find = {TRUE}, !.ret = h]
        <5>1. acc.lvl + 1 = acc.total
          BY <1>1, <2>1, <3>5
        <5> QED
          BY <1>p, <1>q, <1>r, <1>s, <2>p, <2>q, <2>r, <2>s, <3>p, <1>6, <2>3, <2>5, <5>1 DEF Walk
      <4>2. /\ w.stop /\ w.total = acc.total /\ w.find = {TRUE} /\ w.ret = h
            /\ w.null = acc.null
        BY <1>1, <4>1 DEF Reach
      <4>3. Ends(at, U, w, path)
        BY ONLY <1>3, <3>4, <3>5, <4>2 DEF Ends
      <4> QED
        BY <1>p, <1>q, <1>r, <1>s, <2>p, <2>q, <2>r, <2>s, <3>p, <1>1, <2>1, <4>2, <4>3 DEF Follows
    <3>6. CASE k + 1 # Len(path)
      <4>1. w = [acc EXCEPT !.lvl = k + 1, !.cur = h, !.ret = i.dentry]
        <5>1. acc.lvl + 1 # acc.total /\ acc.lvl + 1 = k + 1
          BY <1>1, <2>1, <3>6
        <5> QED
          BY <1>p, <1>q, <1>r, <1>s, <2>p, <2>q, <2>r, <2>s, <3>p, <1>6, <2>3, <2>5, <5>1 DEF Walk
      <4>2. /\ ~w.stop /\ w.total = acc.total /\ w.lvl = k + 1 /\ w.cur = h
            /\ w.null = acc.null
        BY <1>1, <1>6, <4>1 DEF Reach
      <4>3. k + 1 < Len(path)
        BY <1>2, <1>3, <3>6
      <4> QED
        BY <1>p, <1>q, <1>r, <1>s, <2>p, <2>q, <2>r, <2>s, <3>p, <1>1, <2>1, <3>4, <4>2, <4>3 DEF Follows
    <3> QED
      BY <3>5, <3>6
  <2> QED
    BY <2>4, <2>5
<1> QED
  BY <1>4, <1>5, <1>6

(***************************************************************************)
(* lookup: a path that is there is found at its own number, and of one     *)
(* that is not the walk ends in the directory it would be in.              *)
(***************************************************************************)
LEMMA LookupPlaced ==
    ASSUME NamesApart, TypeOK, RootOk(dentry, inode), NEW U, NEW mi, NEW md,
           Stored(disk.cell, U, mi, md), Linked(dentry, inode, disk.cell, U, mi, md),
           NEW at, NEW kind, Named(at, kind, dentry, inode, disk.cell, U, live),
           NEW path \in Where, Reachable(path)
    PROVE  lookup(path) \in Reach /\ Ends(at, U, lookup(path), path)
<1>1. Len(path) \in Nat /\ lookup(path) \in Reach
  BY WhereType, LookupType DEF RootOk, Where
<1>2. PICK w : /\ w = [k \in 0 .. Len(path) |->
                          IF k = 0 THEN WalkStart(path) ELSE Walk(w[k - 1], path[k])]
               /\ lookup(path) = w[Len(path)]
  BY <1>1, WalkExists
<1>3. w[0] = WalkStart(path)
  BY <1>1, <1>2
<1>4. at[dentry[Root].ino] = <<>> /\ Root \in DOMAIN dentry
  BY DEF Named, Labelled, RootOk
<1>5. CASE path = <<>>
  <2>1. lookup(path) = WalkStart(path)
    BY <1>2, <1>3, <1>5
  <2>2. lookup(path).find = {TRUE} /\ lookup(path).ret = Root
    BY <2>1 DEF WalkStart
  <2> QED
    BY <1>1, <1>4, <1>5, <2>2 DEF Ends
<1>6. CASE path # <<>>
  <2>1. path \in Path /\ Len(path) \in 1 .. MaxDepth
    BY <1>6, WhereType
  <2>2. DirectoriesAbove(path) /\ ~lookup(path).null
    BY DEF Reachable, DirectoriesAbove
  <2>3. \A k \in 1 .. Len(path) : w[k] = Walk(w[k - 1], path[k])
    BY <1>1, <1>2
  <2>4. Follows(at, U, w[0], path, 0)
    <3>p. PICK s : s = WalkStart(path)
      OBVIOUS
    <3>1. /\ s \in Reach /\ s.total = Len(path) /\ ~s.stop /\ ~s.null /\ s.lvl = 0
          /\ s.cur = Root
      BY <3>p, <1>1, <1>4 DEF WalkStart, Reach
    <3>2. at[dentry[s.cur].ino] = SubSeq(path, 1, 0)
      BY <1>4, <2>1, <3>1, WholeWay
    <3>3. 0 < Len(path)
      BY <2>1
    <3> QED
      BY <3>p, <1>3, <3>1, <3>2, <3>3 DEF Follows
  <2> DEFINE S == {k \in 0 .. Len(path) : ~Follows(at, U, w[k], path, k)}
  <2>5. S = {}
    <3> SUFFICES ASSUME S # {} PROVE FALSE
      OBVIOUS
    <3>1. PICK k \in S : \A n \in S : k <= n
      <4>1. S \in SUBSET Nat
        BY <1>1
      <4> HIDE DEF S
      <4> QED
        BY <4>1, Least
    <3>2. k # 0 /\ k \in 0 .. Len(path) /\ ~Follows(at, U, w[k], path, k)
      BY <2>4, <3>1
    <3>q. PICK j : j = k - 1
      OBVIOUS
    <3>3. j \in 0 .. Len(path) /\ j \in Nat /\ j < Len(path) /\ k \in 1 .. Len(path)
          /\ ~(k <= j) /\ j + 1 = k
      BY <3>q, <1>1, <3>2
    <3>4. Follows(at, U, w[j], path, j)
      BY <3>1, <3>3
    <3>5. w[k] = Walk(w[j], path[j + 1])
      BY <2>3, <3>3
    <3>6. Follows(at, U, Walk(w[j], path[j + 1]), path, j + 1)
      BY <2>1, <2>2, <3>3, <3>4, WalkFollows
    <3> QED
      BY <3>2, <3>3, <3>5, <3>6
  <2>6. Len(path) \in 0 .. Len(path) /\ ~(Len(path) < Len(path))
    BY <1>1
  <2>7. Follows(at, U, lookup(path), path, Len(path))
    BY <1>2, <2>5, <2>6
  <2> QED
    BY <1>1, <2>2, <2>6, <2>7 DEF Follows
<1> QED
  BY <1>5, <1>6
-------------------------------------------------------------------------------
\* What the invariant says of a mounted file system.
LEMMA MountedHolds ==
    ASSUME TreeInv, pc \in {"read_root", "mounted", "sync"}, spoilt = {}
    PROVE  /\ ~confused
           /\ \E U \in SUBSET Bit : \E at, kind :
                 /\ Stored(disk.cell, U, super.map_inode, super.map_data)
                 /\ Linked(dentry, inode, disk.cell, U, super.map_inode, super.map_data)
                 /\ Named(at, kind, dentry, inode, disk.cell, U, live)
                 /\ Underway(at, dentry, inode, ls)
  BY MountedFits DEF TreeInv, MemoryTree, HoldsTree

\* The memory and the disk together hold the promised tree.
LEMMA TreeFollows == TreeInv => TreeIsPromised
<1> SUFFICES ASSUME TreeInv, pc = "mounted", spoilt = {}
             PROVE  Tree(dentry[Root]) = live
  BY DEF TreeIsPromised
<1> PICK mi : mi = super.map_inode
  OBVIOUS
<1> PICK md : md = super.map_data
  OBVIOUS
<1>1. PICK U \in SUBSET Bit : \E at, kind :
         /\ Stored(disk.cell, U, mi, md) /\ Linked(dentry, inode, disk.cell, U, mi, md)
         /\ Named(at, kind, dentry, inode, disk.cell, U, live)
  BY MountedHolds
<1>2. PICK at, kind :
         /\ Stored(disk.cell, U, mi, md) /\ Linked(dentry, inode, disk.cell, U, mi, md)
         /\ Named(at, kind, dentry, inode, disk.cell, U, live)
  BY <1>1
<1>3. TypeOK /\ RootOk(dentry, inode)
  BY MountedHolds DEF TreeInv, ShapeInv, TypeInv, StageOk
<1>4. Root \in DOMAIN dentry /\ dentry[Root].ino = 0
  BY <1>3 DEF RootOk
<1>5. \A d \in DOMAIN dentry : d # Root => dentry[d].name \in Name
  BY <1>3, DentryFields
<1>6. \A i \in DOMAIN inode : /\ inode[i].dentry \in DOMAIN dentry /\ i # NULL
                              /\ ToSet(inode[i].dentries) \subseteq DOMAIN dentry \ {Root}
  BY <1>3, Domains DEF TypeOK
<1>7. \A d \in DOMAIN dentry : dentry[d].inode # NULL =>
         /\ dentry[d].inode \in DOMAIN inode
         /\ Children(dentry[d]) = {dentry[c] : c \in ToSet(inode[dentry[d].inode].dentries)}
  BY <1>3, DentryFields DEF Children
<1> QED
  BY <1>2, <1>4, <1>5, <1>6, <1>7, TreeFits

\* Outside newfs_destroy the disk alone holds what was last saved.
LEMMA DiskFollows == TreeInv => DiskIsPromised
<1> SUFFICES ASSUME TreeInv, pc \notin Destroying, spoilt = {}
             PROVE  (IF disk.magic THEN Tree(RootDentry) ELSE {}) = durable
  BY DEF DiskIsPromised
<1>1. CASE ~disk.magic
  BY <1>1 DEF TreeInv, HistoryOk
<1>2. CASE disk.magic
  <2> PICK D : D = <<RootDentry>>
    OBVIOUS
  <2> PICK I : I = <<>>
    OBVIOUS
  <2> PICK mi : mi = disk.map_inode
    OBVIOUS
  <2> PICK md : md = disk.map_data
    OBVIOUS
  <2>1. HoldsTree(D, I, disk.cell, mi, md, durable, NoListing)
    BY <1>2 DEF TreeInv, DiskTree, SavedTree
  <2>2. PICK U \in SUBSET Bit : \E at, kind :
           /\ Stored(disk.cell, U, mi, md) /\ Linked(D, I, disk.cell, U, mi, md)
           /\ Named(at, kind, D, I, disk.cell, U, durable)
    BY <2>1 DEF HoldsTree
  <2>3. PICK at, kind :
           /\ Stored(disk.cell, U, mi, md) /\ Linked(D, I, disk.cell, U, mi, md)
           /\ Named(at, kind, D, I, disk.cell, U, durable)
    BY <2>2
  <2>4. /\ DOMAIN D = {Root} /\ D[Root] = RootDentry /\ RootDentry.inode = NULL
        /\ RootDentry.ino = 0 /\ DOMAIN I = {}
    BY DEF Root, RootDentry
  <2>5. /\ \A d \in DOMAIN D : d # Root => D[d].name \in Name
        /\ \A i \in DOMAIN I : /\ I[i].dentry \in DOMAIN D /\ i # NULL
                               /\ ToSet(I[i].dentries) \subseteq DOMAIN D \ {Root}
        /\ \A d \in DOMAIN D : D[d].inode # NULL =>
              /\ D[d].inode \in DOMAIN I
              /\ Children(D[d]) = {D[c] : c \in ToSet(I[D[d].inode].dentries)}
    BY <2>4
  <2>6. Tree(D[Root]) = durable
    BY <2>3, <2>4, <2>5, TreeFits
  <2> QED
    BY <1>2, <2>4, <2>6
<1> QED
  BY <1>1, <1>2

\* lookup and access answer for a path as mkdir and mknod have left it.
LEMMA LookupFollows ==
    ASSUME NamesApart
    PROVE  TreeInv => LookupIsExact
<1> SUFFICES ASSUME TreeInv, pc = "mounted", spoilt = {}, NEW path \in Path, Reachable(path),
                    NEW there, there = (\E ft \in FileType : <<path, ft>> \in live)
             PROVE  lookup(path).find = {there} /\ newfs_access(path) = there
  BY DEF LookupIsExact
<1> PICK mi : mi = super.map_inode
  OBVIOUS
<1> PICK md : md = super.map_data
  OBVIOUS
<1>1. PICK U \in SUBSET Bit : \E at, kind :
         /\ Stored(disk.cell, U, mi, md) /\ Linked(dentry, inode, disk.cell, U, mi, md)
         /\ Named(at, kind, dentry, inode, disk.cell, U, live)
  BY MountedHolds
<1>2. PICK at, kind :
         /\ Stored(disk.cell, U, mi, md) /\ Linked(dentry, inode, disk.cell, U, mi, md)
         /\ Named(at, kind, dentry, inode, disk.cell, U, live)
  BY <1>1
<1>3. TypeOK /\ RootOk(dentry, inode)
  BY MountedHolds DEF TreeInv, ShapeInv, TypeInv, StageOk
<1> PICK r : r = lookup(path)
  OBVIOUS
<1>4. r \in Reach /\ Ends(at, U, r, path)
  BY <1>2, <1>3, LookupPlaced DEF Where
<1>5. /\ kind \in [Numbers(dentry, U) -> FileType] /\ at[0] = <<>>
      /\ live = {<<at[x], kind[x]>> : x \in Numbers(dentry, U) \ {0}}
  BY <1>2 DEF Named, Labelled
<1>6. CASE r.find = {TRUE} /\ at[dentry[r.ret].ino] = path
  <2> PICK x : x = dentry[r.ret].ino
    OBVIOUS
  <2>1. x \in Numbers(dentry, U)
    BY <1>4 DEF Numbers, Reach
  <2>2. x # 0
    BY <1>5, <1>6, PathType
  <2>3. <<at[x], kind[x]>> \in live /\ kind[x] \in FileType
    BY <1>5, <2>1, <2>2
  <2>4. there = TRUE
    BY <1>6, <2>3
  <2> QED
    BY <1>6, <2>4 DEF newfs_access
<1>7. CASE r.find = {FALSE} /\ \A x \in Numbers(dentry, U) : at[x] # path
  <2>1. ASSUME NEW ft \in FileType, <<path, ft>> \in live PROVE FALSE
    <3>1. PICK x \in Numbers(dentry, U) \ {0} : <<path, ft>> = <<at[x], kind[x]>>
      BY <1>5, <2>1
    <3>2. at[x] = path
      BY <3>1
    <3> QED
      BY <1>7, <3>2
  <2>2. there = FALSE
    BY <2>1
  <2>3. {FALSE} # {TRUE}
    OBVIOUS
  <2> QED
    BY <1>7, <2>2, <2>3 DEF newfs_access
<1> QED
  BY <1>4, <1>6, <1>7 DEF Ends
-------------------------------------------------------------------------------
\* Two inodes of the memory at one place are one.
LEMMA OneInode ==
    ASSUME NEW D, NEW I, NEW c, MemoryType(D, I, c), NEW C, NEW U, NEW mi, NEW md,
           Linked(D, I, C, U, mi, md), NEW at, NEW kind, NEW T,
           Named(at, kind, D, I, C, U, T),
           NEW i \in DOMAIN I, NEW j \in DOMAIN I, at[I[i].ino] = at[I[j].ino]
    PROVE  i = j
<1>1. NumbersOnce(D) /\ Paired(D, I, md)
  BY DEF Linked
<1>2. \A x, y \in Numbers(D, U) : at[x] = at[y] => x = y
  BY DEF Named, Labelled
<1>3. \A k \in {i, j} : /\ I[k].dentry \in DOMAIN D /\ D[I[k].dentry].inode = k
                        /\ D[I[k].dentry].ino = I[k].ino
  BY <1>1 DEF MemoryType, Paired
<1>4. I[i].ino \in Numbers(D, U) /\ I[j].ino \in Numbers(D, U)
  BY <1>3 DEF Numbers
<1>5. I[i].ino = I[j].ino
  BY <1>2, <1>4
<1>6. I[i].dentry = I[j].dentry
  BY <1>1, <1>3, <1>5 DEF NumbersOnce
<1> QED
  BY <1>3, <1>6

(***************************************************************************)
(* The memory m after a lookup that ended at dentry d: with the disk it    *)
(* holds the tree T still, every number at its place.                      *)
(***************************************************************************)
Ready(at, kind, V, mi, md, T, l, m, d) ==
    /\ Stored(disk.cell, V, mi, md) /\ Linked(m.dentry, m.inode, disk.cell, V, mi, md)
    /\ Named(at, kind, m.dentry, m.inode, disk.cell, V, T)
    /\ Underway(at, m.dentry, m.inode, l)
    /\ m.dentry[d].ino = dentry[d].ino /\ m.dentry[d].file_type = dentry[d].file_type

\* The fetch of a lookup succeeds, and nothing changes its place by it.
LEMMA FetchReady ==
    ASSUME TypeOK, NEW d \in DOMAIN dentry, NEW U \in SUBSET Bit, NEW mi, NEW md,
           Stored(disk.cell, U, mi, md), Linked(dentry, inode, disk.cell, U, mi, md),
           NEW at, NEW kind, NEW T, Named(at, kind, dentry, inode, disk.cell, U, T),
           NEW l, Underway(at, dentry, inode, l), NEW m, m = Fetch(d)
    PROVE  ~m.confused /\ \E V \in SUBSET Bit : Ready(at, kind, V, mi, md, T, l, m, d)
<1>1. CASE dentry[d].inode # NULL
  <2>1. m.dentry = dentry /\ m.inode = inode /\ ~m.confused
    BY <1>1 DEF Fetch, Memory
  <2>2. Ready(at, kind, U, mi, md, T, l, m, d)
    BY <2>1 DEF Ready
  <2> QED
    BY <2>1, <2>2
<1>2. CASE dentry[d].inode = NULL
  <2> PICK n : n = ChildCount(dentry[d])
    OBVIOUS
  <2> PICK x : x = dentry[d].ino
    OBVIOUS
  <2> PICK new : new = Len(inode) + 1
    OBVIOUS
  <2> PICK N : N = Len(dentry)
    OBVIOUS
  <2>1. Source(dentry[d], disk.cell, U, x, n)
    <3>1. dentry[d].ino \in U /\ Fits(dentry[d], disk.cell)
      BY <1>2 DEF Linked, Placed
    <3> QED
      BY <3>1, FetchSource
  <2>2. m = read_inode(d) /\ Readable(dentry[d])
    BY <1>2, <2>1 DEF Fetch, Source
  <2>3. ReadWell(m, d, n, new, N)
    BY <2>2, ReadResult
  <2>4. ~m.confused /\ m.dentry[d] = [dentry[d] EXCEPT !.inode = new]
    BY <2>3 DEF ReadWell
  <2>5. m.dentry[d].ino = dentry[d].ino /\ m.dentry[d].file_type = dentry[d].file_type
    BY <2>4, DentryFields DEF Dentry
  <2>6. /\ Stored(disk.cell, U \ {x}, mi, md)
        /\ Linked(m.dentry, m.inode, disk.cell, U \ {x}, mi, md)
    BY <1>2, <2>1, <2>3, FetchLinked
  <2>7. /\ Named(at, kind, m.dentry, m.inode, disk.cell, U \ {x}, T)
        /\ Underway(at, m.dentry, m.inode, l)
    BY <1>2, <2>1, <2>3, FetchNamed
  <2>8. Ready(at, kind, U \ {x}, mi, md, T, l, m, d)
    BY <2>5, <2>6, <2>7 DEF Ready
  <2>9. U \ {x} \in SUBSET Bit
    OBVIOUS
  <2> QED
    BY <2>4, <2>8, <2>9
<1> QED
  BY <1>1, <1>2

\* A step of a mounted file system that leaves the disk alone.
LEMMA ServedTree ==
    ASSUME TreeInv, ShapeInv', pc = "mounted", UNCHANGED <<disk, pc, durable>>,
           spoilt' = {} => spoilt = {}, NEW m, Remember(m),
           spoilt' = {} => HoldsTree(m.dentry, m.inode, disk.cell, super'.map_inode,
                                     super'.map_data, live', ls')
    PROVE  TreeInv'
<1>1. dentry' = m.dentry /\ inode' = m.inode
  BY DEF Remember
<1>2. MemoryTree'
  BY <1>1 DEF MemoryTree
<1>3. DiskTree'
  <2>1. pc \notin Destroying
    BY DEF Destroying
  <2> QED
    BY <2>1 DEF TreeInv, DiskTree
<1>4. HistoryOk'
  BY DEF TreeInv, HistoryOk
<1> QED
  BY <1>2, <1>3, <1>4 DEF TreeInv

\* getattr leaves the tree as it is.
LEMMA GetattrTree ==
    ASSUME TreeInv, ShapeInv', NEW path \in Path, newfs_getattr(path)
    PROVE  TreeInv'
<1> PICK d : d = lookup(path).ret
  OBVIOUS
<1> PICK m : m = Fetch(d)
  OBVIOUS
<1>1. /\ Serving(path) /\ Remember(m)
      /\ UNCHANGED <<super, disk, pc, work, ls, spoilt, live, durable, made>>
  BY DEF newfs_getattr
<1>2. TypeOK /\ pc = "mounted" /\ d \in DOMAIN dentry
  BY <1>1, ServingFacts DEF TreeInv, ShapeInv
<1> PICK mi : mi = super.map_inode
  OBVIOUS
<1> PICK md : md = super.map_data
  OBVIOUS
<1>3. ASSUME spoilt = {}
      PROVE  HoldsTree(m.dentry, m.inode, disk.cell, mi, md, live, ls)
  <2>1. PICK U \in SUBSET Bit : \E at, kind :
           /\ Stored(disk.cell, U, mi, md) /\ Linked(dentry, inode, disk.cell, U, mi, md)
           /\ Named(at, kind, dentry, inode, disk.cell, U, live) /\ Underway(at, dentry, inode, ls)
    BY <1>2, <1>3, MountedHolds
  <2>2. PICK at, kind :
           /\ Stored(disk.cell, U, mi, md) /\ Linked(dentry, inode, disk.cell, U, mi, md)
           /\ Named(at, kind, dentry, inode, disk.cell, U, live) /\ Underway(at, dentry, inode, ls)
    BY <2>1
  <2>3. PICK V \in SUBSET Bit : Ready(at, kind, V, mi, md, live, ls, m, d)
    BY <1>2, <2>2, FetchReady
  <2> QED
    BY <2>3 DEF Ready, HoldsTree
<1> QED
  BY <1>1, <1>2, <1>3, ServedTree

\* What a listing c still has to return is in the list of inode p, behind its offset.
Listed(m, p, c) ==
    /\ p \in DOMAIN m.inode
    /\ \A n \in c.had : n \in c.seen \/ ToCome(m.dentry, m.inode[p], c, n)

(***************************************************************************)
(* A call of readdir is about the inode at its path, and the listing it    *)
(* starts or goes on with has its names there: a new one because what is   *)
(* loaded is loaded with all its dentries.                                 *)
(***************************************************************************)
LEMMA ReaddirReady ==
    ASSUME NamesApart, TreeInv, spoilt = {}, NEW path \in Where, newfs_readdir(path),
           NEW d, d = lookup(path).ret, NEW m, m = Fetch(d), NEW p, p = m.dentry[d].inode
    PROVE  /\ ~m.confused
           /\ \E V \in SUBSET Bit : \E at, kind :
                 /\ Ready(at, kind, V, super.map_inode, super.map_data, live, ls, m, d)
                 /\ at[m.inode[p].ino] = path /\ Listed(m, p, Cursor(path))
<1>p. PICK mi : mi = super.map_inode
  OBVIOUS
<1>q. PICK md : md = super.map_data
  OBVIOUS
<1>r. PICK r : r = lookup(path)
  OBVIOUS
<1>s. PICK c : c = Cursor(path)
  OBVIOUS
<1>1. Serving(path) /\ (ls.on => path = ls.path) /\ TRUE \in r.find
  BY <1>p, <1>q, <1>r, <1>s DEF newfs_readdir
<1>2. /\ TypeOK /\ pc = "mounted" /\ RootOk(dentry, inode) /\ d \in DOMAIN dentry
      /\ Fetched(d, m) /\ Reachable(path)
  BY <1>1, ServingFacts DEF TreeInv, ShapeInv, Serving, Where
<1>3. PICK U \in SUBSET Bit : \E at, kind :
         /\ Stored(disk.cell, U, mi, md) /\ Linked(dentry, inode, disk.cell, U, mi, md)
         /\ Named(at, kind, dentry, inode, disk.cell, U, live) /\ Underway(at, dentry, inode, ls)
  BY <1>p, <1>q, <1>r, <1>s, <1>2, MountedHolds
<1>4. PICK at, kind :
         /\ Stored(disk.cell, U, mi, md) /\ Linked(dentry, inode, disk.cell, U, mi, md)
         /\ Named(at, kind, dentry, inode, disk.cell, U, live) /\ Underway(at, dentry, inode, ls)
  BY <1>3
<1>5. at[dentry[d].ino] = path
  <2>1. Ends(at, U, r, path)
    BY <1>p, <1>q, <1>r, <1>s, <1>2, <1>4, LookupPlaced
  <2> QED
    BY <1>p, <1>q, <1>r, <1>s, <1>1, <2>1 DEF Ends
<1>6. ~m.confused
  BY <1>2, <1>4, FetchReady
<1>7. PICK V \in SUBSET Bit : Ready(at, kind, V, mi, md, live, ls, m, d)
  BY <1>2, <1>4, FetchReady
<1>t. PICK D : D = m.dentry
  OBVIOUS
<1>u. PICK I : I = m.inode
  OBVIOUS
<1>v. PICK C : C = disk.cell
  OBVIOUS
<1>8. /\ Stored(C, V, mi, md) /\ Linked(D, I, C, V, mi, md)
      /\ Named(at, kind, D, I, C, V, live) /\ Underway(at, D, I, ls) /\ D[d].ino = dentry[d].ino
  BY <1>p, <1>q, <1>r, <1>s, <1>t, <1>u, <1>v, <1>7 DEF Ready
<1>9. /\ d \in DOMAIN D /\ p \in DOMAIN I /\ p # NULL /\ MemoryType(D, I, made)
  <2>1. d \in DOMAIN D /\ p \in DOMAIN I /\ MemoryType(D, I, made)
    BY <1>p, <1>q, <1>r, <1>s, <1>t, <1>u, <1>v, <1>2, <1>6 DEF Fetched
  <2>2. I \in Seq(Inode)
    BY <2>1 DEF MemoryType
  <2> QED
    BY <2>1, <2>2, LenProperties DEF NULL
<1>10. I[p].ino = D[d].ino
  <2>1. I[p].dentry = d /\ D[I[p].dentry].ino = I[p].ino
    BY <1>p, <1>q, <1>r, <1>s, <1>t, <1>u, <1>v, <1>8, <1>9 DEF Linked, Paired
  <2> QED
    BY ONLY <2>1
<1>11. at[I[p].ino] = path
  BY <1>5, <1>8, <1>10
<1>12. ASSUME NEW n \in c.had PROVE n \in c.seen \/ ToCome(D, I[p], c, n)
  <2>1. CASE ls.on
    <3>1. c = ls /\ path = ls.path
      BY <1>p, <1>q, <1>r, <1>s, <1>t, <1>u, <1>v, <1>1, <2>1 DEF Cursor
    <3>2. PICK i \in DOMAIN I : /\ at[I[i].ino] = ls.path
                                /\ \A w \in ls.had : w \in ls.seen \/ ToCome(D, I[i], ls, w)
      BY ONLY <1>8, <2>1 DEF Underway
    <3>3. at[I[i].ino] = at[I[p].ino]
      BY <1>11, <3>1, <3>2
    <3>4. i = p
      BY ONLY <1>8, <1>9, <3>3, OneInode
    <3> QED
      BY <3>1, <3>2, <3>4
  <2>2. CASE ~ls.on
    <3>1. c.offset = 0 /\ c.had = Promised(path)
      BY <1>p, <1>q, <1>r, <1>s, <1>t, <1>u, <1>v, <2>2 DEF Cursor, NoListing
    <3>2. n \in Name /\ \E ft \in FileType : <<Append(path, n), ft>> \in live
      BY <3>1 DEF Promised
    <3>p. PICK q : q = Append(path, n)
      OBVIOUS
    <3>3. PICK ft \in FileType : <<q, ft>> \in live
      BY <1>p, <1>q, <1>r, <1>s, <1>t, <1>u, <1>v, <3>p, <3>2
    <3>4. PICK x \in Numbers(D, V) \ {0} : <<q, ft>> = <<at[x], kind[x]>>
      BY <1>8, <3>3 DEF Named
    <3>5. at[x] = Append(at[I[p].ino], n)
      BY <1>p, <1>q, <1>r, <1>s, <1>t, <1>u, <1>v, <3>p, <1>11, <3>4
    <3>6. \E k \in DOMAIN I[p].dentries :
             /\ I[p].dentries[k] \in DOMAIN D \ {Root}
             /\ D[I[p].dentries[k]].ino = x /\ D[I[p].dentries[k]].name = n
      <4>1. x \in Numbers(D, V)
        BY ONLY <3>4
      <4> QED
        BY ONLY <1>8, <1>9, <3>2, <3>5, <4>1, ChildFound, SMTT(30)
    <3>7. PICK k \in DOMAIN I[p].dentries : D[I[p].dentries[k]].name = n
      BY ONLY <3>6
    <3>8. k > 0
      <4>1. I \in Seq(Inode)
        BY <1>9 DEF MemoryType
      <4>2. I[p] \in Inode
        BY <1>9, <4>1, LenProperties, ElementOfSeq
      <4>3. I[p].dentries \in Seq(Nat \ {0})
        BY <4>2 DEF Inode
      <4>4. DOMAIN I[p].dentries = 1 .. Len(I[p].dentries) /\ Len(I[p].dentries) \in Nat
        BY <4>3, LenProperties
      <4>5. k \in 1 .. Len(I[p].dentries)
        BY <4>4
      <4> QED
        BY <4>4, <4>5
    <3> QED
      BY ONLY <3>1, <3>7, <3>8 DEF ToCome
  <2> QED
    BY <2>1, <2>2
<1>13. Listed(m, p, Cursor(path))
  BY <1>p, <1>q, <1>r, <1>s, <1>t, <1>u, <1>v, <1>9, <1>12 DEF Listed
<1> QED
  BY ONLY <1>p, <1>q, <1>r, <1>s, <1>t, <1>u, <1>v, <1>6, <1>7, <1>11, <1>13

(***************************************************************************)
(* The call returns the dentry at the offset; when there is none, nothing  *)
(* was left to return.                                                     *)
(***************************************************************************)
LEMMA Advanced ==
    ASSUME NEW m \in MemoryRecord, NEW p, NEW c, Listed(m, p, c), c.offset \in Nat,
           NEW sub, sub = get_dentry(m, p, c.offset)
    PROVE  /\ sub = {} => c.had \subseteq c.seen
           /\ sub # {} => \A l : /\ l.had = c.had /\ l.seen = c.seen \cup sub
                                 /\ l.offset = c.offset + 1
                                 => Listed(m, p, l)
<1>p. PICK s : s = m.inode[p].dentries
  OBVIOUS
<1>q. PICK o : o = c.offset
  OBVIOUS
<1>r. PICK len : len = Len(s)
  OBVIOUS
<1>1. len \in Nat /\ DOMAIN s = 1 .. len
  <2>1. p \in DOMAIN m.inode /\ m.inode \in Seq(Inode)
    BY DEF Listed, MemoryRecord
  <2>2. m.inode[p] \in Inode
    BY <2>1, LenProperties, ElementOfSeq
  <2>3. s \in Seq(Nat \ {0})
    BY <1>p, <1>q, <1>r, <2>2 DEF Inode
  <2> QED
    BY <1>p, <1>q, <1>r, <2>3, LenProperties
<1>2. sub = IF o < len THEN {m.dentry[s[o + 1]].name} ELSE {}
  BY <1>p, <1>q, <1>r DEF get_dentry
<1>3. ASSUME sub = {}, NEW n \in c.had PROVE n \in c.seen
  <2>1. ~(o < len)
    BY <1>2, <1>3
  <2>2. \A k \in DOMAIN s : ~(k > o)
    BY <1>p, <1>q, <1>r, <1>1, <2>1
  <2> QED
    BY <1>p, <1>q, <1>r, <2>2 DEF Listed, ToCome
<1>4. ASSUME sub # {}, NEW l, l.had = c.had, l.seen = c.seen \cup sub, l.offset = c.offset + 1
      PROVE  Listed(m, p, l)
  <2>1. sub = {m.dentry[s[o + 1]].name}
    BY <1>2, <1>4
  <2>2. ASSUME NEW n \in l.had, n \notin l.seen PROVE ToCome(m.dentry, m.inode[p], l, n)
    <3>1. n \in c.had /\ n \notin c.seen /\ n # m.dentry[s[o + 1]].name
      BY ONLY <1>4, <2>1, <2>2
    <3>2. PICK k \in DOMAIN s : k > o /\ m.dentry[s[k]].name = n
      BY <1>p, <1>q, <1>r, <3>1 DEF Listed, ToCome
    <3>3. k # o + 1
      BY <3>1, <3>2
    <3>4. k > l.offset
      BY <1>p, <1>q, <1>r, <1>1, <1>4, <3>2, <3>3
    <3> QED
      BY <1>p, <1>q, <1>r, <3>2, <3>4 DEF ToCome
  <2> QED
    BY <2>2 DEF Listed
<1> QED
  BY <1>3, <1>4

\* readdir leaves the tree as it is, and its listing on its way.
LEMMA ReaddirTree ==
    ASSUME NamesApart, TreeInv, ShapeInv', NEW path \in Where, newfs_readdir(path)
    PROVE  TreeInv'
<1>p. PICK d : d = lookup(path).ret
  OBVIOUS
<1>q. PICK m : m = Fetch(d)
  OBVIOUS
<1>r. PICK p : p = m.dentry[d].inode
  OBVIOUS
<1>s. PICK c : c = Cursor(path)
  OBVIOUS
<1>t. PICK sub : sub = get_dentry(m, p, c.offset)
  OBVIOUS
<1>1. /\ Serving(path) /\ Remember(m) /\ (ls.on => path = ls.path)
      /\ ls' = (IF m.confused \/ sub = {} THEN NoListing
                ELSE [c EXCEPT !.offset = @ + 1, !.seen = @ \cup sub])
      /\ UNCHANGED <<super, disk, pc, work, spoilt, live, durable, made>>
  BY <1>p, <1>q, <1>r, <1>s, <1>t DEF newfs_readdir
<1>2. TypeOK /\ pc = "mounted" /\ Fetched(d, m) /\ path \in Path \cup {<<>>}
  BY <1>p, <1>q, <1>r, <1>s, <1>t, <1>1, ServingFacts DEF TreeInv, ShapeInv, Where
<1>u. PICK mi : mi = super.map_inode
  OBVIOUS
<1>v. PICK md : md = super.map_data
  OBVIOUS
<1>3. ASSUME spoilt = {}
      PROVE  HoldsTree(m.dentry, m.inode, disk.cell, mi, md, live, ls')
  <2>1. /\ ~m.confused
        /\ \E V \in SUBSET Bit : \E at, kind :
              /\ Ready(at, kind, V, mi, md, live, ls, m, d)
              /\ at[m.inode[p].ino] = path /\ Listed(m, p, c)
    <3>1. /\ ~m.confused
          /\ \E V \in SUBSET Bit : \E at, kind :
                /\ Ready(at, kind, V, super.map_inode, super.map_data, live, ls, m, d)
                /\ at[m.inode[p].ino] = path /\ Listed(m, p, Cursor(path))
      BY <1>p, <1>q, <1>r, <1>3, ReaddirReady
    <3> QED
      BY ONLY <1>s, <1>u, <1>v, <3>1
  <2>2. PICK V \in SUBSET Bit : \E at, kind :
              /\ Ready(at, kind, V, mi, md, live, ls, m, d)
              /\ at[m.inode[p].ino] = path /\ Listed(m, p, c)
    BY <2>1
  <2>3. PICK at, kind : /\ Ready(at, kind, V, mi, md, live, ls, m, d)
                        /\ at[m.inode[p].ino] = path /\ Listed(m, p, c)
    BY <2>2
  <2>4. Underway(at, m.dentry, m.inode, ls')
    <3>1. CASE sub = {}
      <4>1. ls' = NoListing
        BY <1>1, <3>1
      <4> QED
        BY <4>1 DEF Underway, NoListing
    <3>2. CASE sub # {}
      <4>1. ls' = [c EXCEPT !.offset = @ + 1, !.seen = @ \cup sub]
        BY <1>1, <2>1, <3>2
      <4>2. c \in ListingType(made) /\ c.path = path
        <5>1. ls \in ListingType(made) /\ made \in Nat /\ live \subseteq Path \X FileType
          BY <1>2, Parts
        <5>2. Promised(path) \subseteq Name
          BY DEF Promised
        <5>3. CASE ls.on
          BY <1>p, <1>q, <1>r, <1>s, <1>t, <1>u, <1>v, <1>1, <5>1, <5>3 DEF Cursor
        <5>4. CASE ~ls.on
          <6>1. c = [on |-> TRUE, path |-> path, offset |-> 0, had |-> Promised(path),
                     seen |-> {}]
            BY <1>p, <1>q, <1>r, <1>s, <1>t, <1>u, <1>v, <5>4 DEF Cursor, NoListing
          <6> QED
            BY <1>2, <5>1, <5>2, <6>1 DEF ListingType
        <5> QED
          BY <5>3, <5>4
      <4>3. /\ ls'.had = c.had /\ ls'.seen = c.seen \cup sub /\ ls'.offset = c.offset + 1
            /\ ls'.path = path /\ c.offset \in Nat
        BY <4>1, <4>2 DEF ListingType
      <4>4. m \in MemoryRecord
        BY ONLY <1>2 DEF Fetched
      <4>5. Listed(m, p, ls')
        BY <1>p, <1>q, <1>r, <1>s, <1>t, <1>u, <1>v, <2>3, <3>2, <4>3, <4>4, Advanced
      <4> QED
        BY <2>3, <4>3, <4>5 DEF Listed, Underway
    <3> QED
      BY <3>1, <3>2
  <2> QED
    BY ONLY <2>3, <2>4 DEF Ready, HoldsTree
<1> QED
  BY <1>p, <1>q, <1>r, <1>s, <1>t, <1>u, <1>v, <1>1, <1>2, <1>3, ServedTree
-------------------------------------------------------------------------------
(***************************************************************************)
(* mkdir and mknod put one more path in the tree: lookup has ended at the  *)
(* loaded directory above it, and no number has its place yet.             *)
(***************************************************************************)
LEMMA CreateTree ==
    ASSUME NamesApart, TreeInv, ShapeInv', NEW path \in Path, NEW ft \in FileType,
           Create(path, ft)
    PROVE  TreeInv'
<1>p. PICK r : r = lookup(path)
  OBVIOUS
<1>q. PICK d : d = r.ret
  OBVIOUS
<1>r. PICK m : m = Fetch(d)
  OBVIOUS
<1>s. PICK p : p = m.dentry[d].inode
  OBVIOUS
<1>1. Serving(path) /\ made < MaxMade /\ FALSE \in r.find /\ UNCHANGED <<disk, pc, work, ls, durable>>
  BY <1>p, <1>q, <1>r, <1>s DEF Create
<1>2. IF m.confused THEN Remember(m) /\ UNCHANGED <<super, live, made, spoilt>>
      ELSE Make(path, m, p, ft)
  BY <1>p, <1>q, <1>r, <1>s DEF Create
<1>3. /\ TypeOK /\ pc = "mounted" /\ d \in DOMAIN dentry /\ Fetched(d, m)
      /\ RootOk(dentry, inode) /\ Reachable(path)
  BY <1>p, <1>q, <1>r, <1>s, <1>1, ServingFacts DEF TreeInv, ShapeInv, Serving
<1>t. PICK mi : mi = super.map_inode
  OBVIOUS
<1>u. PICK md : md = super.map_data
  OBVIOUS
<1>v. PICK C : C = disk.cell
  OBVIOUS
<1>4. ASSUME spoilt = {}
      PROVE  \E U \in SUBSET Bit : \E at, kind :
                /\ Stored(C, U, mi, md) /\ Linked(dentry, inode, C, U, mi, md)
                /\ Named(at, kind, dentry, inode, C, U, live) /\ Underway(at, dentry, inode, ls)
                /\ Ends(at, U, r, path)
  <2>1. PICK U \in SUBSET Bit : \E at, kind :
           /\ Stored(C, U, mi, md) /\ Linked(dentry, inode, C, U, mi, md)
           /\ Named(at, kind, dentry, inode, C, U, live) /\ Underway(at, dentry, inode, ls)
    BY <1>p, <1>q, <1>r, <1>s, <1>t, <1>u, <1>v, <1>3, <1>4, MountedHolds
  <2>2. PICK at, kind :
           /\ Stored(C, U, mi, md) /\ Linked(dentry, inode, C, U, mi, md)
           /\ Named(at, kind, dentry, inode, C, U, live) /\ Underway(at, dentry, inode, ls)
    BY <2>1
  <2>3. path \in Where
    BY DEF Where
  <2>4. Ends(at, U, r, path)
    BY <1>p, <1>q, <1>r, <1>s, <1>t, <1>u, <1>v, <1>3, <2>2, <2>3, LookupPlaced
  <2> QED
    BY <2>2, <2>4
<1>5. spoilt = {} => m = Memory /\ dentry[d].inode # NULL
  <2> SUFFICES ASSUME spoilt = {} PROVE m = Memory /\ dentry[d].inode # NULL
    OBVIOUS
  <2>1. dentry[d].inode # NULL
    BY <1>p, <1>q, <1>r, <1>s, <1>t, <1>u, <1>v, <1>1, <1>4 DEF Ends
  <2> QED
    BY <1>p, <1>q, <1>r, <1>s, <1>t, <1>u, <1>v, <2>1 DEF Fetch
<1>6. CASE m.confused
  <2>1. spoilt # {}
    BY <1>5, <1>6 DEF Memory
  <2> QED
    BY <1>1, <1>2, <1>3, <1>6, <2>1, ServedTree
<1>7. CASE ~m.confused
  <2>1. PICK a \in allocate_inode(super, ft) :
           /\ super' = a.super
           /\ Remember(allocate_dentry(m, p, Last(path), ft, a))
           /\ live' = live \cup {<<path, ft>>}
           /\ spoilt' = spoilt \cup (IF Outside(a, ft) THEN {"outside"} ELSE {})
                               \cup (IF m.inode[p].dir_dentry_cnt >= Cells THEN {"overfull"} ELSE {})
    BY <1>2, <1>7 DEF Make
  <2>p. PICK name : name = Last(path)
    OBVIOUS
  <2>q. PICK m2 : m2 = allocate_dentry(m, p, name, ft, a)
    OBVIOUS
  <2>r. PICK e : e = Len(m.dentry) + 1
    OBVIOUS
  <2>s. PICK new : new = Len(m.inode) + 1
    OBVIOUS
  <2>2. /\ m \in MemoryRecord /\ MemoryType(m.dentry, m.inode, made)
        /\ p \in DOMAIN m.inode /\ name \in Name
    BY <1>p, <1>q, <1>r, <1>s, <1>t, <1>u, <1>v, <2>p, <2>q, <2>r, <2>s, <1>3, <1>7, PathType DEF Fetched
  <2>3. super \in SuperType /\ made \in Nat /\ ls.offset \in Nat
    <3>1. super \in SuperType /\ made \in Nat /\ ls \in ListingType(made)
      BY <1>3, Parts
    <3> QED
      BY <3>1 DEF ListingType
  <2>4. a.ino \in BlockNo /\ a.block \in BlockNo
    BY <2>3, AllocResult
  <2>5. MadeWell(m, m2, p, name, ft, a, e, new)
    BY <1>p, <1>q, <1>r, <1>s, <1>t, <1>u, <1>v, <2>p, <2>q, <2>r, <2>s, <1>1, <2>2, <2>3, <2>4, MadeResult
  <2>t. PICK mi2 : mi2 = a.super.map_inode
    OBVIOUS
  <2>u. PICK md2 : md2 = a.super.map_data
    OBVIOUS
  <2>6. ASSUME spoilt' = {}
        PROVE  HoldsTree(m2.dentry, m2.inode, C, mi2, md2, live', ls)
    <3>1. spoilt = {} /\ ~Outside(a, ft) /\ ~(m.inode[p].dir_dentry_cnt >= Cells)
      BY <2>1, <2>6
    <3>2. m.inode[p].dir_dentry_cnt < Cells
      <4>1. m.inode \in Seq(Inode)
        BY <2>2 DEF MemoryType
      <4>2. m.inode[p] \in Inode
        BY <2>2, <4>1, LenProperties, ElementOfSeq
      <4>3. m.inode[p].dir_dentry_cnt \in Nat
        BY <4>2 DEF Inode
      <4> QED
        BY <3>1, <4>3
    <3>3. /\ a.ino \in Ino /\ a.ino \notin mi /\ a.ino \in mi2
          /\ ft = "NFS_DIR" => a.block \in Block /\ a.block \notin md /\ a.block \in md2
          /\ ft # "NFS_DIR" => a.block = None
          /\ mi \subseteq mi2 /\ md \subseteq md2
      BY <1>p, <1>q, <1>r, <1>s, <1>t, <1>u, <1>v, <2>p, <2>q, <2>r, <2>s, <2>t, <2>u, <2>3, <3>1, Inside
    <3>4. m.dentry = dentry /\ m.inode = inode /\ dentry[d].inode # NULL
      BY <1>5, <3>1 DEF Memory
    <3>5. PICK U \in SUBSET Bit : \E at, kind :
             /\ Stored(C, U, mi, md) /\ Linked(dentry, inode, C, U, mi, md)
             /\ Named(at, kind, dentry, inode, C, U, live) /\ Underway(at, dentry, inode, ls)
             /\ Ends(at, U, r, path)
      BY <1>4, <3>1
    <3>6. PICK at, kind :
             /\ Stored(C, U, mi, md) /\ Linked(dentry, inode, C, U, mi, md)
             /\ Named(at, kind, dentry, inode, C, U, live) /\ Underway(at, dentry, inode, ls)
             /\ Ends(at, U, r, path)
      BY <3>5
    <3>7. /\ dentry[d].file_type = "NFS_DIR" /\ path = Append(at[dentry[d].ino], name)
          /\ \A x \in Numbers(dentry, U) : at[x] # path
      BY <1>p, <1>q, <1>r, <1>s, <1>t, <1>u, <1>v, <2>p, <2>q, <2>r, <2>s, <2>t, <2>u, <1>1, <3>6 DEF Ends
    <3>8. inode[p].dentry = d /\ inode[p].ino = dentry[d].ino
      <4>1. Paired(dentry, inode, md) /\ p = dentry[d].inode /\ p \in DOMAIN inode
        BY <1>p, <1>q, <1>r, <1>s, <1>t, <1>u, <1>v, <2>p, <2>q, <2>r, <2>s, <2>t, <2>u, <2>2, <3>4, <3>6 DEF Linked
      <4>2. inode[p].dentry = d
        BY <1>3, <3>4, <4>1 DEF Paired
      <4>3. dentry[inode[p].dentry].ino = inode[p].ino
        BY ONLY <4>1 DEF Paired
      <4> QED
        BY <4>2, <4>3
    <3>9. Stored(C, U, mi2, md2) /\ Linked(m2.dentry, m2.inode, C, U, mi2, md2)
      <4>1. Linked(m.dentry, m.inode, C, U, mi, md)
        BY <3>4, <3>6
      <4> QED
        BY <1>p, <1>q, <1>r, <1>s, <1>t, <1>u, <1>v, <2>p, <2>q, <2>r, <2>s, <2>t, <2>u, <1>1, <2>2, <2>3, <2>5, <3>2, <3>3, <3>6, <4>1, MakeLinked
    <3>10. /\ Stored(C, U, mi, md) /\ Linked(m.dentry, m.inode, C, U, mi, md)
           /\ Named(at, kind, m.dentry, m.inode, C, U, live)
           /\ Underway(at, m.dentry, m.inode, ls)
           /\ m.dentry[m.inode[p].dentry].file_type = "NFS_DIR"
           /\ path = Append(at[m.inode[p].ino], name)
           /\ \A x \in Numbers(m.dentry, U) : at[x] # path
      BY <3>4, <3>6, <3>7, <3>8
    <3>11. a.ino \in Ino /\ a.ino \notin mi
      BY <3>3
    <3>12. made < MaxMade
      BY <1>1
    <3>p. PICK T : T = live
      OBVIOUS
    <3>q. PICK l : l = ls
      OBVIOUS
    <3>13. /\ Stored(C, U, mi, md) /\ Linked(m.dentry, m.inode, C, U, mi, md)
           /\ Named(at, kind, m.dentry, m.inode, C, U, T)
           /\ l.offset \in Nat /\ Underway(at, m.dentry, m.inode, l)
           /\ m.dentry[m.inode[p].dentry].file_type = "NFS_DIR"
           /\ path = Append(at[m.inode[p].ino], name)
           /\ \A x \in Numbers(m.dentry, U) : at[x] # path
      BY <1>p, <1>q, <1>r, <1>s, <1>t, <1>u, <1>v, <2>p, <2>q, <2>r, <2>s, <2>t, <2>u, <3>p, <3>q, <2>3, <3>10
    <3>14. SomeNamed(m2.dentry, m2.inode, C, U, T \cup {<<path, ft>>}, l)
      <4>1. /\ m \in MemoryRecord /\ made \in Nat /\ MemoryType(m.dentry, m.inode, made)
            /\ made < MaxMade /\ p \in DOMAIN m.inode /\ name \in Name /\ ft \in FileType
            /\ path \in Path /\ e = Len(m.dentry) + 1 /\ new = Len(m.inode) + 1
            /\ MadeWell(m, m2, p, name, ft, a, e, new)
        BY <1>p, <1>q, <1>r, <1>s, <1>t, <1>u, <1>v, <2>p, <2>q, <2>r, <2>s, <2>t, <2>u, <3>p, <3>q, <1>1, <2>2, <2>3, <2>5
      <4> QED
        BY ONLY <3>11, <3>13, <4>1, MakeNamed, ZenonT(60)
    <3> QED
      BY <1>p, <1>q, <1>r, <1>s, <1>t, <1>u, <1>v, <2>p, <2>q, <2>r, <2>s, <2>t, <2>u, <3>p, <3>q, <2>1, <3>9, <3>14 DEF HoldsTree, SomeNamed
  <2>7. Remember(m2) /\ (spoilt' = {} => spoilt = {})
    BY <1>p, <1>q, <1>r, <1>s, <1>t, <1>u, <1>v, <2>p, <2>q, <2>r, <2>s, <2>t, <2>u, <2>1
  <2>8. super'.map_inode = mi2 /\ super'.map_data = md2 /\ ls' = ls
    BY <1>p, <1>q, <1>r, <1>s, <1>t, <1>u, <1>v, <2>p, <2>q, <2>r, <2>s, <2>t, <2>u, <1>1, <2>1
  <2> QED
    BY <1>p, <1>q, <1>r, <1>s, <1>t, <1>u, <1>v, <2>p, <2>q, <2>r, <2>s, <2>t, <2>u, <1>1, <1>3, <2>6, <2>7, <2>8, ServedTree
<1> QED
  BY <1>6, <1>7
-------------------------------------------------------------------------------
\* A step after which newfs_destroy is not running.
LEMMA QuietTree ==
    ASSUME ShapeInv', pc' \notin Destroying, MemoryTree', HistoryOk',
           spoilt' = {} /\ disk'.magic =>
               SavedTree(disk'.cell, disk'.map_inode, disk'.map_data, durable')
    PROVE  TreeInv'
<1>1. DiskTree'
  BY DEF DiskTree
<1> QED
  BY <1>1 DEF TreeInv

\* A new disk holds the tree of nothing.
LEMMA NewTree ==
    ASSUME NEW C, C[INO_OFS(0)] = [type |-> "inode", ino |-> 0, dir_dentry_cnt |-> 0,
                                   data_block_no |-> 0]
    PROVE  SavedTree(C, {0}, {0}, {})
<1>1. Stored(C, {0}, {0}, {0}) /\ Linked(<<RootDentry>>, <<>>, C, {0}, {0}, {0})
  BY NewRoot
<1> PICK D : D = <<RootDentry>>
  OBVIOUS
<1> PICK I : I = <<>>
  OBVIOUS
<1>2. DOMAIN D = {1} /\ D[1].ino = 0 /\ D[1].file_type = "NFS_DIR" /\ DOMAIN I = {}
  BY DEF RootDentry
<1>3. Numbers(D, {0}) = {0}
  BY <1>2 DEF Numbers
<1> PICK at : at = [x \in {0} |-> <<>>]
  OBVIOUS
<1> PICK kind : kind = [x \in {0} |-> "NFS_DIR"]
  OBVIOUS
<1>4. /\ at \in [{0} -> Where] /\ kind \in [{0} -> FileType]
      /\ at[0] = <<>> /\ kind[0] = "NFS_DIR"
  BY DEF Where, FileType
<1>5. Labelled(at, kind, D, {0})
  BY <1>2, <1>3, <1>4 DEF Labelled
<1>6. Kids(C, 0) = {}
  <2>1. C[INO_OFS(0)].dir_dentry_cnt = 0
    OBVIOUS
  <2> QED
    BY <2>1 DEF Kids
<1>7. BelowLoaded(at, D, I) /\ BelowStored(at, kind, C, {0})
  BY <1>2, <1>6 DEF BelowLoaded, BelowStored
<1>8. Covered(D, I, C, {0})
  BY <1>3 DEF Covered
<1>9. Named(at, kind, D, I, C, {0}, {})
  BY <1>3, <1>5, <1>7, <1>8 DEF Named
<1>10. Underway(at, D, I, NoListing)
  BY DEF Underway, NoListing
<1>11. {0} \in SUBSET Bit
  BY DEF Bit
<1> QED
  BY <1>1, <1>9, <1>10, <1>11 DEF SavedTree, HoldsTree

\* What the disk alone holds is held by the memory after a mount, with any listing that is off.
LEMMA MountedTree ==
    ASSUME NEW C, NEW mi, NEW md, NEW T, SavedTree(C, mi, md, T), NEW l, ~l.on
    PROVE  HoldsTree(<<RootDentry>>, <<>>, C, mi, md, T, l)
  BY DEF SavedTree, HoldsTree, Underway

\* newfs_init on a new disk.
LEMMA FormatTree ==
    ASSUME TreeInv, ShapeInv', FormatNew
    PROVE  TreeInv'
<1>1. /\ disk'.cell[INO_OFS(0)] = [type |-> "inode", ino |-> 0, dir_dentry_cnt |-> 0,
                                   data_block_no |-> 0]
      /\ ~disk'.magic /\ super'.map_inode = {0} /\ super'.map_data = {0}
      /\ dentry' = <<RootDentry>> /\ inode' = <<>> /\ pc' = "read_root"
  BY FormatFacts DEF TreeInv, ShapeInv
<1>2. pc = "unmounted" /\ ~disk.magic /\ UNCHANGED <<ls, live, durable>>
  BY DEF FormatNew
<1>3. live = {} /\ durable = {} /\ ~ls.on
  BY <1>2 DEF TreeInv, HistoryOk
<1>4. SavedTree(disk'.cell, {0}, {0}, {})
  BY <1>1, NewTree
<1>5. HoldsTree(dentry', inode', disk'.cell, super'.map_inode, super'.map_data, live', ls')
  BY <1>1, <1>2, <1>3, <1>4, MountedTree
<1>6. MemoryTree'
  BY <1>5 DEF MemoryTree
<1>7. HistoryOk'
  BY <1>1, <1>2, <1>3 DEF HistoryOk
<1>8. pc' \notin Destroying
  BY <1>1 DEF Destroying
<1> QED
  BY <1>1, <1>6, <1>7, <1>8, QuietTree

\* newfs_init on a disk that has been in use.
LEMMA MountTree ==
    ASSUME TreeInv, ShapeInv', MountOld
    PROVE  TreeInv'
<1>1. /\ pc = "unmounted" /\ disk.magic /\ dentry' = <<RootDentry>> /\ pc' = "read_root"
      /\ super' = [NoSuper EXCEPT !.map_inode = disk.map_inode, !.map_data = disk.map_data]
      /\ UNCHANGED <<inode, disk, ls, spoilt, live, durable>>
  BY DEF MountOld
<1>2. inode' = <<>>
  BY <1>1 DEF TreeInv, ShapeInv, TypeInv, StageOk
<1>3. live = durable /\ ~ls.on
  BY <1>1 DEF TreeInv, HistoryOk
<1>4. super'.map_inode = disk.map_inode /\ super'.map_data = disk.map_data
  <2>1. NoSuper \in SuperType
    BY DEF NoSuper, SuperType
  <2> QED
    BY <1>1, <2>1 DEF SuperType
<1>5. pc \notin Destroying /\ pc' \notin Destroying
  BY <1>1 DEF Destroying
<1>6. spoilt = {} => SavedTree(disk.cell, disk.map_inode, disk.map_data, durable)
  BY <1>1, <1>5 DEF TreeInv, DiskTree
<1>7. ASSUME spoilt = {}
      PROVE  HoldsTree(dentry', inode', disk'.cell, super'.map_inode, super'.map_data, live', ls')
  BY <1>1, <1>2, <1>3, <1>4, <1>6, <1>7, MountedTree
<1>8. MemoryTree'
  BY <1>1, <1>7 DEF MemoryTree
<1>9. HistoryOk'
  BY <1>1, <1>3 DEF TreeInv, HistoryOk
<1>10. spoilt' = {} => SavedTree(disk'.cell, disk'.map_inode, disk'.map_data, durable')
  BY <1>1, <1>6
<1> QED
  BY <1>5, <1>8, <1>9, <1>10, QuietTree

\* The read of the root's inode.
LEMMA ReadRootTree ==
    ASSUME TreeInv, ShapeInv', ReadRoot
    PROVE  TreeInv'
<1> PICK m : m = read_inode(Root)
  OBVIOUS
<1>1. /\ pc = "read_root" /\ pc' = "mounted" /\ Remember(m)
      /\ UNCHANGED <<super, disk, ls, spoilt, live, durable>>
  BY DEF ReadRoot
<1>2. TypeOK /\ dentry = <<RootDentry>>
  BY <1>1 DEF TreeInv, ShapeInv, TypeInv, StageOk
<1>3. Root \in DOMAIN dentry /\ dentry[Root].inode = NULL
  BY <1>2 DEF Root, RootDentry
<1>4. m = Fetch(Root)
  BY <1>3 DEF Fetch
<1> PICK mi : mi = super.map_inode
  OBVIOUS
<1> PICK md : md = super.map_data
  OBVIOUS
<1> PICK r : r = Root
  OBVIOUS
<1>5. ASSUME spoilt = {}
      PROVE  HoldsTree(m.dentry, m.inode, disk.cell, mi, md, live, ls)
  <2>1. PICK U \in SUBSET Bit : \E at, kind :
           /\ Stored(disk.cell, U, mi, md) /\ Linked(dentry, inode, disk.cell, U, mi, md)
           /\ Named(at, kind, dentry, inode, disk.cell, U, live) /\ Underway(at, dentry, inode, ls)
    BY <1>1, <1>5, MountedHolds
  <2>2. PICK at, kind :
           /\ Stored(disk.cell, U, mi, md) /\ Linked(dentry, inode, disk.cell, U, mi, md)
           /\ Named(at, kind, dentry, inode, disk.cell, U, live) /\ Underway(at, dentry, inode, ls)
    BY <2>1
  <2>3. PICK V \in SUBSET Bit : Ready(at, kind, V, mi, md, live, ls, m, r)
    BY <1>2, <1>3, <1>4, <2>2, FetchReady
  <2> QED
    BY <2>3 DEF Ready, HoldsTree
<1>6. MemoryTree'
  BY <1>1, <1>5 DEF MemoryTree, Remember
<1>7. HistoryOk'
  BY <1>1 DEF TreeInv, HistoryOk
<1>8. pc \notin Destroying /\ pc' \notin Destroying
  BY <1>1 DEF Destroying
<1>9. spoilt' = {} /\ disk'.magic =>
          SavedTree(disk'.cell, disk'.map_inode, disk'.map_data, durable')
  BY <1>1, <1>8 DEF TreeInv, DiskTree
<1> QED
  BY <1>6, <1>7, <1>8, <1>9, QuietTree

\* Whatever the file system was doing, a crash leaves what the disk held.
LEMMA CrashTree ==
    ASSUME TreeInv, ShapeInv', Crash
    PROVE  TreeInv'
<1>1. /\ pc' = "unmounted" /\ disk' = disk /\ ls' = NoListing /\ live' = durable
      /\ durable' = durable
      /\ spoilt' = spoilt \cup (IF pc \in Destroying /\ disk.magic THEN {"torn"} ELSE {})
  BY DEF Crash, Exit
<1>2. pc' \notin Destroying /\ MemoryTree'
  BY <1>1 DEF Destroying, MemoryTree
<1>3. HistoryOk'
  BY <1>1 DEF TreeInv, HistoryOk, NoListing
<1>4. spoilt' = {} /\ disk'.magic =>
          SavedTree(disk'.cell, disk'.map_inode, disk'.map_data, durable')
  <2> SUFFICES ASSUME spoilt' = {}, disk.magic
               PROVE  SavedTree(disk.cell, disk.map_inode, disk.map_data, durable)
    BY <1>1
  <2>1. spoilt = {} /\ pc \notin Destroying
    BY <1>1
  <2> QED
    BY <2>1 DEF TreeInv, DiskTree
<1> QED
  BY <1>2, <1>3, <1>4, QuietTree

\* With the last write of newfs_destroy the tree in memory is the durable one.
LEMMA WriteMapDataTree ==
    ASSUME TreeInv, ShapeInv', WriteMapData
    PROVE  TreeInv'
<1>1. /\ pc = "map_data" /\ pc' = "unmounted" /\ ls' = NoListing
      /\ disk' = [disk EXCEPT !.map_data = super.map_data]
      /\ durable' = live /\ UNCHANGED <<spoilt, live>>
  BY DEF WriteMapData, Exit
<1>2. DiskType(disk, made)
  BY Parts DEF TreeInv, ShapeInv, TypeInv
<1>3. /\ disk'.cell = disk.cell /\ disk'.map_inode = disk.map_inode
      /\ disk'.map_data = super.map_data /\ disk'.magic = disk.magic
  BY <1>1, <1>2 DEF DiskType
<1>4. disk.map_inode = super.map_inode /\ disk.magic
  BY <1>1 DEF TreeInv, ShapeInv, TypeInv, StageOk
<1>5. pc \in Destroying \ {"sync"} /\ pc' \notin Destroying
  BY <1>1 DEF Destroying
<1>6. MemoryTree'
  BY <1>1 DEF MemoryTree
<1>7. HistoryOk'
  BY <1>1, <1>3, <1>4 DEF HistoryOk, NoListing
<1>8. spoilt = {} => SavedTree(disk.cell, super.map_inode, super.map_data, live)
  BY <1>5 DEF TreeInv, DiskTree
<1>9. spoilt' = {} => SavedTree(disk'.cell, disk'.map_inode, disk'.map_data, durable')
  BY <1>1, <1>3, <1>4, <1>8
<1> QED
  BY <1>5, <1>6, <1>7, <1>9, QuietTree

\* The super block and the first bitmap.
LEMMA WriteSuperTree ==
    ASSUME TreeInv, ShapeInv', WriteSuper \/ WriteMapInode
    PROVE  TreeInv'
<1>1. /\ pc \in Destroying \ {"sync"} /\ pc' \in Destroying \ {"sync"} /\ pc # "mounted"
      /\ pc' \in {"map_inode", "map_data"}
      /\ UNCHANGED <<super, spoilt, live, durable, ls>>
  BY DEF WriteSuper, WriteMapInode, Destroying
<1>2. disk'.cell = disk.cell /\ (disk.magic => disk'.magic)
  <2>1. DiskType(disk, made)
    BY Parts DEF TreeInv, ShapeInv, TypeInv
  <2> QED
    BY <2>1 DEF WriteSuper, WriteMapInode, DiskType
<1>3. MemoryTree'
  BY <1>1 DEF MemoryTree, Destroying
<1>4. DiskTree'
  BY <1>1, <1>2 DEF TreeInv, DiskTree
<1>5. HistoryOk'
  BY <1>1, <1>2 DEF TreeInv, HistoryOk
<1> QED
  BY <1>3, <1>4, <1>5 DEF TreeInv

\* newfs_destroy begins; no listing goes on.
LEMMA DestroyTree ==
    ASSUME TreeInv, ShapeInv', newfs_destroy
    PROVE  TreeInv'
<1>1. /\ pc = "mounted" /\ pc' = "sync" /\ ls' = NoListing
      /\ UNCHANGED <<dentry, inode, super, disk, spoilt, live, durable>>
  BY DEF newfs_destroy
<1>2. ASSUME spoilt = {}
      PROVE  HoldsTree(dentry, inode, disk.cell, super.map_inode, super.map_data, live, NoListing)
  <2>1. HoldsTree(dentry, inode, disk.cell, super.map_inode, super.map_data, live, ls)
    BY <1>1, <1>2 DEF TreeInv, MemoryTree
  <2> QED
    BY <2>1 DEF HoldsTree, Underway, NoListing
<1>3. MemoryTree'
  BY <1>1, <1>2 DEF MemoryTree
<1>4. DiskTree'
  BY <1>1 DEF DiskTree, Destroying
<1>5. HistoryOk'
  BY <1>1 DEF TreeInv, HistoryOk, NoListing
<1> QED
  BY <1>3, <1>4, <1>5 DEF TreeInv

\* What is not overwritten is below the same inodes as before.
LEMMA NamedSame ==
    ASSUME NEW C, NEW C2, NEW U, Same(C, C2, U), NEW at, NEW kind, NEW D, NEW I, NEW T,
           Named(at, kind, D, I, C, U, T)
    PROVE  Named(at, kind, D, I, C2, U, T)
<1>1. \A u \in U : Kids(C2, u) = Kids(C, u)
  BY DEF Same, Kids
<1>2. \A u \in U : \A k \in Kids(C, u) : Kid(C2, u, k) = Kid(C, u, k)
  BY DEF Same
<1>3. BelowStored(at, kind, C2, U)
  BY <1>1, <1>2 DEF Named, BelowStored
<1>4. Covered(D, I, C2, U)
  BY <1>1, <1>2 DEF Named, Covered
<1> QED
  BY <1>3, <1>4 DEF Named

\* A step of sync_inode.
LEMMA SyncTree ==
    ASSUME TreeInv, ShapeInv', sync_inode
    PROVE  TreeInv'
<1> PICK f : f = Head(work)
  OBVIOUS
<1> PICK i : i = f.inode
  OBVIOUS
<1> PICK k : k = f.next
  OBVIOUS
<1>1. TypeInv
  BY DEF TreeInv, ShapeInv
<1>2. /\ pc = "sync"
      /\ WriteInode(f) \/ WriteDentry(f) \/ Return(f)
      /\ UNCHANGED <<dentry, inode, super, pc, ls, spoilt, live, durable>>
  BY <1>1, SyncFacts
<1>3. disk'.magic = disk.magic
  BY <1>1, <1>2, SyncWrites DEF CellSet
<1> PICK mi : mi = super.map_inode
  OBVIOUS
<1> PICK md : md = super.map_data
  OBVIOUS
<1> PICK C : C = disk.cell
  OBVIOUS
<1> PICK C2 : C2 = disk'.cell
  OBVIOUS
<1>4. ASSUME spoilt = {}
      PROVE  HoldsTree(dentry, inode, C2, mi, md, live, ls)
  <2>1. PICK U \in SUBSET Bit : \E at, kind :
           /\ Stored(C, U, mi, md) /\ Linked(dentry, inode, C, U, mi, md)
           /\ Named(at, kind, dentry, inode, C, U, live) /\ Underway(at, dentry, inode, ls)
    BY <1>2, <1>4, MountedHolds
  <2>2. PICK at, kind :
           /\ Stored(C, U, mi, md) /\ Linked(dentry, inode, C, U, mi, md)
           /\ Named(at, kind, dentry, inode, C, U, live) /\ Underway(at, dentry, inode, ls)
    BY <2>1
  <2>3. Same(C, C2, U)
    BY <1>1, <2>2, SyncSame
  <2>4. Stored(C2, U, mi, md) /\ Linked(dentry, inode, C2, U, mi, md)
    BY <2>2, <2>3, Unread
  <2>5. Named(at, kind, dentry, inode, C2, U, live)
    BY <2>2, <2>3, NamedSame
  <2> QED
    BY <2>2, <2>4, <2>5 DEF HoldsTree
<1>5. MemoryTree'
  BY <1>2, <1>4 DEF MemoryTree
<1>6. DiskTree'
  BY <1>2 DEF DiskTree, Destroying
<1>7. HistoryOk'
  BY <1>2, <1>3 DEF TreeInv, HistoryOk
<1> QED
  BY <1>5, <1>6, <1>7 DEF TreeInv
-------------------------------------------------------------------------------
(***************************************************************************)
(* With nothing left to write every inode in memory is written: of those   *)
(* that are not, one that is nearest to the root would be listed in a      *)
(* directory whose dentries have been followed.                            *)
(***************************************************************************)
LEMMA AllWritten ==
    ASSUME TypeOK, RootOk(dentry, inode), NEW C, NEW U, NEW mi, NEW md,
           Linked(dentry, inode, C, U, mi, md),
           NEW at, NEW kind, NEW T, Named(at, kind, dentry, inode, C, U, T),
           NEW E \in SUBSET DOMAIN inode, Synced(C, {}, E)
    PROVE  E = DOMAIN inode
<1> SUFFICES ASSUME DOMAIN inode \ E # {} PROVE FALSE
  OBVIOUS
<1>1. /\ Placed(dentry, C, U, mi) /\ NumbersOnce(dentry) /\ NotBelow(dentry, C, U)
      /\ Paired(dentry, inode, md)
  BY DEF Linked
<1>2. /\ Labelled(at, kind, dentry, U) /\ BelowLoaded(at, dentry, inode)
      /\ Covered(dentry, inode, C, U)
  BY DEF Named
<1>3. ASSUME NEW i \in DOMAIN inode
      PROVE  /\ inode[i].dentry \in DOMAIN dentry /\ dentry[inode[i].dentry].inode = i
             /\ dentry[inode[i].dentry].ino = inode[i].ino
             /\ inode[i].ino \in Numbers(dentry, U) /\ at[inode[i].ino] \in Where
  <2>1. inode[i].dentry \in DOMAIN dentry
    BY InodeFields
  <2>2. dentry[inode[i].dentry].inode = i /\ dentry[inode[i].dentry].ino = inode[i].ino
    BY <1>1 DEF Paired
  <2>3. inode[i].ino \in Numbers(dentry, U)
    BY <2>1, <2>2 DEF Numbers
  <2> QED
    BY <1>2, <2>1, <2>2, <2>3 DEF Labelled
<1> PICK S : S = {Len(at[inode[i].ino]) : i \in DOMAIN inode \ E}
  OBVIOUS
<1>4. S \in SUBSET Nat /\ S # {}
  BY <1>3, WhereType
<1>5. PICK n \in S : \A s \in S : n <= s
  BY <1>4, Least
<1>6. PICK i \in DOMAIN inode \ E : n = Len(at[inode[i].ino])
  BY <1>5
<1> PICK x : x = inode[i].ino
  OBVIOUS
<1> PICK d : d = inode[i].dentry
  OBVIOUS
<1>7. Root \in E
  BY DEF Synced, OnStack
<1>8. d \in DOMAIN dentry /\ dentry[d].inode = i /\ dentry[d].ino = x
  BY <1>3
<1>9. x \in Numbers(dentry, U) \ {0}
  <2>1. ASSUME x = 0 PROVE FALSE
    <3>1. Root \in DOMAIN dentry /\ dentry[Root].ino = 0 /\ dentry[Root].inode = Root
      BY DEF RootOk
    <3>2. d = Root
      BY <1>1, <1>8, <2>1, <3>1 DEF NumbersOnce
    <3> QED
      BY <1>6, <1>7, <1>8, <3>1, <3>2
  <2> QED
    BY <1>3, <2>1
<1>10. PICK j \in DOMAIN inode : \E k \in DOMAIN inode[j].dentries :
          dentry[inode[j].dentries[k]].ino = x
  <2>1. ~ \E u \in U : \E k \in Kids(C, u) : Kid(C, u, k).ino = x
    BY <1>1, <1>8 DEF NotBelow
  <2> QED
    BY <1>2, <1>9, <2>1 DEF Covered
<1>11. PICK k \in DOMAIN inode[j].dentries : dentry[inode[j].dentries[k]].ino = x
  BY <1>10
<1> PICK e : e = inode[j].dentries[k]
  OBVIOUS
<1>12. /\ e \in DOMAIN dentry \ {Root} /\ DOMAIN inode[j].dentries = 1 .. Len(inode[j].dentries)
       /\ Len(inode[j].dentries) \in Nat
  <2>1. inode[j].dentries \in Seq(DOMAIN dentry \ {Root})
    BY InodeFields
  <2> QED
    BY <1>11, <2>1, LenProperties, ElementOfSeq
<1>13. e = d
  BY <1>1, <1>8, <1>11, <1>12 DEF NumbersOnce
<1>14. /\ dentry[inode[j].dentry].file_type = "NFS_DIR"
       /\ at[x] = Append(at[inode[j].ino], dentry[d].name)
  <2> PICK z : z = dentry[inode[j].dentries[k]]
    OBVIOUS
  <2>1. dentry[inode[j].dentry].file_type = "NFS_DIR" /\ at[z.ino] = Append(at[inode[j].ino], z.name)
    BY <1>2, <1>11 DEF BelowLoaded
  <2>2. z = dentry[d] /\ z.ino = x
    BY <1>11, <1>13
  <2> QED
    BY <2>1, <2>2
<1>15. CASE j \in E
  <2> PICK l : l = Len(Below(j))
    OBVIOUS
  <2>1. Below(j) = inode[j].dentries
    BY <1>14 DEF Below
  <2>2. k \in DOMAIN Below(j) /\ k <= l /\ Below(j)[k] = d
    <3>1. k \in 1 .. l
      BY <1>11, <1>12, <2>1
    <3>2. k <= l
      BY <3>1
    <3> QED
      BY <1>11, <1>13, <2>1, <3>2
  <2>3. Followed({}, E, j, l)
    BY <1>15 DEF Synced
  <2>4. \A q \in DOMAIN Below(j) : q <= l =>
           LET z == dentry[Below(j)[q]].inode IN z = NULL \/ z \in E \/ OnStack({}, z)
    BY <2>3 DEF Followed
  <2>5. LET z == dentry[Below(j)[k]].inode IN z = NULL \/ z \in E \/ OnStack({}, z)
    BY <2>2, <2>4
  <2>6. ~OnStack({}, i) /\ i # NULL
    BY <1>6, Domains DEF OnStack
  <2> QED
    BY <1>6, <1>8, <2>2, <2>5, <2>6
<1>16. CASE j \notin E
  <2> PICK p : p = at[inode[j].ino]
    OBVIOUS
  <2>1. p \in Where /\ Len(p) \in S
    BY <1>3, <1>16
  <2>2. dentry[d].name \in Name
    BY <1>12, <1>13, DentryFields
  <2>3. n = Len(p) + 1 /\ Len(p) \in Nat
    BY <1>6, <1>14, <2>1, <2>2, Longer, WhereType
  <2>4. n <= Len(p)
    BY <1>5, <2>1
  <2> QED
    BY <2>3, <2>4
<1> QED
  BY <1>15, <1>16

(***************************************************************************)
(* Then the disk alone holds what the memory and the disk held together:   *)
(* the numbers keep their places and types, and what was listed in memory  *)
(* is listed on the disk.                                                  *)
(***************************************************************************)
LEMMA SavedNamed ==
    ASSUME TypeOK, RootOk(dentry, inode), NEW C, NEW U, NEW mi, NEW md,
           Linked(dentry, inode, C, U, mi, md),
           NEW at, NEW kind, NEW T, Named(at, kind, dentry, inode, C, U, T),
           \A i \in DOMAIN inode : Written(C, i, Len(Below(i))),
           NEW V, V = U \cup {inode[i].ino : i \in DOMAIN inode}
    PROVE  Named(at, kind, <<RootDentry>>, <<>>, C, V, T)
<1>1. Placed(dentry, C, U, mi) /\ Paired(dentry, inode, md)
  BY DEF Linked
<1>2. /\ Labelled(at, kind, dentry, U) /\ BelowLoaded(at, dentry, inode)
      /\ BelowStored(at, kind, C, U) /\ Covered(dentry, inode, C, U)
  BY DEF Named
<1> PICK N : N = Numbers(dentry, U)
  OBVIOUS
<1> PICK D : D = <<RootDentry>>
  OBVIOUS
<1> PICK I : I = <<>>
  OBVIOUS
<1>3. DOMAIN D = {1} /\ D[1].ino = 0 /\ D[1].file_type = "NFS_DIR" /\ DOMAIN I = {}
  BY DEF RootDentry
<1>4. /\ at \in [N -> Where] /\ kind \in [N -> FileType] /\ 0 \in N
      /\ at[0] = <<>> /\ kind[0] = "NFS_DIR"
      /\ \A x, y \in N : at[x] = at[y] => x = y
      /\ \A d \in DOMAIN dentry : kind[dentry[d].ino] = dentry[d].file_type
  BY <1>2 DEF Labelled
<1>5. Numbers(D, V) = N
  <2>1. Numbers(D, V) = V \cup {0}
    BY <1>3 DEF Numbers
  <2>2. ASSUME NEW i \in DOMAIN inode PROVE inode[i].ino \in N
    <3>1. inode[i].dentry \in DOMAIN dentry
      BY InodeFields
    <3>2. dentry[inode[i].dentry].ino = inode[i].ino
      BY <1>1 DEF Paired
    <3> QED
      BY <3>1, <3>2 DEF Numbers
  <2>3. ASSUME NEW d \in DOMAIN dentry PROVE dentry[d].ino \in V
    <3>1. CASE dentry[d].inode = NULL
      BY <1>1, <3>1 DEF Placed
    <3>2. CASE dentry[d].inode # NULL
      <4> PICK c : c = dentry[d].inode
        OBVIOUS
      <4>1. c \in DOMAIN inode
        BY <3>2, DentryFields
      <4>2. inode[c].dentry = d
        BY <1>1, <3>2 DEF Paired
      <4>3. dentry[inode[c].dentry].ino = inode[c].ino
        BY <1>1, <4>1 DEF Paired
      <4> QED
        BY <4>1, <4>2, <4>3
    <3> QED
      BY <3>1, <3>2
  <2>4. U \subseteq N /\ N \subseteq V
    BY <2>3 DEF Numbers
  <2>5. V \subseteq N
    BY <2>2, <2>4
  <2>6. V = N
    BY <2>4, <2>5
  <2>7. N \cup {0} = N
    BY ONLY <1>4
  <2> QED
    BY <2>1, <2>6, <2>7
<1>6. Labelled(at, kind, D, V)
  BY <1>3, <1>4, <1>5 DEF Labelled
<1>7. BelowLoaded(at, D, I)
  BY <1>3 DEF BelowLoaded
<1>8. ASSUME NEW i \in DOMAIN inode, NEW k \in Kids(C, inode[i].ino)
      PROVE  /\ k \in Int /\ k + 1 \in DOMAIN inode[i].dentries
             /\ inode[i].dentries[k + 1] \in DOMAIN dentry \ {Root}
             /\ Kid(C, inode[i].ino, k) = DentryD(dentry[inode[i].dentries[k + 1]])
  <2>1. Written(C, i, Len(Below(i)))
    OBVIOUS
  <2> QED
    BY <1>1, <2>1, DoneKid
<1>9. BelowStored(at, kind, C, V)
  <2> SUFFICES ASSUME NEW v \in V, NEW k \in Kids(C, v)
               PROVE  LET e == Kid(C, v, k)
                      IN  /\ at[e.ino] = Append(at[v], e.name) /\ kind[e.ino] = e.file_type
                          /\ e.name \in Name
    BY DEF BelowStored
  <2>1. CASE v \in U
    BY <1>2, <2>1 DEF BelowStored
  <2>2. ASSUME NEW i \in DOMAIN inode, v = inode[i].ino
        PROVE  LET e == Kid(C, v, k)
               IN  /\ at[e.ino] = Append(at[v], e.name) /\ kind[e.ino] = e.file_type
                   /\ e.name \in Name
    <3> PICK q : q = k + 1
      OBVIOUS
    <3> PICK d : d = inode[i].dentries[q]
      OBVIOUS
    <3>1. q \in DOMAIN inode[i].dentries /\ d \in DOMAIN dentry \ {Root}
          /\ Kid(C, v, k) = DentryD(dentry[d])
      BY <1>8, <2>2
    <3>2. at[dentry[d].ino] = Append(at[v], dentry[d].name)
      BY <1>2, <2>2, <3>1 DEF BelowLoaded
    <3>3. kind[dentry[d].ino] = dentry[d].file_type /\ dentry[d].name \in Name
      BY <1>4, <3>1, DentryFields
    <3> PICK e : e = Kid(C, v, k)
      OBVIOUS
    <3>4. /\ e.ino = dentry[d].ino /\ e.name = dentry[d].name
          /\ e.file_type = dentry[d].file_type
      BY <3>1 DEF DentryD
    <3> QED
      BY <3>2, <3>3, <3>4
  <2> QED
    BY <2>1, <2>2
<1>10. Covered(D, I, C, V)
  <2> SUFFICES ASSUME NEW x \in N \ {0}
               PROVE  \E v \in V : \E k \in Kids(C, v) : Kid(C, v, k).ino = x
    BY <1>5 DEF Covered
  <2>1. CASE \E u \in U : \E k \in Kids(C, u) : Kid(C, u, k).ino = x
    BY <2>1
  <2>2. ASSUME NEW i \in DOMAIN inode, NEW k \in DOMAIN inode[i].dentries,
               dentry[inode[i].dentries[k]].ino = x
        PROVE  \E v \in V : \E l \in Kids(C, v) : Kid(C, v, l).ino = x
    <3> PICK v : v = inode[i].ino
      OBVIOUS
    <3> PICK q : q = k - 1
      OBVIOUS
    <3> PICK len : len = Len(inode[i].dentries)
      OBVIOUS
    <3>1. /\ inode[i].dir_dentry_cnt = len /\ len \in Nat /\ DOMAIN inode[i].dentries = 1 .. len
          /\ inode[i].dentry \in DOMAIN dentry
      BY InodeFields, LenProperties
    <3>2. C[INO_OFS(v)] = InodeD(inode[i])
      BY DEF Written
    <3>3. /\ C[INO_OFS(v)].data_block_no = inode[i].data_block_no
          /\ C[INO_OFS(v)].dir_dentry_cnt = len
      BY <3>1, <3>2 DEF InodeD
    <3>4. inode[i].data_block_no # None
      <4>1. dentry[inode[i].dentry].file_type = "NFS_DIR"
        BY <1>2 DEF BelowLoaded
      <4>2. inode[i].data_block_no \in Block
        BY <1>1, <4>1 DEF Paired
      <4> QED
        BY <4>2 DEF Block, None
    <3>5. q \in 0 .. len - 1 /\ q + 1 = k
      BY <3>1
    <3>6. q \in Kids(C, v)
      BY <3>3, <3>4, <3>5 DEF Kids
    <3>7. Kid(C, v, q) = DentryD(dentry[inode[i].dentries[k]])
      BY <1>8, <3>5, <3>6
    <3>8. Kid(C, v, q).ino = x
      BY <2>2, <3>7 DEF DentryD
    <3> QED
      BY <3>6, <3>8
  <2> QED
    BY <1>2, <2>1, <2>2 DEF Covered
<1>11. T = {<<at[x], kind[x]>> : x \in Numbers(D, V) \ {0}}
  BY <1>5 DEF Named
<1> QED
  BY <1>6, <1>7, <1>9, <1>10, <1>11 DEF Named

\* The end of sync_inode: the disk alone holds what has been promised.
LEMMA EndSyncTree ==
    ASSUME TreeInv, ShapeInv', EndSync
    PROVE  TreeInv'
<1>1. /\ pc = "sync" /\ work = <<>> /\ pc' = "super"
      /\ UNCHANGED <<dentry, inode, super, disk, ls, spoilt, live, durable>>
  BY DEF EndSync
<1> PICK mi : mi = super.map_inode
  OBVIOUS
<1> PICK md : md = super.map_data
  OBVIOUS
<1> PICK C : C = disk.cell
  OBVIOUS
<1>2. ASSUME spoilt = {} PROVE SavedTree(C, mi, md, live)
  <2>1. PICK U \in SUBSET Bit : \E at, kind :
           /\ Stored(C, U, mi, md) /\ Linked(dentry, inode, C, U, mi, md)
           /\ Named(at, kind, dentry, inode, C, U, live)
    BY <1>1, <1>2, MountedHolds
  <2>2. PICK at, kind :
           /\ Stored(C, U, mi, md) /\ Linked(dentry, inode, C, U, mi, md)
           /\ Named(at, kind, dentry, inode, C, U, live)
    BY <2>1
  <2>3. ~confused
    BY <1>1, <1>2, MountedHolds
  <2>4. TypeOK /\ RootOk(dentry, inode)
    BY <1>1, <2>3 DEF TreeInv, ShapeInv, TypeInv, StageOk
  <2>5. PICK E \in SUBSET DOMAIN inode : Synced(C, ToSet(work), E)
    BY <1>1, <1>2 DEF TreeInv, ShapeInv, SyncOk
  <2>6. Synced(C, {}, E)
    <3>1. ToSet(work) = {}
      BY <1>1 DEF ToSet
    <3> QED
      BY <2>5, <3>1
  <2>7. E = DOMAIN inode
    BY <2>2, <2>4, <2>6, AllWritten
  <2> PICK V : V = U \cup {inode[i].ino : i \in E}
    OBVIOUS
  <2>8. /\ V \in SUBSET Bit
        /\ Stored(C, V, mi, md) /\ Linked(<<RootDentry>>, <<>>, C, V, mi, md)
    BY <2>2, <2>4, <2>6, SavedWhole
  <2>9. \A i \in DOMAIN inode : Written(C, i, Len(Below(i)))
    BY <2>6, <2>7 DEF Synced
  <2>10. Named(at, kind, <<RootDentry>>, <<>>, C, V, live)
    BY <2>2, <2>4, <2>7, <2>9, SavedNamed
  <2>11. Underway(at, <<RootDentry>>, <<>>, NoListing)
    BY DEF Underway, NoListing
  <2> QED
    BY <2>8, <2>10, <2>11 DEF SavedTree, HoldsTree
<1>3. MemoryTree'
  BY <1>1 DEF MemoryTree
<1>4. DiskTree'
  BY <1>1, <1>2 DEF DiskTree, Destroying
<1>5. HistoryOk'
  BY <1>1 DEF TreeInv, HistoryOk
<1> QED
  BY <1>3, <1>4, <1>5 DEF TreeInv
-------------------------------------------------------------------------------
\* The empty disk of an empty tree.
LEMMA TreeStart == Init => TreeInv
<1> SUFFICES ASSUME Init PROVE TreeInv
  OBVIOUS
<1>1. /\ pc = "unmounted" /\ ~disk.magic /\ live = {} /\ durable = {} /\ ls = NoListing
      /\ ShapeInv
  BY ShapeStart DEF Init
<1>2. MemoryTree /\ DiskTree
  BY <1>1 DEF MemoryTree, DiskTree, Destroying
<1>3. HistoryOk
  BY <1>1 DEF HistoryOk, NoListing
<1> QED
  BY <1>1, <1>2, <1>3 DEF TreeInv

\* A step that changes nothing.
LEMMA TreeStutters ==
    ASSUME TreeInv, ShapeInv', UNCHANGED vars
    PROVE  TreeInv'
<1>1. UNCHANGED <<dentry, inode, super, disk, pc, ls, spoilt, live, durable>>
  BY DEF vars
<1>2. MemoryTree' /\ DiskTree' /\ HistoryOk'
  BY <1>1 DEF TreeInv, MemoryTree, DiskTree, HistoryOk
<1> QED
  BY <1>2 DEF TreeInv

\* Every step keeps every number in its place.
LEMMA TreeStep ==
    ASSUME NamesApart
    PROVE  TreeInv /\ [Next]_vars => TreeInv'
<1> SUFFICES ASSUME TreeInv, [Next]_vars PROVE TreeInv'
  OBVIOUS
<1>0. ShapeInv'
  BY ShapeStep DEF TreeInv
<1>1. ASSUME NEW path \in Path, newfs_mkdir(path) PROVE TreeInv'
  BY <1>0, <1>1, CreateTree DEF newfs_mkdir, FileType
<1>2. ASSUME NEW path \in Path, newfs_mknod(path) PROVE TreeInv'
  BY <1>0, <1>2, CreateTree DEF newfs_mknod, FileType
<1>3. ASSUME NEW path \in Path, newfs_getattr(path) PROVE TreeInv'
  BY <1>0, <1>3, GetattrTree
<1>4. ASSUME NEW path \in Path \cup {<<>>}, newfs_readdir(path) PROVE TreeInv'
  BY <1>0, <1>4, ReaddirTree DEF Where
<1>5. CASE FormatNew
  BY <1>0, <1>5, FormatTree
<1>6. CASE MountOld
  BY <1>0, <1>6, MountTree
<1>7. CASE ReadRoot
  BY <1>0, <1>7, ReadRootTree
<1>8. CASE newfs_destroy
  BY <1>0, <1>8, DestroyTree
<1>9. CASE sync_inode
  BY <1>0, <1>9, SyncTree
<1>10. CASE EndSync
  BY <1>0, <1>10, EndSyncTree
<1>11. CASE WriteSuper
  BY <1>0, <1>11, WriteSuperTree
<1>12. CASE WriteMapInode
  BY <1>0, <1>12, WriteSuperTree
<1>13. CASE WriteMapData
  BY <1>0, <1>13, WriteMapDataTree
<1>14. CASE Crash
  BY <1>0, <1>14, CrashTree
<1>15. CASE UNCHANGED vars
  BY <1>0, <1>15, TreeStutters
<1> QED
  BY <1>1, <1>2, <1>3, <1>4, <1>5, <1>6, <1>7, <1>8, <1>9, <1>10, <1>11, <1>12, <1>13, <1>14,
     <1>15 DEF Next

\* The tree is where it was promised in every reachable state.
LEMMA TreeAlways ==
    ASSUME NamesApart
    PROVE  Spec => []TreeInv
<1>1. Init => TreeInv
  BY TreeStart
<1>2. TreeInv /\ [Next]_vars => TreeInv'
  BY TreeStep
<1> QED
  BY <1>1, <1>2, PTL DEF Spec

\* A call that ends a listing of a mounted system is a readdir that returned nothing.
LEMMA ListingEnds ==
    ASSUME TreeInv, [Next]_vars, ls.on, ~ls'.on, pc' = "mounted"
    PROVE  \E path \in Where : newfs_readdir(path)
<1>0. pc = "mounted"
  BY DEF TreeInv, HistoryOk
<1>1. ls' # ls
  OBVIOUS
<1>2. ASSUME NEW path \in Path, newfs_mkdir(path) \/ newfs_mknod(path) \/ newfs_getattr(path)
      PROVE  FALSE
  BY <1>1, <1>2 DEF newfs_mkdir, newfs_mknod, newfs_getattr, Create
<1>3. ~FormatNew /\ ~MountOld /\ ~ReadRoot
  BY <1>0 DEF FormatNew, MountOld, ReadRoot
<1>4. /\ ~newfs_destroy /\ ~sync_inode /\ ~EndSync /\ ~WriteSuper /\ ~WriteMapInode
      /\ ~WriteMapData /\ ~Crash
  BY <1>0 DEF newfs_destroy, sync_inode, EndSync, WriteSuper, WriteMapInode, WriteMapData,
              Crash, Exit
<1>5. UNCHANGED vars => ls' = ls
  BY DEF vars
<1> QED
  BY <1>1, <1>2, <1>3, <1>4, <1>5 DEF Next, Where

(***************************************************************************)
(* What lookup, read_inode and allocate_dentry make of the memory is the   *)
(* tree mkdir and mknod have promised, together with what is not loaded    *)
(* yet - with any number of names, files, unmounts, remounts and crashes,  *)
(* as long as no name begins with another (newfs_util.c lookup,            *)
(* read_inode, sync_inode; newfs.c newfs_mkdir, newfs_mknod).              *)
(***************************************************************************)
THEOREM TreeIsKept ==
    ASSUME NamesApart
    PROVE  Spec => []TreeIsPromised
<1>1. TreeInv => TreeIsPromised
  BY TreeFollows
<1>2. Spec => []TreeInv
  BY TreeAlways
<1> QED
  BY <1>1, <1>2, PTL

(***************************************************************************)
(* The disk alone holds what the last complete newfs_destroy found,        *)
(* although sync_inode writes only what is loaded, and although crashes    *)
(* come at any time.                                                       *)
(***************************************************************************)
THEOREM DiskIsKept ==
    ASSUME NamesApart
    PROVE  Spec => []DiskIsPromised
<1>1. TreeInv => DiskIsPromised
  BY DiskFollows
<1>2. Spec => []TreeInv
  BY TreeAlways
<1> QED
  BY <1>1, <1>2, PTL

(***************************************************************************)
(* lookup finds the paths that have been created and no other, loaded or   *)
(* not, and newfs_access answers so.                                       *)
(***************************************************************************)
THEOREM LookupFindsWhatIs ==
    ASSUME NamesApart
    PROVE  Spec => []LookupIsExact
<1>1. TreeInv => LookupIsExact
  BY LookupFollows
<1>2. Spec => []TreeInv
  BY TreeAlways
<1> QED
  BY <1>1, <1>2, PTL

(***************************************************************************)
(* A listing that runs to its end has returned every name that was there   *)
(* at its start: a dentry created meanwhile moves the others one place     *)
(* further down, never past the offset (newfs.c newfs_readdir,             *)
(* newfs_util.c allocate_dentry, get_dentry).                              *)
(***************************************************************************)
THEOREM ListingsAreWhole ==
    ASSUME NamesApart
    PROVE  Spec => ListingMissesNone
<1>1. TreeInv /\ [Next]_vars =>
          [ls.on /\ ~ls'.on /\ pc' = "mounted" /\ ~confused' /\ spoilt = {} =>
               ls.had \subseteq ls.seen]_vars
  <2> SUFFICES ASSUME TreeInv, [Next]_vars, ls.on, ~ls'.on, pc' = "mounted", spoilt = {}
               PROVE  ls.had \subseteq ls.seen
    OBVIOUS
  <2>1. PICK path \in Where : newfs_readdir(path)
    BY ListingEnds
  <2> PICK d : d = lookup(path).ret
    OBVIOUS
  <2> PICK m : m = Fetch(d)
    OBVIOUS
  <2> PICK p : p = m.dentry[d].inode
    OBVIOUS
  <2> PICK c : c = Cursor(path)
    OBVIOUS
  <2> PICK sub : sub = get_dentry(m, p, c.offset)
    OBVIOUS
  <2>2. /\ Serving(path)
        /\ ls' = (IF m.confused \/ sub = {} THEN NoListing
                  ELSE [c EXCEPT !.offset = @ + 1, !.seen = @ \cup sub])
    BY <2>1 DEF newfs_readdir
  <2>3. c = ls
    BY DEF Cursor
  <2>4. ls \in ListingType(made) /\ made \in Nat
    BY Parts DEF TreeInv, ShapeInv, TypeInv
  <2>5. ~m.confused /\ Listed(m, p, c)
    BY <2>1, ReaddirReady
  <2>6. sub = {}
    <3> SUFFICES ASSUME sub # {} PROVE FALSE
      OBVIOUS
    <3>1. ls' = [ls EXCEPT !.offset = @ + 1, !.seen = @ \cup sub]
      BY <2>2, <2>3, <2>5
    <3>2. ls'.on = ls.on
      BY <2>4, <3>1 DEF ListingType
    <3> QED
      BY <3>2
  <2>7. m \in MemoryRecord /\ c.offset \in Nat
    <3>1. Fetched(d, m)
      BY <2>2, ServingFacts DEF TreeInv, ShapeInv, Where
    <3> QED
      BY <2>3, <2>4, <3>1 DEF Fetched, ListingType
  <2>8. c.had \subseteq c.seen
    BY <2>5, <2>6, <2>7, Advanced
  <2> QED
    BY <2>3, <2>8
<1>2. Spec => []TreeInv
  BY TreeAlways
<1> QED
  BY <1>1, <1>2, PTL DEF Spec, ListingMissesNone
===============================================================================
