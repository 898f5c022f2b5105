---------------------------- MODULE Simplefs_proofs ----------------------------
(***************************************************************************)
(* Proofs about the memory of Simplefs, whatever mishaps a behaviour meets *)
(* and for every set of names, every size of the disk and of a slot, and   *)
(* any number of calls, mounts and crashes: its type, and that nothing a   *)
(* handler can reach has been freed.                                       *)
(***************************************************************************)
EXTENDS Simplefs, SequenceTheorems, WellFoundedInduction, TLAPS

USE AreaAssumption, BoundAssumption, MapBitsAssumption

\* A set of naturals that is not empty has a least member.
LEMMA Least ==
    ASSUME NEW S \in SUBSET Nat, S # {}
    PROVE  \E m \in S : \A n \in S : m <= n
<1>1. IsWellFoundedOn(OpToRel(<, Nat), Nat)
  BY NatLessThanWellFounded
<1> DEFINE R == OpToRel(<, Nat)
<1>2. \A x, y \in Nat : <<y, x>> \in R <=> y < x
  BY DEF OpToRel
<1> HIDE DEF R
<1>3. IsWellFoundedOn(R, Nat)
  BY <1>1 DEF R
<1>4. PICK m \in S : \A n \in S : <<n, m>> \notin R
  BY <1>3, WFMin
<1>5. ASSUME NEW n \in S PROVE m <= n
  <2>1. m \in Nat /\ n \in Nat /\ ~(n < m)
    BY <1>2, <1>4
  <2> QED
    BY <2>1
<1> QED
  BY <1>5

\* Min of the community modules, on the sets the model gives it.
LEMMA MinOf ==
    ASSUME NEW S \in SUBSET Nat, S # {}
    PROVE  Min(S) \in S /\ \A n \in S : Min(S) <= n
<1>1. \E m \in S : \A n \in S : m <= n
  BY Least
<1> QED
  BY <1>1 DEF Min

\* List r is s and then t.
Joined(S, s, t, r) ==
    /\ r \in Seq(S) /\ Len(r) = Len(s) + Len(t) /\ DOMAIN r = 1 .. Len(s) + Len(t)
    /\ \A k \in DOMAIN s : r[k] = s[k]
    /\ \A k \in DOMAIN t : r[Len(s) + k] = t[k]
    /\ ToSet(r) = ToSet(s) \cup ToSet(t)

\* Two lists in a row are so joined.
LEMMA InARow ==
    ASSUME NEW S, NEW s \in Seq(S), NEW t \in Seq(S)
    PROVE  Joined(S, s, t, s \o t)
<1> DEFINE r == s \o t
           m == Len(s)
           n == Len(t)
<1>1. /\ r \in Seq(S) /\ Len(r) = m + n
      /\ \A k \in 1 .. m + n : r[k] = IF k <= m THEN s[k] ELSE t[k - m]
  BY ConcatProperties
<1>2. m \in Nat /\ n \in Nat /\ DOMAIN s = 1 .. m /\ DOMAIN t = 1 .. n /\ DOMAIN r = 1 .. m + n
  BY <1>1, LenProperties
<1> HIDE DEF r, m, n
<1>3. \A k \in DOMAIN s : k \in DOMAIN r /\ r[k] = s[k]
  BY <1>1, <1>2
<1>4. ASSUME NEW k \in DOMAIN t PROVE m + k \in DOMAIN r /\ r[m + k] = t[k]
  <2>1. k \in 1 .. n
    BY <1>2
  <2>2. m + k \in 1 .. m + n /\ ~(m + k <= m) /\ (m + k) - m = k
    BY <1>2, <2>1
  <2> QED
    BY <1>1, <1>2, <2>2
<1>5. ASSUME NEW k \in DOMAIN r PROVE r[k] \in ToSet(s) \cup ToSet(t)
  <2>1. CASE k <= m
    <3>1. k \in DOMAIN s /\ r[k] = s[k]
      BY <1>1, <1>2, <2>1
    <3> QED
      BY <3>1 DEF ToSet
  <2>2. CASE ~(k <= m)
    <3>1. k - m \in DOMAIN t /\ r[k] = t[k - m]
      BY <1>1, <1>2, <2>2
    <3> QED
      BY <3>1 DEF ToSet
  <2> QED
    BY <2>1, <2>2
<1>6. ToSet(r) \subseteq ToSet(s) \cup ToSet(t)
  BY <1>5 DEF ToSet
<1>7. ToSet(s) \subseteq ToSet(r)
  BY <1>3 DEF ToSet
<1>8. ToSet(t) \subseteq ToSet(r)
  BY <1>4 DEF ToSet
<1> QED
  BY <1>1, <1>2, <1>3, <1>4, <1>6, <1>7, <1>8 DEF r, m, n, Joined

\* A list of one.
LEMMA Single ==
    ASSUME NEW S, NEW x \in S
    PROVE  /\ <<x>> \in Seq(S) /\ Len(<<x>>) = 1 /\ DOMAIN <<x>> = {1}
           /\ <<x>>[1] = x /\ ToSet(<<x>>) = {x}
<1>1. <<x>> \in Seq(S) /\ Len(<<x>>) = 1 /\ <<x>>[1] = x
  OBVIOUS
<1>2. DOMAIN <<x>> = {1}
  BY <1>1
<1> QED
  BY <1>1, <1>2 DEF ToSet

\* The head and the tail of a list.
LEMMA FirstAndRest ==
    ASSUME NEW S, NEW s \in Seq(S), s # <<>>
    PROVE  /\ Head(s) \in S /\ Tail(s) \in Seq(S) /\ Len(Tail(s)) = Len(s) - 1
           /\ ToSet(s) = {Head(s)} \cup ToSet(Tail(s))
<1> DEFINE t == Tail(s)
           n == Len(s)
<1>1. /\ Head(s) \in S /\ t \in Seq(S) /\ Len(t) = n - 1
      /\ \A k \in 1 .. Len(t) : t[k] = s[k + 1]
  BY HeadTailProperties
<1>2. n \in Nat \ {0} /\ DOMAIN s = 1 .. n /\ DOMAIN t = 1 .. n - 1
  BY <1>1, LenProperties, EmptySeq
<1>3. Head(s) = s[1]
  OBVIOUS
<1> HIDE DEF t, n
<1>4. \A k \in DOMAIN s : k = 1 \/ (k - 1 \in DOMAIN t /\ s[k] = t[k - 1])
  BY <1>1, <1>2
<1>5. 1 \in DOMAIN s /\ \A k \in DOMAIN t : k + 1 \in DOMAIN s /\ t[k] = s[k + 1]
  BY <1>1, <1>2
<1>6. ToSet(s) \subseteq {s[1]} \cup ToSet(t)
  BY <1>4 DEF ToSet
<1>7. s[1] \in ToSet(s) /\ ToSet(t) \subseteq ToSet(s)
  BY <1>5 DEF ToSet
<1> QED
  BY <1>1, <1>3, <1>6, <1>7 DEF t, n
-------------------------------------------------------------------------------
-------------------------------------------------------------------------------
\* What a path is.
LEMMA PathType ==
    ASSUME NEW path \in Path
    PROVE  /\ path \in Seq(Name) /\ Len(path) \in 1 .. MaxDepth /\ path # <<>>
           /\ Last(path) \in Name /\ DOMAIN path = 1 .. Len(path)
           /\ \A k \in 1 .. Len(path) : path[k] \in Name
<1>1. PICK k \in 1 .. MaxDepth : path \in [1 .. k -> Name]
  BY DEF Path
<1>2. path \in Seq(Name)
  BY <1>1, SeqDef
<1>3. Len(path) = k
  BY <1>1, <1>2, LenProperties
<1>4. path # <<>>
  BY <1>2, <1>3, EmptySeq
<1>5. Last(path) = path[k] /\ path[k] \in Name
  BY <1>1, <1>3 DEF Last
<1> QED
  BY <1>1, <1>2, <1>3, <1>4, <1>5

\* A list of names that is neither empty nor too long is a path.
LEMMA IsPath ==
    ASSUME NEW p \in Seq(Name), Len(p) \in 1 .. MaxDepth
    PROVE  p \in Path
<1>1. p \in [1 .. Len(p) -> Name]
  BY LenProperties
<1> QED
  BY <1>1 DEF Path

\* The largest number in use is none of a function's: the next one is free.
LEMMA TopOf ==
    ASSUME NEW f, NEW n \in Nat, DOMAIN f \subseteq 1 .. n
    PROVE  /\ Top(f) \in Nat /\ Top(f) <= n /\ \A x \in DOMAIN f : x <= Top(f)
           /\ DOMAIN f \subseteq 1 .. Top(f) /\ Top(f) + 1 \notin DOMAIN f
<1> DEFINE S == DOMAIN f \cup {0}
           B == {k \in Nat : \A x \in S : x <= k}
<1>1. n \in B
  OBVIOUS
<1>2. PICK k \in B : \A l \in B : k <= l
  BY <1>1, Least
<1>3. k \in S
  <2> SUFFICES ASSUME k \notin S PROVE FALSE
    OBVIOUS
  <2>1. k \in Nat /\ k # 0
    OBVIOUS
  <2>2. \A x \in S : x <= k - 1
    BY <2>1
  <2>3. k - 1 \in B /\ ~(k <= k - 1)
    BY <2>1, <2>2
  <2> QED
    BY <1>2, <2>3
<1>4. \E x \in S : \A y \in S : x >= y
  BY <1>3
<1>5. Max(S) \in S /\ \A y \in S : Max(S) >= y
  BY <1>4 DEF Max
<1>6. Top(f) = Max(S)
  BY DEF Top
<1>7. Top(f) \in S /\ \A y \in S : Top(f) >= y
  BY <1>5, <1>6
<1>8. S \subseteq 0 .. n /\ S \subseteq Nat
  OBVIOUS
<1>9. Top(f) \in Nat /\ Top(f) <= n
  BY <1>7, <1>8
<1>10. \A x \in DOMAIN f : x \in 1 .. n /\ Top(f) >= x
  BY <1>7
<1> HIDE DEF S, B
<1> QED
  BY <1>9, <1>10

\* With one more value, or another one, the values of a function stay in their set.
LEMMA WithType ==
    ASSUME NEW S, NEW f, f \in [DOMAIN f -> S], NEW x, NEW v \in S
    PROVE  With(f, x, v) \in [DOMAIN f \cup {x} -> S]
BY DEF With

\* A scan marks what it finds, and what it finds was clear.
LEMMA ScanResult ==
    ASSUME NEW map \in SUBSET Bit, NEW max, NEW r \in Scan(map, max)
    PROVE  /\ r.map \in SUBSET Bit /\ map \subseteq r.map /\ r.no \in Bit \cup {None}
           /\ r.no # None => r.no \in Bit \ map /\ r.map = map \cup {r.no}
           /\ r.no = None => map = r.map \/ \E b \in Bit : b = max /\ r.map = map \cup {b}
<1>1. CASE Bit \subseteq map
  BY <1>1 DEF Scan
<1>2. CASE ~(Bit \subseteq map)
  <2>1. PICK b \in Bit : /\ IsFirstZero(map, b)
                         /\ r = [map |-> map \cup {b}, no |-> IF b = max THEN None ELSE b]
    BY <1>2 DEF Scan
  <2>2. b \in Bit \ map /\ b # None
    BY <2>1 DEF IsFirstZero, Bit, None
  <2>3. r.map = map \cup {b} /\ r.no = IF b = max THEN None ELSE b
    BY <2>1
  <2> QED
    BY <2>2, <2>3
<1> QED
  BY <1>1, <1>2

\* A scan has one outcome.
LEMMA ScanOnce ==
    ASSUME NEW map \in SUBSET Bit, NEW max
    PROVE  \E r : Scan(map, max) = {r}
<1>1. CASE Bit \subseteq map
  BY <1>1 DEF Scan
<1>2. CASE ~(Bit \subseteq map)
  <2> DEFINE Z == {c \in Bit : IsFirstZero(map, c)}
  <2>1. Bit \ map \in SUBSET Nat /\ Bit \ map # {}
    BY <1>2 DEF Bit
  <2>2. PICK m \in Bit \ map : \A n \in Bit \ map : m <= n
    BY <2>1, Least
  <2>3. IsFirstZero(map, m)
    BY <2>2 DEF IsFirstZero, Bit
  <2>4. ASSUME NEW c \in Z PROVE c = m
    <3>1. c \in Bit \ map /\ 0 .. c - 1 \subseteq map
      BY DEF IsFirstZero
    <3>2. m <= c
      BY <2>2, <3>1
    <3>3. ~(m <= c - 1)
      BY <2>2, <3>1 DEF Bit
    <3> QED
      BY <3>1, <3>2, <3>3, <2>2 DEF Bit
  <2>5. Z = {m}
    BY <2>2, <2>3, <2>4
  <2>6. Scan(map, max) = {[map |-> map \cup {b}, no |-> IF b = max THEN None ELSE b] : b \in Z}
    BY <1>2 DEF Scan
  <2> DEFINE F(c) == [map |-> map \cup {c}, no |-> IF c = max THEN None ELSE c]
  <2>7. Scan(map, max) = {F(c) : c \in Z}
    BY <2>6
  <2> HIDE DEF F, Z
  <2>8. Scan(map, max) = {F(m)}
    BY <2>5, <2>7
  <2> QED
    BY <2>8
<1> QED
  BY <1>1, <1>2
-------------------------------------------------------------------------------
\* Multiplication by the length of a slot keeps order.
LEMMA Grows ==
    ASSUME NEW L \in Nat, NEW m \in Int, NEW n \in Int, m <= n
    PROVE  L * m <= L * n
<1>1. L * (n - m) >= 0
  OBVIOUS
<1>2. L * n = L * m + L * (n - m)
  OBVIOUS
<1> QED
  BY <1>1, <1>2

\* A place inside slot m lies in front of all of a later slot n.
LEMMA Earlier ==
    ASSUME NEW m \in Int, NEW n \in Int, m < n, NEW k \in 0 .. Cells
    PROVE  SFS_INO_OFS(m) + k < SFS_INO_OFS(n) /\ SFS_INO_OFS(m) \in Int /\ SFS_INO_OFS(n) \in Int
<1> DEFINE L == 1 + Cells
<1>1. L \in Nat /\ L * (m + 1) <= L * n
  BY Grows
<1>2. L * (m + 1) = m * L + L /\ L * n = n * L
  BY <1>1
<1>3. SFS_INO_OFS(m) = m * L /\ SFS_INO_OFS(n) = n * L /\ m * L \in Int /\ n * L \in Int
  BY DEF SFS_INO_OFS
<1>4. k < L
  OBVIOUS
<1> DEFINE x == m * L
           y == n * L
<1>5. x + L <= y /\ x \in Int /\ y \in Int
  BY <1>1, <1>2, <1>3
<1> HIDE DEF x, y
<1>6. x + k < y
  BY <1>4, <1>5
<1> QED
  BY <1>3, <1>5, <1>6 DEF x, y

\* The slot and the place in it are known from the address.
LEMMA SlotsApart ==
    ASSUME NEW m \in Int, NEW n \in Int, NEW k \in 0 .. Cells, NEW l \in 0 .. Cells,
           SFS_INO_OFS(m) + k = SFS_INO_OFS(n) + l
    PROVE  m = n /\ k = l
<1> PICK x, y : x = SFS_INO_OFS(m) /\ y = SFS_INO_OFS(n)
  OBVIOUS
<1>0. x \in Int /\ y \in Int
  BY DEF SFS_INO_OFS
<1>1. m < n => x + k < y
  BY Earlier
<1>2. n < m => y + l < x
  BY Earlier
<1>3. m = n
  BY <1>0, <1>1, <1>2
<1> QED
  BY <1>0, <1>3

\* All places of all slots are on the disk.
LEMMA SlotAddress ==
    ASSUME NEW ino \in Bit, NEW k \in 0 .. Cells
    PROVE  SFS_INO_OFS(ino) + k \in Address /\ SFS_INO_OFS(ino) \in Nat
<1> DEFINE z == MapBits + 1
<1>1. ino \in Int /\ z \in Int /\ ino < z /\ ino \in Nat
  BY DEF Bit
<1>2. SFS_INO_OFS(ino) + k < SFS_INO_OFS(z) /\ SFS_INO_OFS(z) \in Int
  BY <1>1, Earlier
<1>3. SFS_INO_OFS(ino) \in Nat
  BY <1>1 DEF SFS_INO_OFS
<1> QED
  BY <1>2, <1>3 DEF Address
-------------------------------------------------------------------------------
\* What inode i lists.
List(m, i) == ToSet(m.inode[i].dentrys)

\* The dentries some inode lists, and the root's.
Linked(m) == {Root} \cup UNION {List(m, i) : i \in DOMAIN m.inode}

\* No value stands twice in a list.
Once(list) == \A k, l \in DOMAIN list : list[k] = list[l] => k = l

\* The memory is typed and its numbers are bounded.
Memory(m) ==
    /\ m \in [dentry : [DOMAIN m.dentry -> Dentry], inode : [DOMAIN m.inode -> Inode],
              map_inode : SUBSET Bit, max_ino : {0, MaxIno}]
    /\ \E n \in Nat : DOMAIN m.dentry \subseteq 1 .. n /\ DOMAIN m.inode \subseteq 1 .. n

\* The root stays what sfs_mount makes it.
Rooted(m) ==
    Root \in DOMAIN m.dentry /\ m.dentry[Root].ino = 0 /\ m.dentry[Root].ftype = "SFS_DIR"

\* Each dentry is in one list at most, and once, the root's in none.
ListedOnce(m) ==
    /\ \A i \in DOMAIN m.inode : Root \notin List(m, i) /\ Once(m.inode[i].dentrys)
    /\ \A i, j \in DOMAIN m.inode : \A d \in List(m, i) : d \in List(m, j) => i = j

\* What is linked is allocated.
Allocated(m) == Linked(m) \subseteq DOMAIN m.dentry

(***************************************************************************)
(* The dentries linked, but for x, lead to inodes that are allocated, each *)
(* to one of its own.                                                      *)
(***************************************************************************)
Lead(m, x) ==
    /\ \A d \in Linked(m) \ {x} : m.dentry[d].inode \in {NULL} \cup DOMAIN m.inode
    /\ \A d, e \in Linked(m) \ {x} :
           m.dentry[d].inode = m.dentry[e].inode /\ m.dentry[d].inode # NULL => d = e

\* Inode i points back to a dentry that points to it, though not always to the one listed.
PointsBack(m, i) ==
    /\ m.inode[i].dentry \in DOMAIN m.dentry
    /\ m.dentry[m.inode[i].dentry].inode = i
    /\ m.dentry[m.inode[i].dentry].ftype = "SFS_REG_FILE" => Len(m.inode[i].data) = Cells

Back(m, x) == \A d \in Linked(m) \ {x} : m.dentry[d].inode # NULL => PointsBack(m, m.dentry[d].inode)

\* The parent of a listed dentry is the one its directory points back to.
Parents(m) == \A i \in DOMAIN m.inode : \A d \in List(m, i) : m.dentry[d].parent = m.inode[i].dentry

\* The heap is in order, but for the inode of the dentry x.
HeapBut(m, x) ==
    Memory(m) /\ Rooted(m) /\ ListedOnce(m) /\ Allocated(m) /\ Lead(m, x) /\ Back(m, x) /\ Parents(m)

Heap(m) == HeapBut(m, NULL)

\* A memory is made of four parts, and what they hold.
LEMMA MemoryFields ==
    ASSUME NEW m, Memory(m)
    PROVE  /\ m = [dentry |-> m.dentry, inode |-> m.inode, map_inode |-> m.map_inode,
                   max_ino |-> m.max_ino]
           /\ m.dentry \in [DOMAIN m.dentry -> Dentry] /\ m.inode \in [DOMAIN m.inode -> Inode]
           /\ m.map_inode \in SUBSET Bit /\ m.max_ino \in {0, MaxIno}
           /\ Top(m.dentry) \in Nat /\ DOMAIN m.dentry \subseteq 1 .. Top(m.dentry)
           /\ Top(m.dentry) + 1 \notin DOMAIN m.dentry
           /\ Top(m.inode) \in Nat /\ DOMAIN m.inode \subseteq 1 .. Top(m.inode)
           /\ Top(m.inode) + 1 \notin DOMAIN m.inode
           /\ DOMAIN m.dentry \subseteq Nat \ {NULL} /\ DOMAIN m.inode \subseteq Nat \ {NULL}
<1>1. PICK n \in Nat : DOMAIN m.dentry \subseteq 1 .. n /\ DOMAIN m.inode \subseteq 1 .. n
  BY DEF Memory
<1>2. /\ m = [dentry |-> m.dentry, inode |-> m.inode, map_inode |-> m.map_inode,
              max_ino |-> m.max_ino]
      /\ m.dentry \in [DOMAIN m.dentry -> Dentry] /\ m.inode \in [DOMAIN m.inode -> Inode]
      /\ m.map_inode \in SUBSET Bit /\ m.max_ino \in {0, MaxIno}
  BY DEF Memory
<1>3. /\ Top(m.dentry) \in Nat /\ DOMAIN m.dentry \subseteq 1 .. Top(m.dentry)
      /\ Top(m.dentry) + 1 \notin DOMAIN m.dentry
  BY <1>1, TopOf
<1>4. /\ Top(m.inode) \in Nat /\ DOMAIN m.inode \subseteq 1 .. Top(m.inode)
      /\ Top(m.inode) + 1 \notin DOMAIN m.inode
  BY <1>1, TopOf
<1>5. DOMAIN m.dentry \subseteq Nat \ {NULL} /\ DOMAIN m.inode \subseteq Nat \ {NULL}
  BY <1>1 DEF NULL
<1> QED
  BY <1>2, <1>3, <1>4, <1>5

\* A memory from its parts.
LEMMA MemoryOf ==
    ASSUME NEW f, NEW g, NEW map \in SUBSET Bit, NEW max \in {0, MaxIno},
           f \in [DOMAIN f -> Dentry], g \in [DOMAIN g -> Inode],
           NEW k \in Nat, NEW l \in Nat, DOMAIN f \subseteq 1 .. k, DOMAIN g \subseteq 1 .. l
    PROVE  Memory([dentry |-> f, inode |-> g, map_inode |-> map, max_ino |-> max])
<1>1. \E n \in Nat : DOMAIN f \subseteq 1 .. n /\ DOMAIN g \subseteq 1 .. n
  <2>1. CASE k <= l
    BY <2>1
  <2>2. CASE ~(k <= l)
    BY <2>2
  <2> QED
    BY <2>1, <2>2
<1> QED
  BY <1>1 DEF Memory

\* What a dentry of the memory holds.
LEMMA DentryFields ==
    ASSUME NEW m, Memory(m), NEW d \in DOMAIN m.dentry
    PROVE  /\ m.dentry[d] \in Dentry /\ m.dentry[d].fname \in Name \cup {"/"}
           /\ m.dentry[d].parent \in Nat /\ m.dentry[d].ino \in Bit \cup {None}
           /\ m.dentry[d].inode \in Nat /\ m.dentry[d].ftype \in FileType
<1>1. m.dentry[d] \in Dentry
  BY MemoryFields
<1> QED
  BY <1>1 DEF Dentry

\* What an inode of the memory holds.
LEMMA InodeFields ==
    ASSUME NEW m, Memory(m), NEW i \in DOMAIN m.inode
    PROVE  /\ m.inode[i] \in Inode /\ m.inode[i].ino \in Bit /\ m.inode[i].size \in Nat
           /\ m.inode[i].target_path \in Target \cup {Junk} /\ m.inode[i].dentry \in Nat
           /\ m.inode[i].dentrys \in Seq(Nat) /\ m.inode[i].data \in Seq(Byte \cup {Junk})
           /\ Len(m.inode[i].dentrys) \in Nat
           /\ DOMAIN m.inode[i].dentrys = 1 .. Len(m.inode[i].dentrys)
           /\ \A k \in DOMAIN m.inode[i].dentrys : m.inode[i].dentrys[k] \in Nat
<1>1. m.inode[i] \in Inode
  BY MemoryFields
<1>2. m.inode[i].dentrys \in Seq(Nat)
  BY <1>1 DEF Inode
<1>3. /\ Len(m.inode[i].dentrys) \in Nat
      /\ DOMAIN m.inode[i].dentrys = 1 .. Len(m.inode[i].dentrys)
      /\ \A k \in DOMAIN m.inode[i].dentrys : m.inode[i].dentrys[k] \in Nat
  BY <1>2, LenProperties
<1> QED
  BY <1>1, <1>2, <1>3 DEF Inode

\* Whether the heap is in order depends on the dentries and the inodes.
LEMMA SameHeap ==
    ASSUME NEW m, NEW n, NEW x, HeapBut(m, x), Memory(n), n.dentry = m.dentry, n.inode = m.inode
    PROVE  HeapBut(n, x) /\ Linked(n) = Linked(m)
<1>1. \A i : List(n, i) = List(m, i)
  BY DEF List
<1>2. Linked(n) = Linked(m)
  BY <1>1 DEF Linked
<1>3. Rooted(n) /\ Allocated(n)
  BY <1>2 DEF HeapBut, Rooted, Allocated
<1>4. ListedOnce(n)
  BY <1>1 DEF HeapBut, ListedOnce
<1>5. Lead(n, x)
  BY <1>2 DEF HeapBut, Lead
<1>6. \A i : PointsBack(m, i) <=> PointsBack(n, i)
  BY DEF PointsBack
<1>7. Back(n, x)
  BY <1>2, <1>6 DEF HeapBut, Back
<1>8. Parents(n)
  BY <1>1 DEF HeapBut, Parents
<1> QED
  BY <1>2, <1>3, <1>4, <1>5, <1>7, <1>8 DEF HeapBut

\* What is listed is linked.
LEMMA ListedIsLinked ==
    ASSUME NEW m, NEW i \in DOMAIN m.inode
    PROVE  /\ List(m, i) \subseteq Linked(m)
           /\ \A k \in DOMAIN m.inode[i].dentrys : m.inode[i].dentrys[k] \in List(m, i)
BY DEF Linked, List, ToSet

\* What is linked is the root's dentry or listed.
LEMMA LinkedIsListed ==
    ASSUME NEW m, NEW d \in Linked(m)
    PROVE  d = Root \/ \E i \in DOMAIN m.inode : d \in List(m, i)
BY DEF Linked

\* A dentry that is linked, and the inode it leads to.
LEMMA LinkedFields ==
    ASSUME NEW m, NEW x, HeapBut(m, x), NEW d \in Linked(m)
    PROVE  /\ d \in DOMAIN m.dentry /\ d # NULL
           /\ d # x /\ m.dentry[d].inode # NULL =>
                 LET i == m.dentry[d].inode
                 IN  /\ i \in DOMAIN m.inode /\ m.inode[i].dentry \in DOMAIN m.dentry
                     /\ m.dentry[m.inode[i].dentry].inode = i
                     /\ Is(m, i, "SFS_REG_FILE") => Len(m.inode[i].data) = Cells
<1>1. d \in DOMAIN m.dentry /\ d # NULL
  BY MemoryFields DEF HeapBut, Allocated
<1>2. ASSUME d # x, m.dentry[d].inode # NULL
      PROVE  m.dentry[d].inode \in DOMAIN m.inode /\ PointsBack(m, m.dentry[d].inode)
  BY <1>2 DEF HeapBut, Lead, Back
<1> QED
  BY <1>1, <1>2 DEF PointsBack, Is
-------------------------------------------------------------------------------
\* A list without one of its places.
LEMMA RemovedAt ==
    ASSUME NEW S, NEW list \in Seq(S), NEW k \in DOMAIN list
    PROVE  /\ RemoveAt(list, k) \in Seq(S) /\ Len(RemoveAt(list, k)) = Len(list) - 1
           /\ \A l \in 1 .. Len(list) - 1 :
                 RemoveAt(list, k)[l] = IF l < k THEN list[l] ELSE list[l + 1]
<1> DEFINE n == Len(list)
           s == SubSeq(list, 1, k - 1)
           t == SubSeq(list, k + 1, n)
<1>1. n \in Nat /\ k \in 1 .. n /\ \A l \in 1 .. n : list[l] \in S
  BY LenProperties
<1>2. s \in Seq(S) /\ Len(s) = k - 1 /\ \A l \in 1 .. k - 1 : s[l] = list[l]
  <2>1. \A l \in 1 .. k - 1 : list[l] \in S
    BY <1>1
  <2>2. /\ s \in Seq(S) /\ Len(s) = IF 1 <= k - 1 THEN k - 1 - 1 + 1 ELSE 0
        /\ \A l \in 1 .. k - 1 - 1 + 1 : s[l] = list[1 + l - 1]
    BY <1>1, <2>1, SubSeqProperties
  <2> HIDE DEF s
  <2> QED
    BY <1>1, <2>2
<1>3. t \in Seq(S) /\ Len(t) = n - k /\ \A l \in 1 .. n - k : t[l] = list[k + l]
  <2>1. \A l \in k + 1 .. n : list[l] \in S
    BY <1>1
  <2>2. /\ t \in Seq(S) /\ Len(t) = IF k + 1 <= n THEN n - (k + 1) + 1 ELSE 0
        /\ \A l \in 1 .. n - (k + 1) + 1 : t[l] = list[(k + 1) + l - 1]
    BY <1>1, <2>1, SubSeqProperties
  <2> HIDE DEF t
  <2>3. \A l \in 1 .. n - k : t[l] = list[k + l]
    <3>1. ASSUME NEW l \in 1 .. n - k PROVE l \in 1 .. n - (k + 1) + 1 /\ (k + 1) + l - 1 = k + l
      BY <1>1
    <3> QED
      BY <2>2, <3>1
  <2> QED
    BY <1>1, <2>2, <2>3
<1>4. RemoveAt(list, k) = s \o t
  BY DEF RemoveAt
<1>5. /\ s \o t \in Seq(S) /\ Len(s \o t) = Len(s) + Len(t)
      /\ \A l \in 1 .. Len(s) + Len(t) : (s \o t)[l] = IF l <= Len(s) THEN s[l] ELSE t[l - Len(s)]
  BY <1>2, <1>3, ConcatProperties
<1> PICK r : r = s \o t
  OBVIOUS
<1>5a. /\ r \in Seq(S) /\ Len(r) = Len(s) + Len(t)
       /\ \A l \in 1 .. Len(s) + Len(t) : r[l] = IF l <= Len(s) THEN s[l] ELSE t[l - Len(s)]
  BY <1>5
<1> HIDE DEF s, t, n
<1>6. Len(s) + Len(t) = n - 1 /\ Len(r) = n - 1
  BY <1>1, <1>2, <1>3, <1>5a
<1>7. ASSUME NEW l \in 1 .. n - 1 PROVE r[l] = IF l < k THEN list[l] ELSE list[l + 1]
  <2>1. r[l] = IF l <= k - 1 THEN s[l] ELSE t[l - (k - 1)]
    BY <1>2, <1>5a, <1>6
  <2>2. CASE l < k
    BY <1>1, <1>2, <2>1, <2>2
  <2>3. CASE ~(l < k)
    <3>1. l - (k - 1) \in 1 .. n - k /\ k + (l - (k - 1)) = l + 1 /\ ~(l <= k - 1)
      BY <1>1, <2>3
    <3>2. t[l - (k - 1)] = list[l + 1]
      BY <1>3, <3>1
    <3> QED
      BY <2>1, <2>3, <3>1, <3>2
  <2> QED
    BY <2>2, <2>3
<1> QED
  BY <1>4, <1>5a, <1>6, <1>7 DEF n

\* A list without one of its values, which stood there once.
LEMMA Removed ==
    ASSUME NEW S, NEW list \in Seq(S), Once(list), NEW k \in DOMAIN list
    PROVE  LET r == RemoveAt(list, k)
           IN  /\ r \in Seq(S) /\ Len(r) = Len(list) - 1 /\ Once(r)
               /\ ToSet(r) = ToSet(list) \ {list[k]}
<1> DEFINE n == Len(list)
<1> PICK r : r = RemoveAt(list, k)
  OBVIOUS
<1>1. n \in Nat /\ DOMAIN list = 1 .. n /\ k \in 1 .. n
  BY LenProperties
<1>2. /\ r \in Seq(S) /\ Len(r) = n - 1
      /\ \A l \in 1 .. n - 1 : r[l] = IF l < k THEN list[l] ELSE list[l + 1]
  BY RemovedAt
<1>3. DOMAIN r = 1 .. n - 1
  BY <1>2, LenProperties
<1> DEFINE old(l) == IF l < k THEN l ELSE l + 1
<1> HIDE DEF n
<1>4. \A l \in DOMAIN r : old(l) \in DOMAIN list /\ old(l) # k /\ r[l] = list[old(l)]
  BY <1>1, <1>2, <1>3
<1>5. \A l, p \in DOMAIN r : old(l) = old(p) => l = p
  BY <1>1, <1>3
<1>6. \A l \in DOMAIN list : l # k => \E p \in DOMAIN r : old(p) = l
  <2> SUFFICES ASSUME NEW l \in DOMAIN list, l # k PROVE \E p \in DOMAIN r : old(p) = l
    OBVIOUS
  <2>1. CASE l < k
    <3>1. l \in DOMAIN r /\ old(l) = l
      BY <1>1, <1>3, <2>1
    <3> QED
      BY <3>1
  <2>2. CASE ~(l < k)
    <3>1. l - 1 \in DOMAIN r /\ old(l - 1) = l
      BY <1>1, <1>3, <2>2
    <3> QED
      BY <3>1
  <2> QED
    BY <2>1, <2>2
<1> HIDE DEF old
<1>7. Once(r)
  BY <1>4, <1>5 DEF Once
<1>8. ToSet(r) \subseteq ToSet(list) \ {list[k]}
  BY <1>4 DEF Once, ToSet
<1>9. ToSet(list) \ {list[k]} \subseteq ToSet(r)
  <2> SUFFICES ASSUME NEW l \in DOMAIN list, list[l] # list[k] PROVE list[l] \in ToSet(r)
    BY DEF ToSet
  <2>1. PICK p \in DOMAIN r : old(p) = l
    BY <1>6
  <2> QED
    BY <1>4, <2>1 DEF ToSet
<1> QED
  BY <1>2, <1>7, <1>8, <1>9 DEF n
-------------------------------------------------------------------------------
\* n is what is left of m: dentries and inodes are gone, and the lists lack some.
Pruned(m, n) ==
    /\ n = [dentry |-> n.dentry, inode |-> n.inode, map_inode |-> n.map_inode,
            max_ino |-> m.max_ino]
    /\ n.map_inode \subseteq m.map_inode
    /\ n.dentry = [d \in DOMAIN n.dentry |-> m.dentry[d]] /\ DOMAIN n.dentry \subseteq DOMAIN m.dentry
    /\ n.inode = [i \in DOMAIN n.inode |-> n.inode[i]] /\ DOMAIN n.inode \subseteq DOMAIN m.inode
    /\ \A i \in DOMAIN n.inode :
          /\ n.inode[i] = [m.inode[i] EXCEPT !.dentrys = n.inode[i].dentrys]
          /\ n.inode[i].dentrys \in Seq(Nat) /\ Once(n.inode[i].dentrys)
          /\ Len(n.inode[i].dentrys) <= Len(m.inode[i].dentrys)
          /\ List(n, i) \subseteq List(m, i)

\* The limit stays.
LEMMA PrunedMax ==
    ASSUME NEW m, NEW n, Pruned(m, n)
    PROVE  n.max_ino = m.max_ino
<1>1. n = [dentry |-> n.dentry, inode |-> n.inode, map_inode |-> n.map_inode, max_ino |-> m.max_ino]
  BY DEF Pruned
<1> QED
  BY ONLY <1>1

\* The inodes left hold what they held.
LEMMA PrunedInode ==
    ASSUME NEW m, NEW n, Memory(m), Pruned(m, n), NEW i \in DOMAIN n.inode
    PROVE  /\ i \in DOMAIN m.inode /\ n.inode[i] \in Inode /\ n.inode[i].dentry = m.inode[i].dentry
           /\ n.inode[i].data = m.inode[i].data /\ n.inode[i].ino = m.inode[i].ino
           /\ n.inode[i].size = m.inode[i].size /\ n.inode[i].target_path = m.inode[i].target_path
<1>1. i \in DOMAIN m.inode /\ m.inode[i] \in Inode
  BY InodeFields DEF Pruned
<1>2. n.inode[i] = [m.inode[i] EXCEPT !.dentrys = n.inode[i].dentrys] /\ n.inode[i].dentrys \in Seq(Nat)
  BY DEF Pruned
<1>3. n.inode[i] = [ino |-> m.inode[i].ino, size |-> m.inode[i].size,
                    target_path |-> m.inode[i].target_path, dentry |-> m.inode[i].dentry,
                    dentrys |-> n.inode[i].dentrys, data |-> m.inode[i].data]
  BY <1>1, <1>2 DEF Inode
<1> QED
  BY <1>1, <1>2, <1>3 DEF Inode

\* What is left is a memory, and no more is linked.
LEMMA PrunedMemory ==
    ASSUME NEW m, NEW n, Memory(m), Pruned(m, n)
    PROVE  Memory(n) /\ Linked(n) \subseteq Linked(m)
<1>1. \A d \in DOMAIN n.dentry : n.dentry[d] = m.dentry[d] /\ m.dentry[d] \in Dentry
  BY DentryFields DEF Pruned
<1>2. n.dentry \in [DOMAIN n.dentry -> Dentry]
  BY <1>1 DEF Pruned
<1>3. \A i \in DOMAIN n.inode : n.inode[i] \in Inode
  BY PrunedInode
<1>4. n.inode \in [DOMAIN n.inode -> Inode]
  BY <1>3 DEF Pruned
<1>5. /\ n.map_inode \in SUBSET Bit /\ m.max_ino \in {0, MaxIno}
      /\ Top(m.dentry) \in Nat /\ DOMAIN n.dentry \subseteq 1 .. Top(m.dentry)
      /\ Top(m.inode) \in Nat /\ DOMAIN n.inode \subseteq 1 .. Top(m.inode)
  BY MemoryFields DEF Pruned
<1>6. Memory([dentry |-> n.dentry, inode |-> n.inode, map_inode |-> n.map_inode,
              max_ino |-> m.max_ino])
  BY <1>2, <1>4, <1>5, MemoryOf
<1>7. \A i \in DOMAIN n.inode : i \in DOMAIN m.inode /\ List(n, i) \subseteq List(m, i)
  BY DEF Pruned
<1>8. Linked(n) \subseteq Linked(m)
  BY <1>7 DEF Linked
<1> QED
  BY <1>6, <1>8 DEF Pruned

(***************************************************************************)
(* The heap stays in order when what is still linked is still there, and   *)
(* so is what it leads to.                                                 *)
(***************************************************************************)
LEMMA PrunedHeap ==
    ASSUME NEW m, NEW n, NEW x, NEW y, HeapBut(m, x), Pruned(m, n),
           Linked(n) \subseteq DOMAIN n.dentry,
           \A d \in Linked(n) \ {y} :
              /\ d # x
              /\ m.dentry[d].inode # NULL =>
                    /\ m.dentry[d].inode \in DOMAIN n.inode
                    /\ m.inode[m.dentry[d].inode].dentry \in DOMAIN n.dentry
    PROVE  HeapBut(n, y)
<1>1. Memory(m) /\ Memory(n) /\ Linked(n) \subseteq Linked(m)
  BY PrunedMemory DEF HeapBut
<1>2. \A d \in DOMAIN n.dentry : n.dentry[d] = m.dentry[d]
  BY DEF Pruned
<1>3. \A i \in DOMAIN n.inode : /\ i \in DOMAIN m.inode /\ List(n, i) \subseteq List(m, i)
                                /\ n.inode[i].dentry = m.inode[i].dentry
                                /\ n.inode[i].data = m.inode[i].data /\ Once(n.inode[i].dentrys)
  <2> SUFFICES ASSUME NEW i \in DOMAIN n.inode
               PROVE  /\ i \in DOMAIN m.inode /\ List(n, i) \subseteq List(m, i)
                      /\ n.inode[i].dentry = m.inode[i].dentry
                      /\ n.inode[i].data = m.inode[i].data /\ Once(n.inode[i].dentrys)
    OBVIOUS
  <2>1. n.inode[i].dentry = m.inode[i].dentry /\ n.inode[i].data = m.inode[i].data
    BY <1>1, PrunedInode
  <2> QED
    BY <2>1 DEF Pruned
<1>4. Root \in Linked(n)
  BY DEF Linked
<1>5. Rooted(n)
  BY <1>2, <1>4 DEF Rooted, HeapBut
<1>6. ListedOnce(n)
  BY <1>3 DEF ListedOnce, HeapBut
<1>7. Lead(n, y)
  BY <1>1, <1>2 DEF Lead, HeapBut
<1>8. Back(n, y)
  <2> SUFFICES ASSUME NEW d \in Linked(n) \ {y}, n.dentry[d].inode # NULL
               PROVE  PointsBack(n, n.dentry[d].inode)
    BY DEF Back
  <2>1. d \in Linked(m) \ {x} /\ n.dentry[d] = m.dentry[d]
    BY <1>1, <1>2
  <2>2. PointsBack(m, m.dentry[d].inode)
    BY <2>1 DEF Back, HeapBut
  <2> QED
    BY <1>2, <1>3, <2>1, <2>2 DEF PointsBack
<1>9. Parents(n)
  <2> SUFFICES ASSUME NEW i \in DOMAIN n.inode, NEW d \in List(n, i)
               PROVE  n.dentry[d].parent = n.inode[i].dentry
    BY DEF Parents
  <2>1. d \in DOMAIN n.dentry
    BY ListedIsLinked
  <2> QED
    BY <1>2, <1>3, <2>1 DEF Parents, HeapBut
<1> QED
  BY <1>1, <1>5, <1>6, <1>7, <1>8, <1>9 DEF HeapBut, Allocated
-------------------------------------------------------------------------------
(***************************************************************************)
(* sfs_drop_dentry takes the dentry out of the list, if it is in it, and   *)
(* leaves the rest as it was.                                              *)
(***************************************************************************)
LEMMA DropDentry ==
    ASSUME NEW m, NEW x, HeapBut(m, x), NEW i \in DOMAIN m.inode, NEW d
    PROVE  LET n == sfs_drop_dentry(m, i, d)
           IN  /\ Pruned(m, n) /\ n.dentry = m.dentry /\ n.map_inode = m.map_inode
               /\ DOMAIN n.inode = DOMAIN m.inode /\ d \notin List(n, i)
               /\ List(n, i) = List(m, i) \ {d}
               /\ \A j \in DOMAIN m.inode : j # i => n.inode[j] = m.inode[j]
<1> DEFINE list == m.inode[i].dentrys
           rest == IF Places(list, d) = {} THEN list ELSE RemoveAt(list, Min(Places(list, d)))
<1> PICK n : n = sfs_drop_dentry(m, i, d)
  OBVIOUS
<1>0. Memory(m) /\ list \in Seq(Nat) /\ Once(list) /\ Len(list) \in Nat /\ DOMAIN list = 1 .. Len(list)
  BY InodeFields DEF HeapBut, ListedOnce
<1>1. /\ m = [dentry |-> m.dentry, inode |-> m.inode, map_inode |-> m.map_inode, max_ino |-> m.max_ino]
      /\ m.inode \in [DOMAIN m.inode -> Inode] /\ m.dentry \in [DOMAIN m.dentry -> Dentry]
  BY <1>0, MemoryFields
<1>2. rest \in Seq(Nat) /\ Once(rest) /\ Len(rest) <= Len(list) /\ ToSet(rest) = ToSet(list) \ {d}
  <2>1. CASE Places(list, d) = {}
    <3>1. \A k \in DOMAIN list : list[k] # d
      BY <2>1 DEF Places
    <3>2. d \notin ToSet(list)
      BY <3>1 DEF ToSet
    <3> HIDE DEF list
    <3> QED
      BY <1>0, <2>1, <3>2
  <2>2. CASE Places(list, d) # {}
    <3>1. Places(list, d) \in SUBSET Nat
      BY <1>0 DEF Places
    <3> DEFINE k == Min(Places(list, d))
    <3>2. k \in Places(list, d)
      BY <2>2, <3>1, MinOf
    <3>3. k \in DOMAIN list /\ list[k] = d
      BY <3>2 DEF Places
    <3> HIDE DEF k, list
    <3>4. LET r == RemoveAt(list, k)
          IN  r \in Seq(Nat) /\ Len(r) = Len(list) - 1 /\ Once(r) /\ ToSet(r) = ToSet(list) \ {d}
      BY <1>0, <3>3, Removed
    <3>5. rest = RemoveAt(list, k)
      BY <2>2 DEF k
    <3> HIDE DEF rest
    <3> QED
      BY <1>0, <3>4, <3>5
  <2> QED
    BY <2>1, <2>2
<1> HIDE DEF rest
<1>3. n = [dentry |-> m.dentry, inode |-> [m.inode EXCEPT ![i].dentrys = rest],
           map_inode |-> m.map_inode, max_ino |-> m.max_ino]
  BY <1>1 DEF sfs_drop_dentry, rest
<1>4. /\ n.dentry = m.dentry /\ n.map_inode = m.map_inode /\ n.max_ino = m.max_ino
      /\ n.inode = [m.inode EXCEPT ![i].dentrys = rest]
  BY <1>3
<1>5. /\ DOMAIN n.inode = DOMAIN m.inode
      /\ n.inode[i] = [m.inode[i] EXCEPT !.dentrys = rest]
      /\ \A j \in DOMAIN m.inode : j # i => n.inode[j] = m.inode[j]
  BY <1>1, <1>4
<1>6. n.inode[i].dentrys = rest /\ List(n, i) = List(m, i) \ {d}
  <2>1. m.inode[i] \in Inode
    BY <1>1
  <2>2. n.inode[i].dentrys = rest
    BY <1>5, <2>1 DEF Inode
  <2> QED
    BY <1>2, <2>2 DEF List
<1>7. ASSUME NEW j \in DOMAIN n.inode
      PROVE  /\ n.inode[j] = [m.inode[j] EXCEPT !.dentrys = n.inode[j].dentrys]
             /\ n.inode[j].dentrys \in Seq(Nat) /\ Once(n.inode[j].dentrys)
             /\ Len(n.inode[j].dentrys) <= Len(m.inode[j].dentrys)
             /\ List(n, j) \subseteq List(m, j)
  <2>1. CASE j = i
    BY <1>2, <1>5, <1>6, <2>1
  <2>2. CASE j # i
    <3>1. n.inode[j] = m.inode[j] /\ j \in DOMAIN m.inode /\ m.inode[j] \in Inode
      BY <1>1, <1>5, <2>2
    <3>2. m.inode[j] = [m.inode[j] EXCEPT !.dentrys = m.inode[j].dentrys]
      BY <3>1 DEF Inode
    <3>3. m.inode[j].dentrys \in Seq(Nat) /\ Once(m.inode[j].dentrys) /\ Len(m.inode[j].dentrys) \in Nat
      BY <1>0, <3>1, InodeFields DEF HeapBut, ListedOnce
    <3> QED
      BY <3>1, <3>2, <3>3 DEF List
  <2> QED
    BY <2>1, <2>2
<1>8. Pruned(m, n)
  BY <1>1, <1>3, <1>4, <1>5, <1>7 DEF Pruned
<1> QED
  BY <1>4, <1>5, <1>6, <1>8
-------------------------------------------------------------------------------
\* The recursion over the steps below an inode is a function.
LEMMA BelowExists ==
    ASSUME NEW m, NEW i, Top(m.dentry) \in Nat
    PROVE  \E w : /\ w = [k \in 0 .. Top(m.dentry) |->
                             IF k = 0 THEN List(m, i)
                             ELSE w[k - 1] \cup UNION {Entries(m, d) : d \in w[k - 1]}]
                  /\ BelowInode(m, i) = w[Top(m.dentry)]
<1> DEFINE Next1(s) == s \cup UNION {Entries(m, d) : d \in s}
           Step(w, k) == IF k = 0 THEN List(m, i) ELSE Next1(w[k - 1])
           Built(w, n) == w = [k \in 0 .. n |-> Step(w, k)]
           S == {n \in Nat : ~ \E w : Built(w, n)}
<1>1. S = {}
  <2> SUFFICES ASSUME S # {} PROVE FALSE
    OBVIOUS
  <2>1. PICK n \in S : \A l \in S : n <= l
    BY Least
  <2>2. CASE n = 0
    <3> DEFINE w == [k \in 0 .. 0 |-> List(m, i)]
    <3>1. Built(w, 0)
      OBVIOUS
    <3> QED
      BY <2>1, <2>2, <3>1
  <2>3. CASE n > 0
    <3> HIDE DEF Built, Next1
    <3>0. n \in Nat /\ n - 1 \in Nat /\ ~(n <= n - 1)
      BY <2>1, <2>3
    <3>1. n - 1 \in Nat /\ n - 1 \notin S
      BY <2>1, <3>0
    <3>2. PICK v : Built(v, n - 1)
      BY <3>1
    <3> USE DEF Built
    <3> DEFINE w == [k \in 0 .. n |-> IF k = n THEN Next1(v[n - 1]) ELSE v[k]]
    <3>3. w[n - 1] = v[n - 1] /\ w[n] = Next1(v[n - 1])
      BY <3>0
    <3>4. ASSUME NEW k \in 0 .. n PROVE w[k] = Step(w, k)
      <4>1. CASE k = n
        BY <4>1, <3>3, <2>3
      <4>2. CASE k # n
        <5>1. k \in 0 .. n - 1 /\ w[k] = v[k] /\ v[k] = Step(v, k)
          BY <4>2, <3>2, <3>0
        <5>2. CASE k = 0
          BY <5>1, <5>2
        <5>3. CASE k # 0
          <6>1. k - 1 \in 0 .. n /\ k - 1 # n
            BY <5>1, <5>3, <3>0
          <6>2. w[k - 1] = v[k - 1]
            BY <6>1
          <6> QED
            BY <5>1, <5>3, <6>2
        <5> QED
          BY <5>2, <5>3
      <4> QED
        BY <4>1, <4>2
    <3>5. Built(w, n)
      <4>1. w = [k \in 0 .. n |-> w[k]]
        OBVIOUS
      <4> HIDE DEF w, Step
      <4> QED
        BY <3>4, <4>1
    <3> HIDE DEF w, Built
    <3> QED
      BY <2>1, <3>5
  <2> QED
    BY <2>1, <2>2, <2>3
<1>2. \E w : Built(w, Top(m.dentry))
  BY <1>1
<1> DEFINE below == CHOOSE w : Built(w, Top(m.dentry))
<1>3. Built(below, Top(m.dentry))
  BY <1>2
<1>4. BelowInode(m, i) = below[Top(m.dentry)]
  BY DEF BelowInode, List
<1> HIDE DEF below
<1> QED
  BY <1>3, <1>4

(***************************************************************************)
(* What is below an inode it lists itself or the inode of a dentry below   *)
(* it does.                                                                *)
(***************************************************************************)
LEMMA BelowBy ==
    ASSUME NEW m, NEW i, Top(m.dentry) \in Nat
    PROVE  /\ List(m, i) \subseteq BelowInode(m, i)
           /\ \A e \in BelowInode(m, i) :
                 e \in List(m, i) \/ \E d \in BelowInode(m, i) : e \in Entries(m, d)
<1> DEFINE N == Top(m.dentry)
<1>0. N \in Nat
  OBVIOUS
<1>1. PICK w : /\ w = [k \in 0 .. N |-> IF k = 0 THEN List(m, i)
                                        ELSE w[k - 1] \cup UNION {Entries(m, d) : d \in w[k - 1]}]
               /\ BelowInode(m, i) = w[N]
  BY BelowExists
<1>2. /\ w[0] = List(m, i)
      /\ \A k \in 1 .. N : w[k] = w[k - 1] \cup UNION {Entries(m, d) : d \in w[k - 1]}
  <2>1. \A k \in 0 .. N : w[k] = IF k = 0 THEN List(m, i)
                                 ELSE w[k - 1] \cup UNION {Entries(m, d) : d \in w[k - 1]}
    BY <1>1
  <2> HIDE DEF N
  <2>2. 0 \in 0 .. N /\ \A k \in 1 .. N : k \in 0 .. N /\ k # 0
    BY <1>0
  <2> QED
    BY <2>1, <2>2
<1> HIDE DEF N
<1> DEFINE Good(k) == /\ List(m, i) \subseteq w[k]
                      /\ \A e \in w[k] : e \in List(m, i) \/ \E d \in w[k] : e \in Entries(m, d)
           S == {k \in 0 .. N : ~Good(k)}
<1>3. S = {}
  <2> SUFFICES ASSUME S # {} PROVE FALSE
    OBVIOUS
  <2>0. S \in SUBSET Nat
    BY <1>0
  <2>1. PICK k \in S : \A l \in S : k <= l
    BY <2>0, Least
  <2>2. Good(0)
    BY <1>2
  <2>3. k # 0
    BY <2>1, <2>2
  <2>4. k \in 1 .. N /\ k - 1 \in 0 .. N /\ ~(k <= k - 1)
    BY <2>1, <2>3, <1>0
  <2>5. Good(k - 1)
    BY <2>1, <2>4
  <2>6. w[k] = w[k - 1] \cup UNION {Entries(m, d) : d \in w[k - 1]}
    BY <1>2, <2>4
  <2>7. Good(k)
    BY <2>5, <2>6
  <2> QED
    BY <2>1, <2>7
<1>4. N \in 0 .. N /\ N \notin S
  BY <1>0, <1>3
<1>5. Good(N)
  BY <1>4
<1> QED
  BY <1>1, <1>5

\* Nothing is below an inode that lists nothing.
LEMMA NothingBelow ==
    ASSUME NEW m, NEW i, Top(m.dentry) \in Nat, List(m, i) = {}
    PROVE  BelowInode(m, i) = {}
<1> DEFINE N == Top(m.dentry)
<1>0. N \in Nat
  OBVIOUS
<1>1. PICK w : /\ w = [k \in 0 .. N |-> IF k = 0 THEN List(m, i)
                                        ELSE w[k - 1] \cup UNION {Entries(m, d) : d \in w[k - 1]}]
               /\ BelowInode(m, i) = w[N]
  BY BelowExists
<1>2. /\ w[0] = List(m, i)
      /\ \A k \in 1 .. N : w[k] = w[k - 1] \cup UNION {Entries(m, d) : d \in w[k - 1]}
  <2>1. \A k \in 0 .. N : w[k] = IF k = 0 THEN List(m, i)
                                 ELSE w[k - 1] \cup UNION {Entries(m, d) : d \in w[k - 1]}
    BY <1>1
  <2> HIDE DEF N
  <2>2. 0 \in 0 .. N /\ \A k \in 1 .. N : k \in 0 .. N /\ k # 0
    BY <1>0
  <2> QED
    BY <2>1, <2>2
<1> HIDE DEF N
<1> DEFINE S == {k \in 0 .. N : w[k] # {}}
<1>3. S = {}
  <2> SUFFICES ASSUME S # {} PROVE FALSE
    OBVIOUS
  <2>0. S \in SUBSET Nat
    BY <1>0
  <2>1. PICK k \in S : \A l \in S : k <= l
    BY <2>0, Least
  <2>2. k # 0
    BY <2>1, <1>2
  <2>3. k \in 1 .. N /\ k - 1 \in 0 .. N /\ ~(k <= k - 1)
    BY <2>1, <2>2, <1>0
  <2>4. w[k - 1] = {}
    BY <2>1, <2>3
  <2>5. w[k] = w[k - 1] \cup UNION {Entries(m, d) : d \in w[k - 1]}
    BY <1>2, <2>3
  <2> QED
    BY <2>1, <2>4, <2>5
<1>4. N \in 0 .. N /\ N \notin S
  BY <1>0, <1>3
<1> QED
  BY <1>1, <1>4

(***************************************************************************)
(* What is below an inode is linked and not the root's dentry, and is      *)
(* listed by one of the inodes that sfs_drop_inode meets.                  *)
(***************************************************************************)
LEMMA BelowLinked ==
    ASSUME NEW m, NEW x, HeapBut(m, x), NEW i \in DOMAIN m.inode, NEW e \in BelowInode(m, i)
    PROVE  /\ e \in Linked(m) \ {Root}
           /\ \E j \in DOMAIN m.inode : j \in Dropped(m, i) /\ e \in List(m, j)
<1>1. Top(m.dentry) \in Nat
  BY MemoryFields DEF HeapBut
<1>2. e \in List(m, i) \/ \E d \in BelowInode(m, i) : e \in Entries(m, d)
  BY <1>1, BelowBy
<1>3. \E j \in DOMAIN m.inode : j \in Dropped(m, i) /\ e \in List(m, j)
  <2>1. CASE e \in List(m, i)
    BY <2>1 DEF Dropped
  <2>2. CASE \E d \in BelowInode(m, i) : e \in Entries(m, d)
    <3>1. PICK d \in BelowInode(m, i) : e \in Entries(m, d)
      BY <2>2
    <3>2. m.dentry[d].inode \in DOMAIN m.inode /\ e \in List(m, m.dentry[d].inode)
      BY <3>1 DEF Entries, List
    <3> QED
      BY <3>1, <3>2 DEF Dropped
  <2> QED
    BY <1>2, <2>1, <2>2
<1>4. PICK j \in DOMAIN m.inode : j \in Dropped(m, i) /\ e \in List(m, j)
  BY <1>3
<1>5. e \in Linked(m) /\ e # Root
  BY <1>4, ListedIsLinked DEF HeapBut, ListedOnce
<1> QED
  BY <1>3, <1>5
-------------------------------------------------------------------------------
\* What sfs_drop_inode leaves: the dentry d of inode i is still listed.
Shed(m, n, d, i) ==
    /\ Pruned(m, n) /\ HeapBut(n, d)
    /\ i \in DOMAIN m.inode /\ Dropped(m, i) \subseteq DOMAIN m.inode
    /\ n.map_inode = m.map_inode \ {m.inode[j].ino : j \in Dropped(m, i)}
    /\ DOMAIN n.dentry = DOMAIN m.dentry \ BelowInode(m, i)
    /\ DOMAIN n.inode = {j \in DOMAIN m.inode : j \in Dropped(m, i) => Is(m, j, "SFS_DIR")}
    /\ \A j \in DOMAIN n.inode : /\ j \notin Dropped(m, i) => n.inode[j] = m.inode[j]
                                 /\ j \in Dropped(m, i) => List(n, j) = {}
    /\ Linked(n) \subseteq Linked(m) \ BelowInode(m, i)
    /\ \A e \in Linked(n) \ {d} : m.dentry[e].inode \notin Dropped(m, i)

(***************************************************************************)
(* sfs_drop_inode of the inode of a dentry d that is not the root's, when  *)
(* all the inodes it meets are loaded: what is below d is gone, d leads    *)
(* nowhere, and the rest is as it was.                                     *)
(***************************************************************************)
LEMMA DropInode ==
    ASSUME NEW m, Heap(m), NEW d \in Linked(m) \ {Root}, NEW i, i = m.dentry[d].inode,
           NULL \notin Dropped(m, i), m.dentry[Root].inode # NULL
    PROVE  Shed(m, sfs_drop_inode(m, i), d, i)
<1> DEFINE B == BelowInode(m, i)
           gone == Dropped(m, i)
<1>p. PICK n : n = sfs_drop_inode(m, i)
  OBVIOUS
<1>0. /\ Memory(m) /\ Top(m.dentry) \in Nat /\ Root \in Linked(m) /\ d # NULL
      /\ d \in DOMAIN m.dentry
  BY <1>p, MemoryFields, LinkedFields DEF Heap, HeapBut, Linked
<1>1. i \in gone /\ i # NULL
  BY DEF Dropped
<1>2. i \in DOMAIN m.inode
  BY <1>0, <1>1, LinkedFields DEF Heap
<1>3. \A e \in B : e \in Linked(m) \ {Root}
  BY <1>2, BelowLinked DEF Heap
<1>4. \A e \in B \cup {d} : m.dentry[e].inode \in gone /\ m.dentry[e].inode # NULL
  BY <1>1 DEF Dropped
<1>5. \A j \in gone : \E e \in B \cup {d} : j = m.dentry[e].inode
  BY DEF Dropped
<1>6. gone \subseteq DOMAIN m.inode
  <2> SUFFICES ASSUME NEW j \in gone PROVE j \in DOMAIN m.inode
    OBVIOUS
  <2>1. PICK e \in B \cup {d} : j = m.dentry[e].inode
    BY <1>5
  <2>2. e \in Linked(m) /\ e # NULL
    BY <1>3, LinkedFields DEF Heap
  <2> HIDE DEF gone, B
  <2> QED
    BY <1>4, <2>1, <2>2, LinkedFields DEF Heap
\* Who leads to one of the inodes that go is itself below d or d.
<1>7. ASSUME NEW e \in Linked(m), m.dentry[e].inode \in gone
      PROVE  e \in B \cup {d}
  <2>1. PICK c \in B \cup {d} : m.dentry[e].inode = m.dentry[c].inode
    BY <1>5, <1>7
  <2>2. c \in Linked(m) /\ c # NULL /\ e # NULL /\ m.dentry[c].inode # NULL
    BY <1>3, <1>4, LinkedFields DEF Heap
  <2>3. e = c
    BY <2>1, <2>2 DEF Heap, HeapBut, Lead
  <2> QED
    BY <2>3
<1>8. i # m.dentry[Root].inode
  BY <1>0, <1>1, <1>3, <1>7
<1> DEFINE kept == {j \in DOMAIN m.inode : j \in gone => Is(m, j, "SFS_DIR")}
<1>9. /\ m = [dentry |-> m.dentry, inode |-> m.inode, map_inode |-> m.map_inode, max_ino |-> m.max_ino]
      /\ m.inode \in [DOMAIN m.inode -> Inode] /\ m.dentry \in [DOMAIN m.dentry -> Dentry]
  BY <1>0, MemoryFields
<1>10. n = [dentry |-> [e \in DOMAIN m.dentry \ B |-> m.dentry[e]],
            inode |-> [j \in kept |-> IF j \in gone THEN [m.inode[j] EXCEPT !.dentrys = <<>>]
                                      ELSE m.inode[j]],
            map_inode |-> m.map_inode \ {m.inode[j].ino : j \in gone}, max_ino |-> m.max_ino]
  <2>1. n = [m EXCEPT
                !.map_inode = @ \ {m.inode[j].ino : j \in gone},
                !.dentry = Restrict(@, DOMAIN @ \ B),
                !.inode  = [j \in {j \in DOMAIN @ : j \in gone => Is(m, j, "SFS_DIR")} |->
                               IF j \in gone THEN [@[j] EXCEPT !.dentrys = <<>>] ELSE @[j]]]
    BY <1>p, <1>8 DEF sfs_drop_inode
  <2> HIDE DEF gone, B
  <2> QED
    BY <1>9, <2>1 DEF Restrict
<1> HIDE DEF B, gone
<1>11. /\ DOMAIN n.dentry = DOMAIN m.dentry \ B /\ DOMAIN n.inode = kept
       /\ n.dentry = [e \in DOMAIN m.dentry \ B |-> m.dentry[e]]
       /\ n.map_inode = m.map_inode \ {m.inode[j].ino : j \in gone} /\ n.max_ino = m.max_ino
       /\ n = [dentry |-> n.dentry, inode |-> n.inode, map_inode |-> n.map_inode,
               max_ino |-> m.max_ino]
       /\ n.inode = [j \in DOMAIN n.inode |-> n.inode[j]]
  BY <1>10
<1>12. \A j \in kept : n.inode[j] = IF j \in gone THEN [m.inode[j] EXCEPT !.dentrys = <<>>]
                                    ELSE m.inode[j]
  BY <1>10
<1>13. ASSUME NEW j \in kept
       PROVE  /\ j \notin gone => n.inode[j] = m.inode[j]
              /\ j \in gone => n.inode[j].dentrys = <<>> /\ List(n, j) = {}
              /\ n.inode[j] = [m.inode[j] EXCEPT !.dentrys = n.inode[j].dentrys]
              /\ n.inode[j].dentrys \in Seq(Nat) /\ Once(n.inode[j].dentrys)
              /\ Len(n.inode[j].dentrys) <= Len(m.inode[j].dentrys)
              /\ List(n, j) \subseteq List(m, j)
  <2>1. /\ m.inode[j] \in Inode /\ m.inode[j].dentrys \in Seq(Nat) /\ Once(m.inode[j].dentrys)
        /\ Len(m.inode[j].dentrys) \in Nat
    BY <1>0, InodeFields DEF Heap, HeapBut, ListedOnce
  <2>2. CASE j \in gone
    <3>1. n.inode[j] = [m.inode[j] EXCEPT !.dentrys = <<>>]
      BY <1>12, <2>2
    <3>2. n.inode[j].dentrys = <<>>
      BY <2>1, <3>1 DEF Inode
    <3>3. List(n, j) = {} /\ Once(n.inode[j].dentrys) /\ Len(n.inode[j].dentrys) = 0
      BY <3>2 DEF List, Once, ToSet
    <3> QED
      BY <2>1, <2>2, <3>1, <3>2, <3>3
  <2>3. CASE j \notin gone
    <3>1. n.inode[j] = m.inode[j]
      BY <1>12, <2>3
    <3>2. m.inode[j] = [m.inode[j] EXCEPT !.dentrys = m.inode[j].dentrys]
      BY <2>1 DEF Inode
    <3> QED
      BY <2>1, <2>3, <3>1, <3>2 DEF List
  <2> QED
    BY <2>2, <2>3
<1>14. Pruned(m, n)
  BY <1>11, <1>13 DEF Pruned
\* What is below d is linked no longer.
<1>15. ASSUME NEW e \in Linked(n) PROVE e \in Linked(m) /\ e \notin B
  <2>1. e \in Linked(m)
    BY <1>0, <1>14, PrunedMemory
  <2>2. CASE e = Root
    BY <1>3, <2>1, <2>2
  <2>3. CASE e # Root
    <3>1. PICK j \in DOMAIN n.inode : e \in List(n, j)
      BY <2>3, LinkedIsListed
    <3>2. j \in DOMAIN m.inode /\ j \notin gone /\ e \in List(m, j)
      BY <1>11, <1>13, <3>1
    <3>3. SUFFICES ASSUME e \in B PROVE FALSE
      BY <2>1
    <3>4. PICK l \in DOMAIN m.inode : l \in gone /\ e \in List(m, l)
      BY <1>2, <3>3, BelowLinked DEF Heap, B, gone
    <3>5. l = j
      BY <3>2, <3>4 DEF Heap, HeapBut, ListedOnce
    <3> QED
      BY <3>2, <3>4, <3>5
  <2> QED
    BY <2>2, <2>3
<1>16. \A e \in Linked(n) \ {d} : m.dentry[e].inode \notin gone
  BY <1>7, <1>15
<1>17. Linked(n) \subseteq DOMAIN n.dentry
  BY <1>11, <1>15, LinkedFields DEF Heap
<1>18. ASSUME NEW e \in Linked(n) \ {d}, m.dentry[e].inode # NULL
       PROVE  /\ m.dentry[e].inode \in DOMAIN n.inode
              /\ m.inode[m.dentry[e].inode].dentry \in DOMAIN n.dentry
  <2> DEFINE j == m.dentry[e].inode
             c == m.inode[j].dentry
  <2>1. e \in Linked(m) /\ e # NULL
    BY <1>15, LinkedFields DEF Heap
  <2>2. j \in DOMAIN m.inode /\ c \in DOMAIN m.dentry /\ m.dentry[c].inode = j
    BY <1>18, <2>1, LinkedFields DEF Heap
  <2>3. j \notin gone
    BY <1>16
  <2>4. c \notin B
    BY <1>4, <2>2, <2>3
  <2> HIDE DEF j, c
  <2> QED
    BY <1>11, <2>2, <2>3, <2>4 DEF j, c
<1>19. \A e \in Linked(n) \ {d} : e # NULL
  BY <1>15, LinkedFields DEF Heap
<1>20. HeapBut(n, d)
  BY <1>14, <1>17, <1>18, <1>19, PrunedHeap DEF Heap
<1> HIDE DEF kept
<1> QED
  BY <1>p, <1>2, <1>6, <1>11, <1>13, <1>14, <1>15, <1>16, <1>20 DEF B, gone, kept, Shed
-------------------------------------------------------------------------------
\* A list with a new value at its head.
LEMMA AtHead ==
    ASSUME NEW list \in Seq(Nat), Once(list), NEW d \in Nat, d \notin ToSet(list)
    PROVE  LET r == <<d>> \o list
           IN  /\ r \in Seq(Nat) /\ Len(r) = Len(list) + 1 /\ DOMAIN r = 1 .. Len(list) + 1
               /\ r[1] = d /\ Once(r) /\ ToSet(r) = ToSet(list) \cup {d}
               /\ \A k \in DOMAIN list : r[k + 1] = list[k]
<1> PICK r : r = <<d>> \o list
  OBVIOUS
<1>1. /\ <<d>> \in Seq(Nat) /\ Len(<<d>>) = 1 /\ DOMAIN <<d>> = {1} /\ <<d>>[1] = d
      /\ ToSet(<<d>>) = {d}
  BY Single
<1>2. Joined(Nat, <<d>>, list, r)
  BY <1>1, InARow
<1>3. Len(list) \in Nat /\ DOMAIN list = 1 .. Len(list)
  BY LenProperties
<1>4. /\ r \in Seq(Nat) /\ Len(r) = Len(list) + 1 /\ DOMAIN r = 1 .. Len(list) + 1
      /\ r[1] = d /\ ToSet(r) = ToSet(list) \cup {d}
      /\ \A k \in DOMAIN list : r[1 + k] = list[k]
  <2> HIDE DEF Joined
  <2>1. /\ r \in Seq(Nat) /\ Len(r) = Len(<<d>>) + Len(list) /\ DOMAIN r = 1 .. Len(<<d>>) + Len(list)
        /\ \A k \in DOMAIN <<d>> : r[k] = <<d>>[k]
        /\ \A k \in DOMAIN list : r[Len(<<d>>) + k] = list[k]
        /\ ToSet(r) = ToSet(<<d>>) \cup ToSet(list)
    BY <1>2 DEF Joined
  <2> QED
    BY <1>1, <1>3, <2>1
<1>5. \A k \in DOMAIN list : r[k + 1] = list[k]
  <2>1. \A k \in DOMAIN list : k + 1 = 1 + k
    BY <1>3
  <2> QED
    BY <1>4, <2>1
<1>6. Once(r)
  <2> SUFFICES ASSUME NEW k \in DOMAIN r, NEW l \in DOMAIN r, r[k] = r[l] PROVE k = l
    BY DEF Once
  <2>1. \A p \in DOMAIN r : p # 1 => p - 1 \in DOMAIN list /\ r[p] = list[p - 1] /\ r[p] \in ToSet(list)
    <3> SUFFICES ASSUME NEW p \in DOMAIN r, p # 1
                 PROVE  p - 1 \in DOMAIN list /\ r[p] = list[p - 1] /\ r[p] \in ToSet(list)
      OBVIOUS
    <3>1. p - 1 \in DOMAIN list /\ 1 + (p - 1) = p
      BY <1>3, <1>4
    <3>2. r[p] = list[p - 1]
      BY <1>4, <3>1
    <3> QED
      BY <3>1, <3>2 DEF ToSet
  <2>2. CASE k = 1 \/ l = 1
    BY <1>4, <2>1, <2>2
  <2>3. CASE k # 1 /\ l # 1
    <3>1. k - 1 = l - 1
      BY <2>1, <2>3 DEF Once
    <3> QED
      BY <1>3, <1>4, <3>1
  <2> QED
    BY <2>2, <2>3
<1> QED
  BY <1>4, <1>5, <1>6

\* Inode x with d at the head of its list.
Headed(x, d) == [x EXCEPT !.dentrys = <<d>> \o @]

\* sfs_alloc_dentry: the new dentry heads the list of its directory, and has no inode yet.
Added(m, n, i, rec) ==
    LET d == Top(m.dentry) + 1
    IN  /\ Heap(n) /\ Linked(n) = Linked(m) \cup {d} /\ d \notin DOMAIN m.dentry /\ d # Root
        /\ DOMAIN n.dentry = DOMAIN m.dentry \cup {d} /\ n.dentry[d] = rec
        /\ \A e \in DOMAIN m.dentry : n.dentry[e] = m.dentry[e]
        /\ DOMAIN n.inode = DOMAIN m.inode
        /\ n.map_inode = m.map_inode /\ n.max_ino = m.max_ino
        /\ \A j \in DOMAIN m.inode : j # i => n.inode[j] = m.inode[j]
        /\ n.inode[i] = Headed(m.inode[i], d)

LEMMA AllocDentry ==
    ASSUME NEW m, Heap(m), NEW i \in DOMAIN m.inode, NEW rec \in Dentry,
           rec.parent = m.inode[i].dentry, rec.inode = NULL
    PROVE  Added(m, sfs_alloc_dentry(m, i, rec), i, rec)
<1> DEFINE d == Top(m.dentry) + 1
           list == m.inode[i].dentrys
           grown == <<d>> \o list
<1>p. PICK n : n = sfs_alloc_dentry(m, i, rec)
  OBVIOUS
<1>0. /\ Memory(m) /\ Top(m.dentry) \in Nat /\ d \in Nat /\ d # NULL
      /\ d \notin DOMAIN m.dentry /\ d \notin Linked(m) /\ d # Root
      /\ Root \in DOMAIN m.dentry
  BY <1>p, MemoryFields DEF Heap, HeapBut, Allocated, Rooted, NULL
<1>1. /\ m = [dentry |-> m.dentry, inode |-> m.inode, map_inode |-> m.map_inode, max_ino |-> m.max_ino]
      /\ m.inode \in [DOMAIN m.inode -> Inode] /\ m.dentry \in [DOMAIN m.dentry -> Dentry]
      /\ m.map_inode \in SUBSET Bit /\ m.max_ino \in {0, MaxIno}
      /\ Top(m.inode) \in Nat /\ DOMAIN m.inode \subseteq 1 .. Top(m.inode)
      /\ DOMAIN m.dentry \subseteq 1 .. Top(m.dentry)
  BY <1>0, MemoryFields
<1>2. /\ list \in Seq(Nat) /\ Once(list) /\ d \notin ToSet(list) /\ m.inode[i] \in Inode
  <2>1. List(m, i) \subseteq Linked(m)
    BY ListedIsLinked
  <2> QED
    BY <1>0, <2>1, InodeFields DEF Heap, HeapBut, ListedOnce, List
<1>3. /\ grown \in Seq(Nat) /\ Once(grown) /\ ToSet(grown) = ToSet(list) \cup {d}
  <2> HIDE DEF d, list
  <2> QED
    BY <1>0, <1>2, AtHead
<1>4. n = [dentry |-> With(m.dentry, d, rec), inode |-> [m.inode EXCEPT ![i].dentrys = grown],
           map_inode |-> m.map_inode, max_ino |-> m.max_ino]
  <2> HIDE DEF d
  <2>1. n = [m EXCEPT !.dentry = With(@, d, rec), !.inode[i].dentrys = <<d>> \o @]
    BY <1>p DEF sfs_alloc_dentry, d
  <2> QED
    BY <1>1, <2>1
<1>5. /\ n.dentry = With(m.dentry, d, rec) /\ n.map_inode = m.map_inode /\ n.max_ino = m.max_ino
      /\ n.inode = [m.inode EXCEPT ![i].dentrys = grown]
  BY <1>4
<1> HIDE DEF d, grown
<1>6. /\ DOMAIN n.dentry = DOMAIN m.dentry \cup {d} /\ n.dentry[d] = rec
      /\ \A e \in DOMAIN m.dentry : n.dentry[e] = m.dentry[e]
      /\ n.dentry \in [DOMAIN m.dentry \cup {d} -> Dentry]
  <2>1. /\ DOMAIN With(m.dentry, d, rec) = DOMAIN m.dentry \cup {d} /\ With(m.dentry, d, rec)[d] = rec
        /\ \A e \in DOMAIN m.dentry : e # d => With(m.dentry, d, rec)[e] = m.dentry[e]
    BY DEF With
  <2>2. With(m.dentry, d, rec) \in [DOMAIN m.dentry \cup {d} -> Dentry]
    BY <1>1, WithType
  <2> QED
    BY <1>0, <1>5, <2>1, <2>2
<1>7. /\ DOMAIN n.inode = DOMAIN m.inode
      /\ n.inode[i] = [m.inode[i] EXCEPT !.dentrys = grown]
      /\ \A j \in DOMAIN m.inode : j # i => n.inode[j] = m.inode[j]
  BY <1>1, <1>5
<1>8. /\ n.inode[i] \in Inode /\ n.inode[i].dentrys = grown /\ n.inode[i].dentry = m.inode[i].dentry
      /\ n.inode[i].data = m.inode[i].data
  BY <1>2, <1>3, <1>7 DEF Inode
<1>9. n.inode \in [DOMAIN m.inode -> Inode]
  BY <1>1, <1>5, <1>7, <1>8
<1>10. Memory(n)
  <2>1. DOMAIN m.dentry \cup {d} \subseteq 1 .. Top(m.dentry) + 1 /\ Top(m.dentry) + 1 \in Nat
    BY <1>0, <1>1 DEF d
  <2>2. /\ DOMAIN n.dentry \subseteq 1 .. Top(m.dentry) + 1 /\ DOMAIN n.inode \subseteq 1 .. Top(m.inode)
        /\ n.dentry \in [DOMAIN n.dentry -> Dentry] /\ n.inode \in [DOMAIN n.inode -> Inode]
    BY <1>1, <1>6, <1>7, <1>9, <2>1
  <2>3. n = [dentry |-> n.dentry, inode |-> n.inode, map_inode |-> m.map_inode, max_ino |-> m.max_ino]
    BY <1>4
  <2>4. Memory([dentry |-> n.dentry, inode |-> n.inode, map_inode |-> m.map_inode, max_ino |-> m.max_ino])
    BY <1>1, <2>1, <2>2, MemoryOf
  <2> QED
    BY <2>3, <2>4
<1>11. /\ \A j \in DOMAIN m.inode : j # i => List(n, j) = List(m, j)
       /\ List(n, i) = List(m, i) \cup {d}
       /\ \A j \in DOMAIN m.inode : Once(n.inode[j].dentrys)
  BY <1>3, <1>7, <1>8 DEF List, Heap, HeapBut, ListedOnce
<1>12. Linked(n) = Linked(m) \cup {d}
  BY <1>7, <1>11 DEF Linked
<1>13. \A j \in DOMAIN m.inode : /\ n.inode[j].dentry = m.inode[j].dentry
                                /\ n.inode[j].data = m.inode[j].data
  BY <1>7, <1>8
<1>14. Rooted(n)
  BY <1>6 DEF Heap, HeapBut, Rooted
<1>15. ListedOnce(n)
  <2>1. \A j \in DOMAIN m.inode : d \notin List(m, j)
    BY <1>0, ListedIsLinked
  <2>2. \A j \in DOMAIN n.inode : Root \notin List(n, j) /\ Once(n.inode[j].dentrys)
    BY <1>0, <1>7, <1>11 DEF Heap, HeapBut, ListedOnce
  <2>3. ASSUME NEW j \in DOMAIN n.inode, NEW k \in DOMAIN n.inode, NEW e \in List(n, j), e \in List(n, k)
        PROVE  j = k
    <3>1. CASE e = d
      BY <1>7, <1>11, <2>1, <2>3, <3>1
    <3>2. CASE e # d
      <4>1. e \in List(m, j) /\ e \in List(m, k) /\ j \in DOMAIN m.inode /\ k \in DOMAIN m.inode
        BY <1>7, <1>11, <2>3, <3>2
      <4> QED
        BY <4>1 DEF Heap, HeapBut, ListedOnce
    <3> QED
      BY <3>1, <3>2
  <2> QED
    BY <2>2, <2>3 DEF ListedOnce
<1>16. Allocated(n)
  BY <1>6, <1>12 DEF Heap, HeapBut, Allocated
<1>17. \A e \in Linked(m) : n.dentry[e] = m.dentry[e] /\ e # NULL /\ e # d
  BY <1>0, <1>6, LinkedFields DEF Heap
<1>18. Lead(n, NULL)
  <2>1. \A e \in Linked(n) : n.dentry[e].inode \in {NULL} \cup DOMAIN n.inode
    BY <1>6, <1>7, <1>12, <1>17 DEF Heap, HeapBut, Lead
  <2>2. ASSUME NEW e \in Linked(n), NEW f \in Linked(n),
               n.dentry[e].inode = n.dentry[f].inode, n.dentry[e].inode # NULL
        PROVE  e = f
    <3>1. e \in Linked(m) \ {NULL} /\ f \in Linked(m) \ {NULL}
      BY <1>6, <1>12, <1>17, <2>2
    <3> QED
      BY <1>17, <2>2, <3>1 DEF Heap, HeapBut, Lead
  <2> QED
    BY <2>1, <2>2 DEF Lead
<1>19. Back(n, NULL)
  <2> SUFFICES ASSUME NEW e \in Linked(n) \ {NULL}, n.dentry[e].inode # NULL
               PROVE  PointsBack(n, n.dentry[e].inode)
    BY DEF Back
  <2>1. e \in Linked(m) \ {NULL} /\ n.dentry[e] = m.dentry[e]
    BY <1>6, <1>12, <1>17
  <2> DEFINE l == m.dentry[e].inode
             c == m.inode[l].dentry
  <2>2. PointsBack(m, l) /\ l \in DOMAIN m.inode /\ n.dentry[e].inode = l
    BY <2>1 DEF Back, Lead, Heap, HeapBut
  <2> HIDE DEF l
  <2>3. c \in DOMAIN m.dentry /\ m.dentry[c].inode = l
    BY <2>2 DEF PointsBack
  <2>4. n.dentry[c] = m.dentry[c] /\ c \in DOMAIN n.dentry /\ n.inode[l].dentry = c
        /\ n.inode[l].data = m.inode[l].data
    BY ONLY <1>6, <1>13, <2>2, <2>3
  <2>5. PointsBack(n, l)
    BY <2>2, <2>4 DEF PointsBack
  <2> QED
    BY <2>2, <2>5
<1>20. Parents(n)
  <2> SUFFICES ASSUME NEW j \in DOMAIN m.inode, NEW e \in List(n, j)
               PROVE  n.dentry[e].parent = n.inode[j].dentry
    BY <1>7 DEF Parents
  <2>1. CASE e \in List(m, j)
    <3>1. e \in Linked(m)
      BY <2>1, ListedIsLinked
    <3> QED
      BY <1>13, <1>17, <2>1, <3>1 DEF Heap, HeapBut, Parents
  <2>2. CASE e \notin List(m, j)
    BY <1>6, <1>11, <1>13, <2>2
  <2> QED
    BY <2>1, <2>2
<1>21. Heap(n)
  BY <1>10, <1>14, <1>15, <1>16, <1>18, <1>19, <1>20 DEF Heap, HeapBut
<1>22. n.inode[i] = Headed(m.inode[i], d)
  BY <1>7 DEF grown, Headed
<1> QED
  BY <1>p, <1>0, <1>5, <1>6, <1>7, <1>12, <1>21, <1>22 DEF d, Added
-------------------------------------------------------------------------------
\* A new inode is one.
LEMMA NewInodeType ==
    ASSUME NEW no \in Bit, NEW d \in Nat, NEW ft \in FileType
    PROVE  /\ NewInode(no, d, ft) \in Inode /\ NewInode(no, d, ft).dentrys = <<>>
           /\ NewInode(no, d, ft).dentry = d /\ NewInode(no, d, ft).ino = no
           /\ ft = "SFS_REG_FILE" => Len(NewInode(no, d, ft).data) = Cells
<1> DEFINE blank == [k \in 1 .. Cells |-> Junk]
<1>1. blank \in [1 .. Cells -> Byte \cup {Junk}]
  OBVIOUS
<1>2. blank \in Seq(Byte \cup {Junk})
  BY <1>1, SeqDef
<1>3. Len(blank) = Cells
  <2> HIDE DEF blank
  <2>1. DOMAIN blank = 1 .. Cells /\ DOMAIN blank = 1 .. Len(blank) /\ Len(blank) \in Nat
    BY <1>1, <1>2, LenProperties
  <2> QED
    BY <2>1
<1> HIDE DEF blank
<1>4. <<>> \in Seq(Nat) /\ <<>> \in Seq(Byte \cup {Junk})
  OBVIOUS
<1>5. NewInode(no, d, ft) = [ino |-> no, size |-> 0, target_path |-> Junk, dentry |-> d,
                             dentrys |-> <<>>, data |-> IF ft = "SFS_REG_FILE" THEN blank ELSE <<>>]
  BY DEF NewInode, blank
<1> QED
  BY <1>2, <1>3, <1>4, <1>5 DEF Inode

(***************************************************************************)
(* sfs_alloc_inode: without a number the dentry stays as it is; with one,  *)
(* which was clear, it gets an inode of that number that lists nothing.    *)
(***************************************************************************)
Refused(m, n) ==
    /\ \E r \in Scan(m.map_inode, m.max_ino) : r.no = None /\ n.map_inode = r.map
    /\ n.dentry = m.dentry /\ n.inode = m.inode

Given(m, n, d) ==
    LET i == Top(m.inode) + 1
    IN  \E no \in Bit \ m.map_inode :
           /\ \E r \in Scan(m.map_inode, m.max_ino) : r.no = no
           /\ n.map_inode = m.map_inode \cup {no}
           /\ DOMAIN n.dentry = DOMAIN m.dentry
           /\ \A e \in DOMAIN m.dentry : e # d => n.dentry[e] = m.dentry[e]
           /\ n.dentry[d] = [m.dentry[d] EXCEPT !.inode = i, !.ino = no]
           /\ i \notin DOMAIN m.inode /\ DOMAIN n.inode = DOMAIN m.inode \cup {i}
           /\ \A j \in DOMAIN m.inode : n.inode[j] = m.inode[j]
           /\ n.inode[i] = NewInode(no, d, m.dentry[d].ftype)

\* sfs_alloc_inode in parts, s being what the scan found.
LEMMA AllocResult ==
    ASSUME NEW m, Memory(m), NEW d \in DOMAIN m.dentry, NEW s, Scan(m.map_inode, m.max_ino) = {s}
    PROVE  sfs_alloc_inode(m, d) =
              IF s.no = None
              THEN [dentry |-> m.dentry, inode |-> m.inode, map_inode |-> s.map, max_ino |-> m.max_ino]
              ELSE LET i == Top(m.inode) + 1
                   IN  [dentry |-> [m.dentry EXCEPT ![d] = [@ EXCEPT !.inode = i, !.ino = s.no]],
                        inode |-> With(m.inode, i, NewInode(s.no, d, m.dentry[d].ftype)),
                        map_inode |-> s.map, max_ino |-> m.max_ino]
<1> DEFINE i == Top(m.inode) + 1
           new == NewInode(s.no, d, m.dentry[d].ftype)
           f == [m.dentry EXCEPT ![d] = [@ EXCEPT !.inode = i, !.ino = s.no]]
<1> PICK n : n = sfs_alloc_inode(m, d)
  OBVIOUS
<1>1. /\ m = [dentry |-> m.dentry, inode |-> m.inode, map_inode |-> m.map_inode, max_ino |-> m.max_ino]
      /\ m.inode \in [DOMAIN m.inode -> Inode] /\ m.dentry \in [DOMAIN m.dentry -> Dentry]
  BY MemoryFields
<1>2. s = CHOOSE r \in Scan(m.map_inode, m.max_ino) : TRUE
  OBVIOUS
<1>3. n = IF s.no = None THEN [m EXCEPT !.map_inode = s.map]
          ELSE [m EXCEPT !.map_inode = s.map, !.inode = With(@, i, new),
                         !.dentry[d].inode = i, !.dentry[d].ino = s.no]
  <2> HIDE DEF new, i, f
  <2>1. n = LET s0 == CHOOSE r \in Scan(m.map_inode, m.max_ino) : TRUE
            IN  IF s0.no = None THEN [m EXCEPT !.map_inode = s0.map]
                ELSE [m EXCEPT !.map_inode = s0.map,
                               !.inode = With(@, i, NewInode(s0.no, d, m.dentry[d].ftype)),
                               !.dentry[d].inode = i, !.dentry[d].ino = s0.no]
    BY DEF sfs_alloc_inode, i
  <2> QED
    BY <1>2, <2>1 DEF new
<1> HIDE DEF new, i
<1>4. CASE s.no = None
  BY <1>1, <1>3, <1>4
<1>5. CASE s.no # None
  <2>1. n = [m EXCEPT !.map_inode = s.map, !.inode = With(@, i, new),
                      !.dentry[d].inode = i, !.dentry[d].ino = s.no]
    BY <1>3, <1>5
  <2>2. [[m.dentry EXCEPT ![d].inode = i] EXCEPT ![d].ino = s.no] = f
    BY <1>1
  <2>3. n = [dentry |-> f, inode |-> With(m.inode, i, new), map_inode |-> s.map, max_ino |-> m.max_ino]
    BY <1>1, <2>1, <2>2
  <2> QED
    BY <1>5, <2>3 DEF i, new
<1> QED
  BY <1>4, <1>5

LEMMA AllocInode ==
    ASSUME NEW m, Heap(m), NEW d \in Linked(m) \ {Root}, m.dentry[d].inode = NULL
    PROVE  LET n == sfs_alloc_inode(m, d)
           IN  /\ Heap(n) /\ Linked(n) = Linked(m) /\ n.max_ino = m.max_ino
               /\ Refused(m, n) \/ Given(m, n, d)
<1>p. PICK n : n = sfs_alloc_inode(m, d)
  OBVIOUS
<1> DEFINE i == Top(m.inode) + 1
<1>0. /\ Memory(m) /\ d \in DOMAIN m.dentry /\ d # NULL /\ d \in Nat
      /\ i \in Nat /\ i # NULL /\ i \notin DOMAIN m.inode
  BY <1>p, MemoryFields, LinkedFields DEF Heap, HeapBut, NULL
<1>1. /\ m = [dentry |-> m.dentry, inode |-> m.inode, map_inode |-> m.map_inode, max_ino |-> m.max_ino]
      /\ m.inode \in [DOMAIN m.inode -> Inode] /\ m.dentry \in [DOMAIN m.dentry -> Dentry]
      /\ m.map_inode \in SUBSET Bit /\ m.max_ino \in {0, MaxIno}
      /\ Top(m.inode) \in Nat /\ DOMAIN m.inode \subseteq 1 .. Top(m.inode)
      /\ Top(m.dentry) \in Nat /\ DOMAIN m.dentry \subseteq 1 .. Top(m.dentry)
  BY <1>0, MemoryFields
<1>2. PICK s : Scan(m.map_inode, m.max_ino) = {s}
  BY <1>1, ScanOnce
<1>4. /\ s.map \in SUBSET Bit /\ m.map_inode \subseteq s.map /\ s.no \in Bit \cup {None}
      /\ s.no # None => s.no \in Bit \ m.map_inode /\ s.map = m.map_inode \cup {s.no}
  <2>1. s \in Scan(m.map_inode, m.max_ino)
    BY <1>2
  <2>2. m.map_inode \in SUBSET Bit
    BY <1>1
  <2> QED
    BY ONLY <2>1, <2>2, ScanResult
<1> DEFINE new == NewInode(s.no, d, m.dentry[d].ftype)
<1>5. n = IF s.no = None
          THEN [dentry |-> m.dentry, inode |-> m.inode, map_inode |-> s.map, max_ino |-> m.max_ino]
          ELSE [dentry |-> [m.dentry EXCEPT ![d] = [@ EXCEPT !.inode = i, !.ino = s.no]],
                inode |-> With(m.inode, i, new), map_inode |-> s.map, max_ino |-> m.max_ino]
  BY <1>p, <1>0, <1>2, AllocResult
<1> HIDE DEF new, i
<1>6. CASE s.no = None
  <2>1. n = [dentry |-> m.dentry, inode |-> m.inode, map_inode |-> s.map, max_ino |-> m.max_ino]
    BY <1>1, <1>5, <1>6
  <2>2. /\ n.dentry = m.dentry /\ n.inode = m.inode /\ n.map_inode = s.map /\ n.max_ino = m.max_ino
    BY <2>1
  <2>3. Memory([dentry |-> m.dentry, inode |-> m.inode, map_inode |-> s.map, max_ino |-> m.max_ino])
    BY ONLY <1>1, <1>4, MemoryOf
  <2>4. Memory(n)
    BY <2>1, <2>3
  <2>5. Heap(n) /\ Linked(n) = Linked(m)
    BY <2>2, <2>4, SameHeap DEF Heap
  <2>6. Refused(m, n)
    BY <1>2, <1>6, <2>2 DEF Refused
  <2> QED
    BY <1>p, <2>2, <2>5, <2>6
<1>7. CASE s.no # None
  <2>1. s.no \in Bit \ m.map_inode /\ s.map = m.map_inode \cup {s.no}
    BY <1>4, <1>7
  <2>2. /\ new \in Inode /\ new.dentrys = <<>> /\ new.dentry = d /\ new.ino = s.no
        /\ m.dentry[d].ftype = "SFS_REG_FILE" => Len(new.data) = Cells
    BY <1>0, <2>1, DentryFields, NewInodeType DEF new
  <2> DEFINE f == [m.dentry EXCEPT ![d] = [@ EXCEPT !.inode = i, !.ino = s.no]]
  <2>3. n = [dentry |-> f, inode |-> With(m.inode, i, new), map_inode |-> s.map, max_ino |-> m.max_ino]
    BY <1>5, <1>7
  <2>4. /\ n.dentry = f /\ n.inode = With(m.inode, i, new) /\ n.map_inode = s.map
        /\ n.max_ino = m.max_ino
    BY <2>3
  <2>5. /\ DOMAIN n.dentry = DOMAIN m.dentry
        /\ \A e \in DOMAIN m.dentry : e # d => n.dentry[e] = m.dentry[e]
        /\ n.dentry[d] = [m.dentry[d] EXCEPT !.inode = i, !.ino = s.no]
        /\ n.dentry = [e \in DOMAIN m.dentry |-> n.dentry[e]]
    BY <1>0, <1>1, <2>4
  <2> HIDE DEF f
  <2>6. /\ n.dentry[d] \in Dentry /\ n.dentry[d].inode = i /\ n.dentry[d].ino = s.no
        /\ n.dentry[d].ftype = m.dentry[d].ftype /\ n.dentry[d].parent = m.dentry[d].parent
    <3>1. m.dentry[d] \in Dentry
      BY <1>0, <1>1
    <3> QED
      BY <1>0, <2>1, <2>5, <3>1 DEF Dentry
  <2>7. n.dentry \in [DOMAIN m.dentry -> Dentry]
    <3>1. \A e \in DOMAIN m.dentry : n.dentry[e] \in Dentry
      BY <1>1, <2>5, <2>6
    <3> QED
      BY ONLY <2>5, <3>1
  <2>8. /\ DOMAIN n.inode = DOMAIN m.inode \cup {i} /\ n.inode[i] = new
        /\ \A j \in DOMAIN m.inode : n.inode[j] = m.inode[j]
    <3>1. \A j \in DOMAIN m.inode : j # i
      BY <1>0 DEF i
    <3>2. /\ DOMAIN With(m.inode, i, new) = DOMAIN m.inode \cup {i} /\ With(m.inode, i, new)[i] = new
          /\ \A j \in DOMAIN m.inode : j # i => With(m.inode, i, new)[j] = m.inode[j]
      BY DEF With
    <3> QED
      BY <2>4, <3>1, <3>2
  <2>9. n.inode \in [DOMAIN n.inode -> Inode]
    <3>1. With(m.inode, i, new) \in [DOMAIN m.inode \cup {i} -> Inode]
      BY <1>1, <2>2, WithType
    <3> QED
      BY <2>4, <2>8, <3>1
  <2>10. Memory(n)
    <3>1. DOMAIN n.inode \subseteq 1 .. Top(m.inode) + 1 /\ Top(m.inode) + 1 \in Nat
      BY <1>1, <2>8 DEF i
    <3>2. n = [dentry |-> n.dentry, inode |-> n.inode, map_inode |-> s.map, max_ino |-> m.max_ino]
      BY <2>3
    <3>3. Memory([dentry |-> n.dentry, inode |-> n.inode, map_inode |-> s.map, max_ino |-> m.max_ino])
      BY <1>1, <1>4, <2>5, <2>7, <2>9, <3>1, MemoryOf
    <3> QED
      BY <3>2, <3>3
  <2>11. /\ \A j \in DOMAIN m.inode : List(n, j) = List(m, j) /\ j # i
         /\ List(n, i) = {} /\ Once(n.inode[i].dentrys)
    BY <1>0, <2>2, <2>8 DEF List, ToSet, Once, i
  <2>12. Linked(n) = Linked(m)
    BY <2>8, <2>11 DEF Linked
  <2>13. Rooted(n) /\ Allocated(n)
    BY <2>5, <2>12 DEF Heap, HeapBut, Rooted, Allocated
  <2>14. ListedOnce(n)
    BY <2>8, <2>11 DEF Heap, HeapBut, ListedOnce
  <2>15. \A e \in Linked(m) : /\ e \in DOMAIN m.dentry /\ e # NULL
                              /\ e # d => m.dentry[e].inode \in DOMAIN m.inode \cup {NULL}
    BY LinkedFields DEF Heap, HeapBut, Lead
  <2>a. ASSUME NEW e \in Linked(m), e # d
        PROVE  /\ n.dentry[e].inode = m.dentry[e].inode
               /\ n.dentry[e].inode \in DOMAIN m.inode \cup {NULL} /\ n.dentry[e].inode # i
    <3>1. n.dentry[e] = m.dentry[e] /\ m.dentry[e].inode \in DOMAIN m.inode \cup {NULL}
      BY ONLY <2>5, <2>15, <2>a
    <3> QED
      BY ONLY <1>0, <3>1 DEF i
  <2>b. \A e, g \in Linked(m) :
           m.dentry[e].inode = m.dentry[g].inode /\ m.dentry[e].inode # NULL => e = g
    <3>1. \A e, g \in Linked(m) \ {NULL} :
             m.dentry[e].inode = m.dentry[g].inode /\ m.dentry[e].inode # NULL => e = g
      BY DEF Heap, HeapBut, Lead
    <3> QED
      BY ONLY <2>15, <3>1
  <2>16. Lead(n, NULL)
    <3>1. \A e \in Linked(m) : n.dentry[e].inode \in {NULL} \cup DOMAIN n.inode
      BY ONLY <2>6, <2>8, <2>a
    <3>2. ASSUME NEW e \in Linked(m), NEW g \in Linked(m),
                 n.dentry[e].inode = n.dentry[g].inode, n.dentry[e].inode # NULL
          PROVE  e = g
      <4>1. CASE e = d \/ g = d
        BY ONLY <2>6, <2>a, <3>2, <4>1
      <4>2. CASE e # d /\ g # d
        BY ONLY <2>a, <2>b, <3>2, <4>2
      <4> QED
        BY <4>1, <4>2
    <3>3. \A e, g \in Linked(m) \ {NULL} :
             n.dentry[e].inode = n.dentry[g].inode /\ n.dentry[e].inode # NULL => e = g
      BY ONLY <3>2
    <3> QED
      BY ONLY <2>12, <3>1, <3>3 DEF Lead
  <2>17. Back(n, NULL)
    <3> SUFFICES ASSUME NEW e \in Linked(n) \ {NULL}, n.dentry[e].inode # NULL
                 PROVE  PointsBack(n, n.dentry[e].inode)
      BY DEF Back
    <3>0. e \in Linked(m)
      BY <2>12
    <3>1. CASE e = d
      <4>1. n.inode[i].dentry = d /\ n.dentry[d].inode = i /\ d \in DOMAIN n.dentry
        BY <1>0, <2>2, <2>5, <2>6, <2>8
      <4>2. n.dentry[d].ftype = "SFS_REG_FILE" => Len(n.inode[i].data) = Cells
        BY ONLY <2>2, <2>6, <2>8
      <4>3. PointsBack(n, i)
        BY ONLY <4>1, <4>2 DEF PointsBack
      <4> QED
        BY ONLY <3>1, <4>1, <4>3
    <3>2. CASE e # d
      <4> DEFINE j == m.dentry[e].inode
                 c == m.inode[j].dentry
      <4>1. n.dentry[e].inode = j /\ j # NULL /\ e # NULL
        BY <2>a, <3>0, <3>2, <2>15
      <4>2. PointsBack(m, j) /\ j \in DOMAIN m.inode
        BY <3>0, <4>1 DEF Back, Lead, Heap, HeapBut
      <4>3. c \in DOMAIN m.dentry /\ m.dentry[c].inode = j
        BY <4>2 DEF PointsBack
      <4>4. c # d
        BY <4>1, <4>3
      <4>5. n.inode[j] = m.inode[j] /\ n.dentry[c] = m.dentry[c] /\ c \in DOMAIN n.dentry
        BY <2>5, <2>8, <4>2, <4>3, <4>4
      <4>6. PointsBack(n, j)
        BY <4>2, <4>5 DEF PointsBack
      <4> HIDE DEF j, c
      <4> QED
        BY <4>1, <4>6
    <3> QED
      BY <3>1, <3>2
  <2>18. Parents(n)
    <3> SUFFICES ASSUME NEW j \in DOMAIN n.inode, NEW e \in List(n, j)
                 PROVE  n.dentry[e].parent = n.inode[j].dentry
      BY DEF Parents
    <3>1. j \in DOMAIN m.inode /\ e \in List(m, j) /\ n.inode[j] = m.inode[j]
      BY <2>8, <2>11
    <3>2. e \in DOMAIN m.dentry /\ m.dentry[e].parent = m.inode[j].dentry
      BY <2>15, <3>1, ListedIsLinked DEF Heap, HeapBut, Parents
    <3> QED
      BY <2>5, <2>6, <3>1, <3>2
  <2>19. Heap(n)
    BY <2>10, <2>13, <2>14, <2>16, <2>17, <2>18 DEF Heap, HeapBut
  <2>20. Given(m, n, d)
    <3>1. \E r \in Scan(m.map_inode, m.max_ino) : r.no = s.no
      BY <1>2
    <3> QED
      BY <1>0, <2>1, <2>4, <2>5, <2>8, <3>1 DEF Given, i, new
  <2> QED
    BY <1>p, <2>4, <2>12, <2>19, <2>20
<1> QED
  BY <1>6, <1>7
-------------------------------------------------------------------------------
\* The cells of the disk have one of the four types.
DiskType == disk.cell \in [Address -> DiskCell]

\* What a cell holds that has the type asked for.
LEMMA CellFields ==
    ASSUME DiskType, NEW a
    PROVE  /\ Holds(a, "inode") => LET c == sfs_driver_read(a)
                                   IN  /\ c.ino \in Bit /\ c.size \in Nat /\ c.dir_cnt \in Nat
                                       /\ c.target_path \in Target \cup {Junk}
           /\ Holds(a, "dentry") => LET c == sfs_driver_read(a)
                                    IN  /\ c.fname \in Name \cup {"/"} /\ c.ftype \in FileType
                                        /\ c.ino \in Bit \cup {None}
           /\ Holds(a, "data") => sfs_driver_read(a).byte \in Byte \cup {Junk}
<1> PICK c : c = sfs_driver_read(a)
  OBVIOUS
<1>1. ASSUME a \in Address
      PROVE  /\ c.type = "inode" => c.ino \in Bit /\ c.size \in Nat /\ c.dir_cnt \in Nat
                                    /\ c.target_path \in Target \cup {Junk}
             /\ c.type = "dentry" => c.fname \in Name \cup {"/"} /\ c.ftype \in FileType
                                     /\ c.ino \in Bit \cup {None}
             /\ c.type = "data" => c.byte \in Byte \cup {Junk}
  <2>1. c \in DiskCell
    BY <1>1 DEF DiskType, sfs_driver_read
  <2>2. CASE c = Zero
    BY <2>2 DEF Zero
  <2>3. CASE c \in [type : {"inode"}, ino : Bit, size : Nat, target_path : Target \cup {Junk},
                    dir_cnt : Nat]
    BY <2>3
  <2>4. CASE c \in [type : {"dentry"}, fname : Name \cup {"/"}, ftype : FileType,
                    ino : Bit \cup {None}]
    BY <2>4
  <2>5. CASE c \in [type : {"data"}, byte : Byte \cup {Junk}]
    BY <2>5
  <2> QED
    BY <2>1, <2>2, <2>3, <2>4, <2>5 DEF DiskCell
<1> QED
  BY <1>1 DEF Holds

\* The list of an inode just read: the dentries behind top, last first.
Behind(top, n) == [k \in 1 .. n |-> top + n + 1 - k]

LEMMA FreshList ==
    ASSUME NEW top \in Nat, NEW n \in Nat
    PROVE  /\ Behind(top, n) \in Seq(Nat) /\ Len(Behind(top, n)) = n
           /\ DOMAIN Behind(top, n) = 1 .. n
           /\ Once(Behind(top, n)) /\ ToSet(Behind(top, n)) = top + 1 .. top + n
<1> PICK list : list = Behind(top, n)
  OBVIOUS
<1>1. DOMAIN list = 1 .. n /\ \A k \in 1 .. n : list[k] = top + n + 1 - k
  BY DEF Behind
<1>2. \A k \in 1 .. n : top + n + 1 - k \in Nat /\ top + n + 1 - k \in top + 1 .. top + n
  OBVIOUS
<1>3. list \in [1 .. n -> Nat]
  BY <1>2 DEF Behind
<1>4. list \in Seq(Nat)
  BY <1>3, SeqDef
<1>5. Len(list) = n
  BY <1>3, <1>4, LenProperties
<1>6. Once(list)
  BY <1>1 DEF Once
<1>7. ASSUME NEW x \in top + 1 .. top + n PROVE x \in ToSet(list)
  <2>1. top + n + 1 - x \in 1 .. n /\ top + n + 1 - (top + n + 1 - x) = x
    OBVIOUS
  <2>2. list[top + n + 1 - x] = x
    BY <1>1, <2>1
  <2> QED
    BY <1>1, <2>1, <2>2 DEF ToSet
<1>8. ToSet(list) \subseteq top + 1 .. top + n
  BY <1>1, <1>2 DEF ToSet
<1> QED
  BY <1>1, <1>4, <1>5, <1>6, <1>7, <1>8

\* The bytes of a slot, whatever they are.
LEMMA DataFromDisk ==
    ASSUME DiskType, NEW ino \in Bit
    PROVE  DataOnDisk(ino) \in Seq(Byte \cup {Junk}) /\ Len(DataOnDisk(ino)) = Cells
<1>1. DataOnDisk(ino) \in [1 .. Cells -> Byte \cup {Junk}]
  <2> SUFFICES ASSUME NEW k \in 1 .. Cells
               PROVE  LET c == sfs_driver_read(SFS_DATA_OFS(ino) + k - 1)
                      IN  (IF c.type = "data" THEN c.byte ELSE Junk) \in Byte \cup {Junk}
    BY DEF DataOnDisk
  <2> DEFINE a == SFS_DATA_OFS(ino) + k - 1
  <2>0. SFS_INO_OFS(ino) + k \in Address /\ SFS_INO_OFS(ino) \in Nat
    BY SlotAddress
  <2>1. a \in Address
    BY <2>0 DEF SFS_DATA_OFS
  <2>2. sfs_driver_read(a).type = "data" => Holds(a, "data")
    BY <2>1 DEF Holds
  <2> HIDE DEF a
  <2>3. sfs_driver_read(a).type = "data" => sfs_driver_read(a).byte \in Byte \cup {Junk}
    BY <2>2, CellFields
  <2> QED
    BY <2>3 DEF a
<1>2. DataOnDisk(ino) \in Seq(Byte \cup {Junk})
  BY <1>1, SeqDef
<1> QED
  BY <1>1, <1>2, LenProperties

(***************************************************************************)
(* What sfs_read_inode adds to the memory m for the dentry d: an inode     *)
(* that points back to d and, for a directory, the dentries it lists.      *)
(***************************************************************************)
Loaded(m, n, d) ==
    LET i   == Top(m.inode) + 1
        top == Top(m.dentry)
        c   == EntryCount(m.dentry[d])
    IN  /\ c \in Nat /\ n.map_inode = m.map_inode /\ n.max_ino = m.max_ino
        /\ DOMAIN n.dentry = DOMAIN m.dentry \cup top + 1 .. top + c
        /\ \A e \in DOMAIN m.dentry : e # d => n.dentry[e] = m.dentry[e]
        /\ n.dentry[d] = [m.dentry[d] EXCEPT !.inode = i]
        /\ \A e \in top + 1 .. top + c :
              /\ e \notin DOMAIN m.dentry
              /\ n.dentry[e] = EntryFrom(sfs_driver_read(SFS_DATA_OFS(m.dentry[d].ino) + e - top - 1), d)
        /\ i \notin DOMAIN m.inode /\ DOMAIN n.inode = DOMAIN m.inode \cup {i}
        /\ \A j \in DOMAIN m.inode : n.inode[j] = m.inode[j]
        /\ n.inode[i] = InodeFrom(m, d, top)

LEMMA ReadInode ==
    ASSUME DiskType, NEW m, Heap(m), NEW d \in Linked(m), m.dentry[d].inode = NULL,
           Readable(m.dentry[d])
    PROVE  LET n == sfs_read_inode(m, d)
               i == Top(m.inode) + 1
               c == EntryCount(m.dentry[d])
           IN  /\ Memory(n) /\ Loaded(m, n, d)
               /\ n.inode[i] \in Inode /\ n.inode[i].dentry = d
               /\ List(n, i) = Top(m.dentry) + 1 .. Top(m.dentry) + c /\ Once(n.inode[i].dentrys)
               /\ m.dentry[d].ftype = "SFS_REG_FILE" => Len(n.inode[i].data) = Cells
<1> PICK n : n = sfs_read_inode(m, d)
  OBVIOUS
<1> DEFINE i   == Top(m.inode) + 1
           top == Top(m.dentry)
           me  == m.dentry[d]
           c   == EntryCount(me)
           raw == sfs_driver_read(SFS_INO_OFS(me.ino))
<1>0. /\ Memory(m) /\ d \in DOMAIN m.dentry /\ d # NULL /\ d \in Nat
      /\ i \in Nat /\ i # NULL /\ i \notin DOMAIN m.inode
  BY MemoryFields, LinkedFields DEF Heap, HeapBut, NULL
<1>1. /\ m = [dentry |-> m.dentry, inode |-> m.inode, map_inode |-> m.map_inode, max_ino |-> m.max_ino]
      /\ m.inode \in [DOMAIN m.inode -> Inode] /\ m.dentry \in [DOMAIN m.dentry -> Dentry]
      /\ m.map_inode \in SUBSET Bit /\ m.max_ino \in {0, MaxIno}
      /\ Top(m.inode) \in Nat /\ DOMAIN m.inode \subseteq 1 .. Top(m.inode)
      /\ top \in Nat /\ DOMAIN m.dentry \subseteq 1 .. top
  BY <1>0, MemoryFields
<1>2. /\ me \in Dentry /\ me.ino \in Bit /\ me.ftype \in FileType
      /\ raw.ino \in Bit /\ raw.size \in Nat /\ raw.dir_cnt \in Nat
      /\ raw.target_path \in Target \cup {Junk} /\ c \in Nat
  <2>1. Holds(SFS_INO_OFS(me.ino), "inode") /\ me.ino # None
    BY DEF Readable
  <2>2. /\ raw.ino \in Bit /\ raw.size \in Nat /\ raw.dir_cnt \in Nat
        /\ raw.target_path \in Target \cup {Junk}
    BY <2>1, CellFields
  <2>3. me \in Dentry /\ me.ino \in Bit \cup {None} /\ me.ftype \in FileType
    BY <1>0, DentryFields
  <2>4. c \in Nat
    BY <2>2 DEF EntryCount
  <2> HIDE DEF c, raw, me
  <2> QED
    BY <2>1, <2>2, <2>3, <2>4
<1>3. ASSUME NEW e \in top + 1 .. top + c
      PROVE  EntryFrom(sfs_driver_read(SFS_DATA_OFS(me.ino) + e - top - 1), d) \in Dentry
  <2> DEFINE a == SFS_DATA_OFS(me.ino) + e - top - 1
             b == SFS_DATA_OFS(me.ino) + (e - top - 1)
  <2>1. me.ftype = "SFS_DIR" /\ c = raw.dir_cnt
    <3>1. c # 0
      BY <1>1, <1>2
    <3> QED
      BY <3>1 DEF EntryCount
  <2>2. e - top - 1 \in 0 .. raw.dir_cnt - 1
    <3> HIDE DEF c, raw, top
    <3> QED
      BY <1>1, <1>2, <2>1
  <2>3. SFS_INO_OFS(me.ino) \in Nat
    BY <1>2, SlotAddress
  <2>4. a = b
    <3> HIDE DEF top, me
    <3>1. SFS_DATA_OFS(me.ino) \in Int /\ e \in Int /\ top \in Int
      BY <1>1, <1>2, <2>3 DEF SFS_DATA_OFS
    <3> QED
      BY <3>1
  <2>5. b \in EntryCells(me.ino)
    BY <2>2 DEF EntryCells
  <2>6. Holds(b, "dentry")
    BY <2>1, <2>5 DEF Readable
  <2> PICK x : x = sfs_driver_read(b)
    OBVIOUS
  <2>7. x.fname \in Name \cup {"/"} /\ x.ftype \in FileType /\ x.ino \in Bit \cup {None}
    BY <2>6, CellFields
  <2>8. EntryFrom(x, d) \in Dentry
    BY <1>0, <2>7 DEF EntryFrom, Dentry, NULL
  <2> QED
    BY <2>4, <2>8
<1> DEFINE old == [m.dentry EXCEPT ![d].inode = i]
           new == InodeFrom(m, d, top)
           D   == DOMAIN m.dentry \cup top + 1 .. top + c
           f   == [x \in D |-> IF x \in DOMAIN m.dentry THEN old[x]
                               ELSE EntryFrom(sfs_driver_read(SFS_DATA_OFS(me.ino) + x - top - 1), d)]
<1>4. /\ new \in Inode /\ new.dentry = d /\ new.dentrys = Behind(top, c)
      /\ me.ftype = "SFS_REG_FILE" => Len(new.data) = Cells
  <2>1. new = [ino |-> raw.ino, size |-> raw.size, target_path |-> raw.target_path, dentry |-> d,
               dentrys |-> Behind(top, c),
               data |-> IF me.ftype = "SFS_REG_FILE" THEN DataOnDisk(me.ino) ELSE <<>>]
    BY DEF InodeFrom, Behind
  <2>2. Behind(top, c) \in Seq(Nat)
    BY <1>1, <1>2, FreshList
  <2>3. DataOnDisk(me.ino) \in Seq(Byte \cup {Junk}) /\ Len(DataOnDisk(me.ino)) = Cells
    BY <1>2, DataFromDisk
  <2>4. <<>> \in Seq(Byte \cup {Junk})
    OBVIOUS
  <2> HIDE DEF new, raw, me, top, c
  <2> QED
    BY <1>0, <1>2, <2>1, <2>2, <2>3, <2>4 DEF Inode
<1>5. n = [dentry |-> f, inode |-> With(m.inode, i, new), map_inode |-> m.map_inode,
           max_ino |-> m.max_ino]
  <2>1. n = [m EXCEPT
                !.inode  = With(@, i, new),
                !.dentry = [x \in DOMAIN @ \cup top + 1 .. top + EntryCount(@[d]) |->
                               IF x \in DOMAIN @ THEN old[x]
                               ELSE EntryFrom(sfs_driver_read(SFS_DATA_OFS(me.ino) + x - top - 1), d)]]
    BY DEF sfs_read_inode
  <2> HIDE DEF old, new, i, top
  <2> QED
    BY <1>1, <2>1
<1>6. /\ n.dentry = f /\ n.inode = With(m.inode, i, new) /\ n.map_inode = m.map_inode
      /\ n.max_ino = m.max_ino
  BY <1>5
<1>7. /\ DOMAIN old = DOMAIN m.dentry /\ old[d] = [me EXCEPT !.inode = i]
      /\ \A e \in DOMAIN m.dentry : e # d => old[e] = m.dentry[e]
  BY <1>0, <1>1
<1> HIDE DEF old, new, i, top, c, raw
<1>8. \A e \in top + 1 .. top + c : e \notin DOMAIN m.dentry
  BY <1>1, <1>2
<1>9. /\ DOMAIN n.dentry = D
      /\ \A e \in DOMAIN m.dentry : n.dentry[e] = old[e]
      /\ \A e \in top + 1 .. top + c :
            n.dentry[e] = EntryFrom(sfs_driver_read(SFS_DATA_OFS(me.ino) + e - top - 1), d)
  BY <1>6, <1>8
<1>10. /\ DOMAIN n.inode = DOMAIN m.inode \cup {i} /\ n.inode[i] = new
       /\ \A j \in DOMAIN m.inode : n.inode[j] = m.inode[j]
  <2>1. /\ DOMAIN With(m.inode, i, new) = DOMAIN m.inode \cup {i} /\ With(m.inode, i, new)[i] = new
        /\ \A j \in DOMAIN m.inode : j # i => With(m.inode, i, new)[j] = m.inode[j]
    BY DEF With
  <2>2. \A j \in DOMAIN m.inode : j # i
    BY <1>0
  <2> QED
    BY <1>6, <2>1, <2>2
<1>11. n.dentry \in [DOMAIN n.dentry -> Dentry]
  <2>1. \A e \in DOMAIN m.dentry : n.dentry[e] \in Dentry
    <3>1. [me EXCEPT !.inode = i] \in Dentry
      <4> HIDE DEF me
      <4> QED
        BY <1>0, <1>2 DEF Dentry
    <3> QED
      BY <1>1, <1>7, <1>9, <3>1
  <2>2. \A e \in D : n.dentry[e] \in Dentry
    BY <1>3, <1>9, <2>1
  <2>3. n.dentry = [e \in D |-> n.dentry[e]]
    BY <1>6
  <2> HIDE DEF D
  <2> QED
    BY <1>9, <2>2, <2>3
<1>12. n.inode \in [DOMAIN n.inode -> Inode]
  <2>1. With(m.inode, i, new) \in [DOMAIN m.inode \cup {i} -> Inode]
    BY <1>1, <1>4, WithType
  <2> QED
    BY <1>6, <1>10, <2>1
<1>13. Memory(n)
  <2>1. /\ DOMAIN n.dentry \subseteq 1 .. top + c /\ top + c \in Nat
        /\ DOMAIN n.inode \subseteq 1 .. Top(m.inode) + 1 /\ Top(m.inode) + 1 \in Nat
    BY <1>1, <1>2, <1>9, <1>10 DEF i
  <2>2. n = [dentry |-> n.dentry, inode |-> n.inode, map_inode |-> m.map_inode, max_ino |-> m.max_ino]
    BY <1>5
  <2>3. Memory([dentry |-> n.dentry, inode |-> n.inode, map_inode |-> m.map_inode, max_ino |-> m.max_ino])
    BY ONLY <1>1, <1>11, <1>12, <2>1, MemoryOf
  <2> QED
    BY <2>2, <2>3
<1>14. Loaded(m, n, d)
  BY <1>0, <1>2, <1>6, <1>7, <1>8, <1>9, <1>10 DEF Loaded, i, top, c, new
<1>15. List(n, i) = top + 1 .. top + c /\ Once(n.inode[i].dentrys)
  <2>1. Once(Behind(top, c)) /\ ToSet(Behind(top, c)) = top + 1 .. top + c
    BY <1>1, <1>2, FreshList
  <2> QED
    BY <1>4, <1>10, <2>1 DEF List
<1>16. n.inode[i] \in Inode /\ n.inode[i].dentry = d /\ me.ftype = "SFS_REG_FILE" => Len(n.inode[i].data) = Cells
  BY <1>4, <1>10
<1> QED
  BY <1>4, <1>10, <1>13, <1>14, <1>15 DEF i, top, c

\* sfs_read_inode keeps the heap in order, and links the entries.
LEMMA ReadHeap ==
    ASSUME DiskType, NEW m, Heap(m), NEW d \in Linked(m), m.dentry[d].inode = NULL,
           Readable(m.dentry[d])
    PROVE  LET n   == sfs_read_inode(m, d)
               top == Top(m.dentry)
           IN  /\ Heap(n) /\ Loaded(m, n, d)
               /\ Linked(n) = Linked(m) \cup top + 1 .. top + EntryCount(m.dentry[d])
<1> PICK n : n = sfs_read_inode(m, d)
  OBVIOUS
<1> DEFINE i   == Top(m.inode) + 1
           top == Top(m.dentry)
           c   == EntryCount(m.dentry[d])
           new == top + 1 .. top + c
<1>0. /\ Memory(m) /\ d \in DOMAIN m.dentry /\ d # NULL
      /\ i \in Nat /\ i # NULL /\ i \notin DOMAIN m.inode /\ Root \in Linked(m)
      /\ top \in Nat /\ m.dentry[d] \in Dentry
  BY MemoryFields, LinkedFields, DentryFields DEF Heap, HeapBut, NULL, Linked
<1>1. /\ Memory(n) /\ Loaded(m, n, d) /\ n.inode[i].dentry = d
      /\ List(n, i) = new /\ Once(n.inode[i].dentrys)
      /\ m.dentry[d].ftype = "SFS_REG_FILE" => Len(n.inode[i].data) = Cells
  BY ReadInode
<1>2. /\ c \in Nat /\ DOMAIN n.dentry = DOMAIN m.dentry \cup new
      /\ \A e \in DOMAIN m.dentry : e # d => n.dentry[e] = m.dentry[e]
      /\ n.dentry[d] = [m.dentry[d] EXCEPT !.inode = i]
      /\ \A e \in new : /\ e \notin DOMAIN m.dentry
                        /\ n.dentry[e] = EntryFrom(sfs_driver_read(SFS_DATA_OFS(m.dentry[d].ino) + e - top - 1), d)
      /\ i \notin DOMAIN m.inode /\ DOMAIN n.inode = DOMAIN m.inode \cup {i}
      /\ \A j \in DOMAIN m.inode : n.inode[j] = m.inode[j]
  BY <1>1 DEF Loaded
<1>3. \A e \in new : n.dentry[e].inode = NULL /\ n.dentry[e].parent = d /\ e # NULL /\ e # d /\ e # Root
  <2> SUFFICES ASSUME NEW e \in new
               PROVE  n.dentry[e].inode = NULL /\ n.dentry[e].parent = d /\ e # NULL /\ e # d /\ e # Root
    OBVIOUS
  <2> PICK x : x = sfs_driver_read(SFS_DATA_OFS(m.dentry[d].ino) + e - top - 1)
    OBVIOUS
  <2>0. n.dentry[e] = EntryFrom(x, d)
    BY <1>2
  <2>1. n.dentry[e].inode = NULL /\ n.dentry[e].parent = d
    BY ONLY <2>0 DEF EntryFrom
  <2>2. e # NULL
    BY <1>0, <1>2 DEF NULL
  <2>3. Root \in DOMAIN m.dentry
    BY DEF Heap, HeapBut, Rooted
  <2> QED
    BY <1>0, <1>2, <2>1, <2>2, <2>3
<1>4. n.dentry[d].inode = i /\ n.dentry[d].ino = m.dentry[d].ino /\ n.dentry[d].ftype = m.dentry[d].ftype
      /\ n.dentry[d].parent = m.dentry[d].parent
  <2> HIDE DEF i
  <2> QED
    BY <1>0, <1>2 DEF Dentry
<1> HIDE DEF i, new, c, top
<1>5. \A j \in DOMAIN m.inode : List(n, j) = List(m, j) /\ j # i
  BY <1>2 DEF List
<1>6. Linked(n) = Linked(m) \cup new
  BY <1>1, <1>2, <1>5 DEF Linked
<1>7. \A e \in Linked(m) : /\ e \in DOMAIN m.dentry /\ e # NULL /\ e \notin new
                           /\ m.dentry[e].inode \in DOMAIN m.inode \cup {NULL}
  BY <1>2, LinkedFields DEF Heap, HeapBut, Lead
<1>8. Rooted(n)
  BY <1>0, <1>2, <1>4, <1>7 DEF Heap, HeapBut, Rooted
<1>9. ListedOnce(n)
  <2>1. \A j \in DOMAIN m.inode : \A e \in List(m, j) : e \notin new
    BY <1>7, ListedIsLinked
  <2>2. \A j \in DOMAIN n.inode : Root \notin List(n, j) /\ Once(n.inode[j].dentrys)
    <3> SUFFICES ASSUME NEW j \in DOMAIN n.inode
                 PROVE  Root \notin List(n, j) /\ Once(n.inode[j].dentrys)
      OBVIOUS
    <3>1. CASE j = i
      BY <1>1, <1>3, <3>1
    <3>2. CASE j # i
      <4>1. j \in DOMAIN m.inode /\ n.inode[j] = m.inode[j] /\ List(n, j) = List(m, j)
        BY <1>2, <1>5, <3>2
      <4> QED
        BY <4>1 DEF Heap, HeapBut, ListedOnce
    <3> QED
      BY <3>1, <3>2
  <2>3. ASSUME NEW j \in DOMAIN n.inode, NEW k \in DOMAIN n.inode, NEW e \in List(n, j), e \in List(n, k)
        PROVE  j = k
    <3>1. CASE e \in new
      BY <1>1, <1>2, <1>5, <2>1, <2>3, <3>1
    <3>2. CASE e \notin new
      <4>1. e \in List(m, j) /\ e \in List(m, k) /\ j \in DOMAIN m.inode /\ k \in DOMAIN m.inode
        BY <1>1, <1>2, <1>5, <2>3, <3>2
      <4> QED
        BY <4>1 DEF Heap, HeapBut, ListedOnce
    <3> QED
      BY <3>1, <3>2
  <2> QED
    BY <2>2, <2>3 DEF ListedOnce
<1>10. Allocated(n)
  BY <1>2, <1>6 DEF Heap, HeapBut, Allocated
<1>11. ASSUME NEW e \in Linked(m), e # d
       PROVE  /\ n.dentry[e] = m.dentry[e]
              /\ n.dentry[e].inode \in DOMAIN m.inode \cup {NULL} /\ n.dentry[e].inode # i
  <2>1. n.dentry[e] = m.dentry[e] /\ m.dentry[e].inode \in DOMAIN m.inode \cup {NULL}
    BY <1>2, <1>7, <1>11
  <2> QED
    BY <1>0, <1>2, <2>1
<1>12. \A e, g \in Linked(m) :
          m.dentry[e].inode = m.dentry[g].inode /\ m.dentry[e].inode # NULL => e = g
  <2>1. \A e, g \in Linked(m) \ {NULL} :
           m.dentry[e].inode = m.dentry[g].inode /\ m.dentry[e].inode # NULL => e = g
    BY DEF Heap, HeapBut, Lead
  <2> QED
    BY ONLY <1>7, <2>1
<1>13. Lead(n, NULL)
  <2>1. \A e \in Linked(n) : n.dentry[e].inode \in {NULL} \cup DOMAIN n.inode
    BY <1>2, <1>3, <1>4, <1>6, <1>11
  <2>2. ASSUME NEW e \in Linked(n), NEW g \in Linked(n),
               n.dentry[e].inode = n.dentry[g].inode, n.dentry[e].inode # NULL
        PROVE  e = g
    <3>0. e \in Linked(m) /\ g \in Linked(m)
      BY ONLY <1>3, <1>6, <2>2
    <3>1. CASE e = d \/ g = d
      BY ONLY <1>4, <1>11, <2>2, <3>0, <3>1
    <3>2. CASE e # d /\ g # d
      BY ONLY <1>11, <1>12, <2>2, <3>0, <3>2
    <3> QED
      BY <3>1, <3>2
  <2>3. \A e, g \in Linked(n) \ {NULL} :
           n.dentry[e].inode = n.dentry[g].inode /\ n.dentry[e].inode # NULL => e = g
    BY ONLY <2>2
  <2> QED
    BY ONLY <2>1, <2>3 DEF Lead
<1>14. Back(n, NULL)
  <2> SUFFICES ASSUME NEW e \in Linked(n) \ {NULL}, n.dentry[e].inode # NULL
               PROVE  PointsBack(n, n.dentry[e].inode)
    BY DEF Back
  <2>0. e \in Linked(m)
    BY <1>3, <1>6
  <2>1. CASE e = d
    <3>1. n.inode[i].dentry = d /\ n.dentry[d].inode = i /\ d \in DOMAIN n.dentry
      BY <1>0, <1>1, <1>2, <1>4 DEF i
    <3>2. n.dentry[d].ftype = "SFS_REG_FILE" => Len(n.inode[i].data) = Cells
      BY ONLY <1>1, <1>4 DEF i
    <3>3. PointsBack(n, i)
      BY ONLY <3>1, <3>2 DEF PointsBack
    <3> QED
      BY ONLY <2>1, <3>1, <3>3
  <2>2. CASE e # d
    <3> DEFINE j == m.dentry[e].inode
               b == m.inode[j].dentry
    <3>1. n.dentry[e].inode = j /\ j # NULL /\ e # NULL
      BY <1>7, <1>11, <2>0, <2>2
    <3>2. PointsBack(m, j) /\ j \in DOMAIN m.inode
      BY <2>0, <3>1 DEF Back, Lead, Heap, HeapBut
    <3>3. b \in DOMAIN m.dentry /\ m.dentry[b].inode = j
      BY <3>2 DEF PointsBack
    <3>4. b # d
      BY <3>1, <3>3
    <3>5. n.inode[j] = m.inode[j] /\ n.dentry[b] = m.dentry[b] /\ b \in DOMAIN n.dentry
      BY <1>2, <3>2, <3>3, <3>4
    <3>6. PointsBack(n, j)
      BY <3>2, <3>5 DEF PointsBack
    <3> HIDE DEF j, b
    <3> QED
      BY <3>1, <3>6
  <2> QED
    BY <2>1, <2>2
<1>15. Parents(n)
  <2> SUFFICES ASSUME NEW j \in DOMAIN n.inode, NEW e \in List(n, j)
               PROVE  n.dentry[e].parent = n.inode[j].dentry
    BY DEF Parents
  <2>1. CASE j = i
    BY <1>1, <1>3, <2>1 DEF i
  <2>2. CASE j # i
    <3>1. j \in DOMAIN m.inode /\ e \in List(m, j) /\ n.inode[j] = m.inode[j]
      BY <1>2, <1>5, <2>2
    <3>2. e \in Linked(m) /\ m.dentry[e].parent = m.inode[j].dentry
      BY <3>1, ListedIsLinked DEF Heap, HeapBut, Parents
    <3> QED
      BY <1>4, <1>11, <3>1, <3>2
  <2> QED
    BY <2>1, <2>2
<1>16. Heap(n)
  BY <1>1, <1>8, <1>9, <1>10, <1>13, <1>14, <1>15 DEF Heap, HeapBut
<1> QED
  BY <1>1, <1>6, <1>16 DEF new, top, c
-------------------------------------------------------------------------------
\* A dentry taken out of the list it is in is linked no longer.
LEMMA DropListed ==
    ASSUME NEW m, NEW d, d # Root, HeapBut(m, d), NEW j \in DOMAIN m.inode,
           \A l \in DOMAIN m.inode : d \in List(m, l) => l = j
    PROVE  LET n == sfs_drop_dentry(m, j, d)
           IN  /\ Heap(n) /\ Pruned(m, n) /\ Linked(n) = Linked(m) \ {d} /\ n.map_inode = m.map_inode
               /\ n.dentry = m.dentry /\ DOMAIN n.inode = DOMAIN m.inode
               /\ \A l \in DOMAIN m.inode : List(n, l) = List(m, l) \ {d}
<1> PICK n : n = sfs_drop_dentry(m, j, d)
  OBVIOUS
<1>1. /\ Pruned(m, n) /\ n.dentry = m.dentry /\ n.map_inode = m.map_inode
      /\ DOMAIN n.inode = DOMAIN m.inode /\ List(n, j) = List(m, j) \ {d}
      /\ \A l \in DOMAIN m.inode : l # j => n.inode[l] = m.inode[l]
  BY DropDentry
<1>2. \A l \in DOMAIN m.inode : List(n, l) = List(m, l) \ {d}
  <2> SUFFICES ASSUME NEW l \in DOMAIN m.inode, l # j PROVE List(n, l) = List(m, l) \ {d}
    BY <1>1
  <2>1. List(n, l) = List(m, l)
    BY <1>1 DEF List
  <2> QED
    BY <2>1
<1>3. Linked(n) = Linked(m) \ {d}
  BY <1>1, <1>2 DEF Linked
<1>4. Linked(n) \subseteq DOMAIN n.dentry
  BY <1>1, <1>3 DEF HeapBut, Allocated
<1>5. ASSUME NEW e \in Linked(n) \ {NULL}
      PROVE  /\ e # d
             /\ m.dentry[e].inode # NULL =>
                   /\ m.dentry[e].inode \in DOMAIN n.inode
                   /\ m.inode[m.dentry[e].inode].dentry \in DOMAIN n.dentry
  <2>1. e \in Linked(m) /\ e # d
    BY <1>3
  <2> QED
    BY <1>1, <2>1, LinkedFields
<1>6. Heap(n)
  BY <1>1, <1>4, <1>5, PrunedHeap DEF Heap
<1> QED
  BY <1>1, <1>2, <1>3, <1>6

\* Dentry d has got the inode i of f: now it is f that is one too many.
Relinked(m, n, d, f, i) ==
    /\ HeapBut(n, f) /\ Linked(n) = Linked(m) /\ n.inode = m.inode
    /\ n.map_inode = m.map_inode /\ n.max_ino = m.max_ino
    /\ DOMAIN n.dentry = DOMAIN m.dentry
    /\ \A e \in DOMAIN m.dentry : e # d => n.dentry[e] = m.dentry[e]
    /\ n.dentry[d] = [m.dentry[d] EXCEPT !.inode = i, !.ino = m.inode[i].ino]

\* sfs_rename points the new dentry to the inode of the old one.
LEMMA RelinkHeap ==
    ASSUME NEW m, NEW d \in DOMAIN m.dentry, HeapBut(m, d), d # Root, NEW f \in Linked(m), f # d,
           NEW i, i = m.dentry[f].inode, i # NULL,
           \A e \in Linked(m) \ {d} : m.dentry[e].inode # m.dentry[d].inode
    PROVE  Relinked(m, Relink(m, d, i), d, f, i)
<1> PICK n : n = Relink(m, d, i)
  OBVIOUS
<1> DEFINE new == [m.dentry[d] EXCEPT !.inode = i, !.ino = m.inode[i].ino]
<1>0. Memory(m) /\ i \in DOMAIN m.inode /\ m.dentry[d] \in Dentry /\ m.inode[i].ino \in Bit /\ i \in Nat
  <2>1. Memory(m) /\ i \in DOMAIN m.inode
    BY LinkedFields DEF HeapBut
  <2> QED
    BY <2>1, MemoryFields, DentryFields, InodeFields
<1>1. /\ m = [dentry |-> m.dentry, inode |-> m.inode, map_inode |-> m.map_inode, max_ino |-> m.max_ino]
      /\ m.inode \in [DOMAIN m.inode -> Inode] /\ m.dentry \in [DOMAIN m.dentry -> Dentry]
      /\ m.map_inode \in SUBSET Bit /\ m.max_ino \in {0, MaxIno}
      /\ Top(m.inode) \in Nat /\ DOMAIN m.inode \subseteq 1 .. Top(m.inode)
      /\ Top(m.dentry) \in Nat /\ DOMAIN m.dentry \subseteq 1 .. Top(m.dentry)
  BY <1>0, MemoryFields
<1>2. /\ new \in Dentry /\ new.inode = i /\ new.ino = m.inode[i].ino
      /\ new.parent = m.dentry[d].parent /\ new.ftype = m.dentry[d].ftype
  BY <1>0 DEF Dentry
<1>3. n = [dentry |-> [m.dentry EXCEPT ![d] = new], inode |-> m.inode, map_inode |-> m.map_inode,
           max_ino |-> m.max_ino]
  BY <1>1 DEF Relink
<1>4. /\ n.dentry = [m.dentry EXCEPT ![d] = new] /\ n.inode = m.inode
      /\ n.map_inode = m.map_inode /\ n.max_ino = m.max_ino
  BY <1>3
<1> HIDE DEF new
<1>5. /\ DOMAIN n.dentry = DOMAIN m.dentry /\ n.dentry[d] = new
      /\ \A e \in DOMAIN m.dentry : e # d => n.dentry[e] = m.dentry[e]
      /\ n.dentry \in [DOMAIN n.dentry -> Dentry]
  BY <1>1, <1>2, <1>4
<1>6. Memory(n)
  <2>1. Memory([dentry |-> n.dentry, inode |-> m.inode, map_inode |-> m.map_inode, max_ino |-> m.max_ino])
    BY <1>1, <1>5, MemoryOf
  <2> QED
    BY <1>3, <1>4, <2>1
<1>7. \A l : List(n, l) = List(m, l)
  BY <1>4 DEF List
<1>8. Linked(n) = Linked(m)
  BY <1>4, <1>7 DEF Linked
<1>9. /\ Rooted(m) /\ ListedOnce(m) /\ Allocated(m) /\ Lead(m, d) /\ Back(m, d) /\ Parents(m)
      /\ Linked(m) \subseteq DOMAIN m.dentry
  BY DEF HeapBut, Allocated
<1>10. Rooted(n) /\ Allocated(n)
  BY <1>5, <1>8, <1>9 DEF Rooted, Allocated
<1>11. ListedOnce(n)
  BY <1>4, <1>7, <1>9 DEF ListedOnce
<1>12. \A e \in Linked(m) \ {d} : n.dentry[e] = m.dentry[e] /\ (e # f => m.dentry[e].inode # i)
  BY <1>5, <1>9 DEF Lead
<1>13. Lead(n, f)
  <2>1. \A e \in Linked(n) \ {f} : n.dentry[e].inode \in {NULL} \cup DOMAIN n.inode
    BY <1>0, <1>2, <1>4, <1>5, <1>8, <1>9, <1>12 DEF Lead
  <2>2. ASSUME NEW e \in Linked(n) \ {f}, NEW g \in Linked(n) \ {f},
               n.dentry[e].inode = n.dentry[g].inode, n.dentry[e].inode # NULL
        PROVE  e = g
    <3>1. CASE e = d \/ g = d
      BY ONLY <1>2, <1>5, <1>8, <1>12, <2>2, <3>1
    <3>2. CASE e # d /\ g # d
      BY ONLY <1>8, <1>9, <1>12, <2>2, <3>2 DEF Lead
    <3> QED
      BY <3>1, <3>2
  <2> QED
    BY ONLY <2>1, <2>2 DEF Lead
<1>14. Back(n, f)
  <2> SUFFICES ASSUME NEW e \in Linked(n) \ {f}, n.dentry[e].inode # NULL
               PROVE  PointsBack(n, n.dentry[e].inode)
    BY DEF Back
  <2>1. CASE e = d
    <3>1. PointsBack(m, i)
      BY <1>9 DEF Back
    <3>2. PointsBack(n, i)
      BY <1>2, <1>4, <1>5, <3>1 DEF PointsBack
    <3> QED
      BY <1>2, <1>5, <2>1, <3>2
  <2>2. CASE e # d
    <3>1. e \in Linked(m) \ {d} /\ n.dentry[e] = m.dentry[e] /\ m.dentry[e].inode # m.dentry[d].inode
      BY <1>8, <1>12, <2>2
    <3>2. PointsBack(m, m.dentry[e].inode)
      BY <1>9, <3>1 DEF Back
    <3>3. PointsBack(n, m.dentry[e].inode)
      BY <1>4, <1>5, <3>1, <3>2 DEF PointsBack
    <3> QED
      BY <3>1, <3>3
  <2> QED
    BY <2>1, <2>2
<1>15. Parents(n)
  <2> SUFFICES ASSUME NEW l \in DOMAIN n.inode, NEW e \in List(n, l)
               PROVE  n.dentry[e].parent = n.inode[l].dentry
    BY DEF Parents
  <2>1. e \in DOMAIN m.dentry /\ m.dentry[e].parent = m.inode[l].dentry
    BY <1>4, <1>7, <1>9, ListedIsLinked DEF Parents
  <2> QED
    BY <1>2, <1>4, <1>5, <2>1
<1>16. HeapBut(n, f)
  BY <1>6, <1>10, <1>11, <1>13, <1>14, <1>15 DEF HeapBut
<1> QED
  BY <1>4, <1>5, <1>8, <1>16 DEF new, Relinked
-------------------------------------------------------------------------------
\* Dentry d leads to an inode that is a directory's.
IsDir(m, d) == m.dentry[d].inode # NULL /\ Is(m, m.dentry[d].inode, "SFS_DIR")

\* The directory d lists nothing that sfs_lookup would take for the name.
Lacks(m, d, fname) == IsDir(m, d) /\ Hits(m, m.dentry[d].inode, fname) = {}

\* The dentry that the inode of d points back to.
BackOf(m, d) == m.inode[m.dentry[d].inode].dentry

\* sfs_lookup gets from d to e by the name: e comes first of those it takes for it.
Enters(m, d, fname, e) ==
    LET i == m.dentry[d].inode
    IN  IsDir(m, d) /\ Hits(m, i, fname) # {} /\ e = m.inode[i].dentrys[Min(Hits(m, i, fname))]

\* The first k steps of sfs_lookup lead from the root by way of c.
Way(m, path, k, c) ==
    /\ c \in [0 .. k -> Linked(m)] /\ c[0] = Root
    /\ \A l \in 1 .. k : Enters(m, c[l - 1], path[l], c[l])

\* What sfs_lookup gets to is in the directory it comes from.
LEMMA EntersListed ==
    ASSUME NEW m, Heap(m), NEW d \in Linked(m), NEW fname, NEW e, Enters(m, d, fname, e)
    PROVE  LET i == m.dentry[d].inode
           IN  /\ i \in DOMAIN m.inode /\ e \in List(m, i) /\ e \in Linked(m) \ {Root}
               /\ m.dentry[e].parent = m.inode[i].dentry /\ m.dentry[m.dentry[e].parent].inode = i
               /\ Matches(m, e, fname)
<1> PICK i : i = m.dentry[d].inode
  OBVIOUS
<1>1. i # NULL /\ Hits(m, i, fname) # {} /\ e = m.inode[i].dentrys[Min(Hits(m, i, fname))]
  BY DEF Enters, IsDir
<1>0. HeapBut(m, NULL) /\ Memory(m)
  BY DEF Heap, HeapBut
<1>2. /\ i \in DOMAIN m.inode /\ m.dentry[m.inode[i].dentry].inode = i
      /\ d # NULL
  <2>1. d # NULL
    BY <1>0, LinkedFields
  <2>2. m.dentry[d].inode # NULL
    BY <1>1
  <2> QED
    BY <1>0, <2>1, <2>2, LinkedFields
<1>3. Hits(m, i, fname) \in SUBSET Nat
  <2>1. DOMAIN m.inode[i].dentrys = 1 .. Len(m.inode[i].dentrys) /\ Len(m.inode[i].dentrys) \in Nat
    BY <1>0, <1>2, InodeFields
  <2> QED
    BY <2>1 DEF Hits
<1>4. Min(Hits(m, i, fname)) \in Hits(m, i, fname)
  BY <1>1, <1>3, MinOf
<1>5. e \in List(m, i) /\ Matches(m, e, fname)
  <2> PICK k, list : k = Min(Hits(m, i, fname)) /\ list = m.inode[i].dentrys
    OBVIOUS
  <2>0. list = m.inode[i].dentrys
    OBVIOUS
  <2>1. k \in Hits(m, i, fname) /\ e = list[k]
    BY <1>1, <1>4
  <2>2. k \in DOMAIN list /\ Matches(m, list[k], fname)
    BY ONLY <2>0, <2>1 DEF Hits
  <2>3. list[k] \in ToSet(list)
    BY ONLY <2>2 DEF ToSet
  <2>4. List(m, i) = ToSet(list)
    BY ONLY <2>0 DEF List
  <2> QED
    BY ONLY <2>1, <2>2, <2>3, <2>4
<1>6. e \in Linked(m) /\ e # Root /\ m.dentry[e].parent = m.inode[i].dentry
  BY <1>2, <1>5, ListedIsLinked DEF Heap, HeapBut, ListedOnce, Parents
<1> QED
  BY <1>2, <1>5, <1>6

\* The state of sfs_lookup at level lvl of n, when it goes on from d.
At(a, d, lvl, n) ==
    \E ret : a = [cur |-> d, ret |-> ret, lvl |-> lvl, total |-> n, find |-> BOOLEAN,
                  stop |-> FALSE, null |-> FALSE]

LEMMA WalkOn ==
    ASSUME NEW m, NEW a, NEW d, NEW lvl \in Nat, NEW n \in Nat, At(a, d, lvl, n), NEW fname, NEW e,
           Enters(m, d, fname, e)
    PROVE  /\ lvl + 1 # n => At(Walk(m, a, fname), e, lvl + 1, n)
           /\ lvl + 1 = n => LET w == Walk(m, a, fname)
                             IN  w.stop /\ w.find = {TRUE} /\ w.ret = e /\ ~w.null
<1> PICK i : i = m.dentry[d].inode
  OBVIOUS
<1> PICK h : h = Hits(m, i, fname)
  OBVIOUS
<1>0. i = m.dentry[d].inode /\ h = Hits(m, i, fname)
  OBVIOUS
<1>1. PICK ret : a = [cur |-> d, ret |-> ret, lvl |-> lvl, total |-> n, find |-> BOOLEAN,
                      stop |-> FALSE, null |-> FALSE]
  BY DEF At
<1>2. i # NULL /\ Is(m, i, "SFS_DIR") /\ h # {} /\ e = m.inode[i].dentrys[Min(h)]
  BY DEF Enters, IsDir
<1> DEFINE hit == m.inode[i].dentrys[Min(h)]
<1>3. ~Is(m, i, "SFS_REG_FILE")
  <2>1. Is(m, i, "SFS_DIR")
    BY <1>2
  <2> QED
    BY ONLY <2>1 DEF Is
<1>4. Walk(m, a, fname) =
         IF lvl + 1 = n THEN [a EXCEPT !.stop = TRUE, !.find = {TRUE}, !.ret = e]
         ELSE [a EXCEPT !.lvl = lvl + 1, !.cur = e, !.ret = m.inode[i].dentry]
  <2>1. a.cur = d /\ a.lvl = lvl /\ a.total = n /\ ~a.stop
    BY ONLY <1>1
  <2>2. Walk(m, a, fname) =
           IF a.stop THEN a
           ELSE IF i = NULL THEN [a EXCEPT !.stop = TRUE, !.null = TRUE]
           ELSE IF Is(m, i, "SFS_REG_FILE") /\ lvl + 1 < n
           THEN [a EXCEPT !.stop = TRUE, !.ret = m.inode[i].dentry]
           ELSE IF ~Is(m, i, "SFS_DIR") THEN [a EXCEPT !.lvl = lvl + 1]
           ELSE IF h = {}
           THEN [a EXCEPT !.stop = TRUE, !.find = {FALSE}, !.ret = m.inode[i].dentry]
           ELSE IF lvl + 1 = n
           THEN [a EXCEPT !.stop = TRUE, !.find = {TRUE}, !.ret = hit]
           ELSE [a EXCEPT !.lvl = lvl + 1, !.cur = hit, !.ret = m.inode[i].dentry]
    BY ONLY <1>0, <2>1 DEF Walk
  <2>3. e = hit /\ h # {} /\ i # NULL /\ Is(m, i, "SFS_DIR")
    BY <1>2
  <2> HIDE DEF hit
  <2> QED
    BY ONLY <1>3, <2>1, <2>2, <2>3
<1> QED
  BY ONLY <1>1, <1>4 DEF At

\* In a directory that lists nothing of that name sfs_lookup stops.
LEMMA WalkAbsent ==
    ASSUME NEW m, NEW a, NEW d, NEW lvl \in Nat, NEW n \in Nat, At(a, d, lvl, n), NEW fname,
           Lacks(m, d, fname)
    PROVE  LET w == Walk(m, a, fname)
           IN  w.stop /\ w.find = {FALSE} /\ w.ret = m.inode[m.dentry[d].inode].dentry /\ ~w.null
<1> PICK i : i = m.dentry[d].inode
  OBVIOUS
<1>1. PICK ret : a = [cur |-> d, ret |-> ret, lvl |-> lvl, total |-> n, find |-> BOOLEAN,
                      stop |-> FALSE, null |-> FALSE]
  BY DEF At
<1>2. i # NULL /\ Is(m, i, "SFS_DIR") /\ Hits(m, i, fname) = {}
  BY DEF Lacks, IsDir
<1>3. ~Is(m, i, "SFS_REG_FILE")
  BY <1>2 DEF Is
<1>4. Walk(m, a, fname) = [a EXCEPT !.stop = TRUE, !.find = {FALSE}, !.ret = m.inode[i].dentry]
  BY <1>1, <1>2, <1>3 DEF Walk
<1>5. i = m.dentry[d].inode
  OBVIOUS
<1> QED
  BY ONLY <1>1, <1>4, <1>5

\* At what is no directory, or not loaded, nothing is found and *is_find stays unassigned.
LEMMA WalkStuck ==
    ASSUME NEW m, NEW a, NEW d, NEW lvl \in Nat, NEW n \in Nat, At(a, d, lvl, n), NEW fname,
           ~IsDir(m, d)
    PROVE  LET w == Walk(m, a, fname)
           IN  At(w, d, lvl + 1, n) \/ (w.stop /\ w.find = BOOLEAN)
<1> PICK i : i = m.dentry[d].inode
  OBVIOUS
<1>1. PICK ret : a = [cur |-> d, ret |-> ret, lvl |-> lvl, total |-> n, find |-> BOOLEAN,
                      stop |-> FALSE, null |-> FALSE]
  BY DEF At
<1>2. CASE i = NULL
  <2>1. Walk(m, a, fname) = [a EXCEPT !.stop = TRUE, !.null = TRUE]
    BY <1>1, <1>2 DEF Walk
  <2> QED
    BY ONLY <1>1, <2>1
<1>3. CASE i # NULL /\ Is(m, i, "SFS_REG_FILE") /\ lvl + 1 < n
  <2>1. Walk(m, a, fname) = [a EXCEPT !.stop = TRUE, !.ret = m.inode[i].dentry]
    BY <1>1, <1>3 DEF Walk
  <2> QED
    BY ONLY <1>1, <2>1
<1>4. CASE i # NULL /\ ~(Is(m, i, "SFS_REG_FILE") /\ lvl + 1 < n)
  <2>1. ~Is(m, i, "SFS_DIR")
    BY <1>4 DEF IsDir
  <2>2. Walk(m, a, fname) = [a EXCEPT !.lvl = lvl + 1]
    BY <1>1, <1>4, <2>1 DEF Walk
  <2> QED
    BY ONLY <1>1, <2>2 DEF At
<1> QED
  BY <1>2, <1>3, <1>4

\* A walk that has stopped stays where it is.
LEMMA WalkStopped ==
    ASSUME NEW m, NEW a, a.stop, NEW fname
    PROVE  Walk(m, a, fname) = a
BY DEF Walk

\* The walk of sfs_lookup is a function: built level by level, none is the first to be missing.
LEMMA WalkExists ==
    ASSUME NEW m, NEW path, Len(path) \in Nat
    PROVE  \E w : /\ w[0] = WalkStart(path)
                  /\ \A k \in 1 .. Len(path) : w[k] = Walk(m, w[k - 1], path[k])
                  /\ sfs_lookup(m, path) = w[Len(path)]
<1> DEFINE N == Len(path)
           Step(w, k) == IF k = 0 THEN WalkStart(path) ELSE Walk(m, w[k - 1], path[k])
           Built(w, n) == w = [k \in 0 .. n |-> Step(w, k)]
           S == {n \in Nat : ~ \E w : Built(w, n)}
<1>0. N \in Nat
  OBVIOUS
<1>1. S = {}
  <2> SUFFICES ASSUME S # {} PROVE FALSE
    OBVIOUS
  <2>1. PICK n \in S : \A l \in S : n <= l
    BY Least
  <2>2. CASE n = 0
    <3> DEFINE w == [k \in 0 .. 0 |-> WalkStart(path)]
    <3>1. Built(w, 0)
      OBVIOUS
    <3> QED
      BY <2>1, <2>2, <3>1
  <2>3. CASE n > 0
    <3> HIDE DEF Built
    <3>0. n \in Nat /\ n - 1 \in Nat /\ ~(n <= n - 1)
      BY <2>1, <2>3
    <3>1. n - 1 \in Nat /\ n - 1 \notin S
      BY <2>1, <3>0
    <3>2. PICK v : Built(v, n - 1)
      BY <3>1
    <3> USE DEF Built
    <3> DEFINE last == Walk(m, v[n - 1], path[n])
    <3> HIDE DEF last
    <3> DEFINE w == [k \in 0 .. n |-> IF k = n THEN last ELSE v[k]]
    <3>3. w[n - 1] = v[n - 1] /\ w[n] = last
      BY <3>0
    <3>4. ASSUME NEW k \in 0 .. n PROVE w[k] = Step(w, k)
      <4>1. CASE k = n
        BY <4>1, <3>3, <2>3 DEF last
      <4>2. CASE k # n
        <5>1. k \in 0 .. n - 1 /\ w[k] = v[k] /\ v[k] = Step(v, k)
          BY <4>2, <3>2, <3>0
        <5>2. CASE k = 0
          BY <5>1, <5>2
        <5>3. CASE k # 0
          <6>1. k - 1 \in 0 .. n /\ k - 1 # n
            BY <5>1, <5>3, <3>0
          <6>2. w[k - 1] = v[k - 1]
            BY <6>1
          <6> QED
            BY <5>1, <5>3, <6>2
        <5> QED
          BY <5>2, <5>3
      <4> QED
        BY <4>1, <4>2
    <3>5. Built(w, n)
      <4>1. w = [k \in 0 .. n |-> w[k]]
        OBVIOUS
      <4> HIDE DEF w, Step
      <4> QED
        BY <3>4, <4>1
    <3> QED
      BY <2>1, <3>5
  <2> QED
    BY <2>1, <2>2, <2>3
<1>2. PICK v : Built(v, N)
  BY <1>0, <1>1
<1> DEFINE walk[k \in 0 .. N] == IF k = 0 THEN WalkStart(path) ELSE Walk(m, walk[k - 1], path[k])
<1>3. walk = [k \in 0 .. N |-> Step(walk, k)]
  <2>1. walk = CHOOSE w : w = [k \in 0 .. N |-> Step(w, k)]
    BY Zenon
  <2>2. \E w : w = [k \in 0 .. N |-> Step(w, k)]
    BY <1>2
  <2> HIDE DEF walk, Step, N
  <2> QED
    BY ONLY <2>1, <2>2
<1>4. sfs_lookup(m, path) = walk[N]
  BY DEF sfs_lookup
<1> HIDE DEF walk
<1>5. \A k \in 0 .. N : walk[k] = Step(walk, k)
  <2> HIDE DEF Step, N
  <2> QED
    BY ONLY <1>3
<1>6. /\ walk[0] = WalkStart(path)
      /\ \A k \in 1 .. N : walk[k] = Walk(m, walk[k - 1], path[k])
  BY <1>0, <1>5
<1> QED
  BY <1>4, <1>6
-------------------------------------------------------------------------------
\* The states w of the walk for the path.
Walked(m, path, w) ==
    /\ w[0] = WalkStart(path)
    /\ \A k \in 1 .. Len(path) : w[k] = Walk(m, w[k - 1], path[k])
    /\ sfs_lookup(m, path) = w[Len(path)]

\* Along its way sfs_lookup has found nothing yet.
LEMMA WalkAt ==
    ASSUME NEW m, NEW path \in Seq(Name), NEW w, Walked(m, path, w), NEW k \in 0 .. Len(path) - 1,
           NEW c, Way(m, path, k, c)
    PROVE  At(w[k], c[k], k, Len(path))
<1> DEFINE n == Len(path)
           S == {l \in 0 .. k : ~At(w[l], c[l], l, n)}
<1>0. n \in Nat /\ k \in Nat /\ k < n
  BY LenProperties
<1>1. SUFFICES ASSUME S # {} PROVE FALSE
  BY <1>0
<1>2. S \in SUBSET Nat
  BY <1>0
<1>3. PICK l \in S : \A j \in S : l <= j
  BY <1>1, <1>2, Least
<1>4. l \in 0 .. k /\ ~At(w[l], c[l], l, n) /\ l \in Nat
  BY <1>0
<1>5. CASE l = 0
  <2>1. path # <<>>
    BY <1>0
  <2>2. w[0] = [cur |-> Root, ret |-> Root, lvl |-> 0, total |-> n, find |-> BOOLEAN,
                stop |-> FALSE, null |-> FALSE]
    BY <2>1 DEF Walked, WalkStart, sfs_calc_lvl
  <2>3. c[0] = Root
    BY DEF Way
  <2> HIDE DEF n, S
  <2>4. At(w[0], c[0], 0, n)
    BY ONLY <2>2, <2>3 DEF At
  <2> QED
    BY <1>4, <1>5, <2>4
<1>6. CASE l # 0
  <2>1. l - 1 \in 0 .. k /\ l - 1 \in Nat /\ l \in 1 .. k /\ l \in 1 .. n /\ l - 1 + 1 = l /\ l # n /\ ~(l <= l - 1)
    BY <1>0, <1>4, <1>6
  <2>2. At(w[l - 1], c[l - 1], l - 1, n)
    BY <1>3, <2>1
  <2>3. Enters(m, c[l - 1], path[l], c[l]) /\ w[l] = Walk(m, w[l - 1], path[l])
    BY <2>1 DEF Way, Walked
  <2> HIDE DEF n, S
  <2>4. At(Walk(m, w[l - 1], path[l]), c[l], l - 1 + 1, n)
    BY <1>0, <2>1, <2>2, <2>3, WalkOn
  <2> QED
    BY <1>4, <2>1, <2>3, <2>4
<1> QED
  BY <1>5, <1>6

\* Once it has stopped it has the answer.
LEMMA WalkStays ==
    ASSUME NEW m, NEW path \in Seq(Name), NEW w, Walked(m, path, w), NEW k \in 0 .. Len(path),
           w[k].stop
    PROVE  sfs_lookup(m, path) = w[k]
<1> DEFINE n == Len(path)
           S == {l \in k .. n : w[l] # w[k]}
<1>0. n \in Nat /\ k \in Nat /\ k <= n
  BY LenProperties
<1>1. S = {}
  <2> SUFFICES ASSUME S # {} PROVE FALSE
    OBVIOUS
  <2>1. S \in SUBSET Nat
    BY <1>0
  <2>2. PICK l \in S : \A j \in S : l <= j
    BY <2>1, Least
  <2>3. l \in k .. n /\ l # k /\ w[l] # w[k]
    BY <1>0
  <2>4. l - 1 \in k .. n /\ l \in 1 .. n /\ ~(l <= l - 1)
    BY <1>0, <2>3
  <2>5. w[l - 1] = w[k]
    BY <2>2, <2>4
  <2>6. w[l] = Walk(m, w[l - 1], path[l])
    BY <2>4 DEF Walked
  <2> QED
    BY <2>3, <2>5, <2>6, WalkStopped
<1>2. w[n] = w[k]
  BY <1>0, <1>1
<1> QED
  BY <1>2 DEF Walked

\* sfs_lookup has found the path when its way takes every component.
LEMMA LookupFound ==
    ASSUME NEW m, NEW path \in Seq(Name), NEW c, Way(m, path, Len(path), c)
    PROVE  LET r == sfs_lookup(m, path)
           IN  r.find = {TRUE} /\ r.ret = c[Len(path)] /\ ~r.null
<1> DEFINE n == Len(path)
<1>0. n \in Nat
  BY LenProperties
<1>1. PICK w : Walked(m, path, w)
  BY <1>0, WalkExists DEF Walked
<1>2. CASE n = 0
  <2>1. path = <<>>
    BY <1>2, EmptySeq
  <2>2. sfs_lookup(m, path) = WalkStart(path)
    BY <1>1, <1>2 DEF Walked
  <2>3. c[n] = Root
    BY <1>2 DEF Way
  <2>4. /\ WalkStart(path).find = {TRUE} /\ WalkStart(path).ret = Root /\ ~WalkStart(path).null
    BY ONLY <2>1 DEF WalkStart
  <2> QED
    BY <2>2, <2>3, <2>4
<1>3. CASE n # 0
  <2>1. n - 1 \in 0 .. n - 1 /\ n - 1 \in Nat /\ n \in 1 .. n /\ n - 1 + 1 = n
    BY <1>0, <1>3
  <2>2. Enters(m, c[n - 1], path[n], c[n]) /\ c \in [0 .. n -> Linked(m)] /\ c[0] = Root
    BY <2>1 DEF Way
  <2>3. Way(m, path, n - 1, [l \in 0 .. n - 1 |-> c[l]])
    <3> DEFINE b == [l \in 0 .. n - 1 |-> c[l]]
    <3>1. b \in [0 .. n - 1 -> Linked(m)] /\ b[0] = Root
      BY <2>1, <2>2
    <3>2. ASSUME NEW l \in 1 .. n - 1 PROVE Enters(m, b[l - 1], path[l], b[l])
      <4>1. b[l - 1] = c[l - 1] /\ b[l] = c[l] /\ l \in 1 .. n
        BY <1>0
      <4> QED
        BY <4>1 DEF Way
    <3> HIDE DEF b, n
    <3>3. Way(m, path, n - 1, b)
      BY <3>1, <3>2 DEF Way
    <3> QED
      BY <3>3 DEF b
  <2>4. At(w[n - 1], c[n - 1], n - 1, n)
    <3>1. [l \in 0 .. n - 1 |-> c[l]][n - 1] = c[n - 1]
      BY <2>1
    <3> QED
      BY <1>1, <2>1, <2>3, <3>1, WalkAt
  <2>5. w[n] = Walk(m, w[n - 1], path[n]) /\ sfs_lookup(m, path) = w[n]
    BY <1>1, <2>1 DEF Walked
  <2> HIDE DEF n
  <2> PICK l : l = n - 1
    OBVIOUS
  <2>6a. l \in Nat /\ n \in Nat /\ l + 1 = n /\ At(w[l], c[l], l, n) /\ Enters(m, c[l], path[n], c[n])
    BY <1>0, <2>1, <2>2, <2>4
  <2>6b. LET r == Walk(m, w[l], path[n]) IN r.stop /\ r.find = {TRUE} /\ r.ret = c[n] /\ ~r.null
    BY ONLY <2>6a, WalkOn
  <2>6. LET r == Walk(m, w[n - 1], path[n]) IN r.stop /\ r.find = {TRUE} /\ r.ret = c[n] /\ ~r.null
    BY <2>6b
  <2> QED
    BY <2>5, <2>6 DEF n
<1> QED
  BY <1>2, <1>3

\* It has found that there is no such path when a directory on its way lists no such name.
LEMMA LookupAbsent ==
    ASSUME NEW m, NEW path \in Seq(Name), NEW k \in 0 .. Len(path) - 1, NEW c, Way(m, path, k, c),
           Lacks(m, c[k], path[k + 1])
    PROVE  LET r == sfs_lookup(m, path)
           IN  r.find = {FALSE} /\ r.ret = BackOf(m, c[k]) /\ ~r.null
<1> DEFINE n == Len(path)
<1>0. n \in Nat /\ k \in Nat /\ k + 1 \in 1 .. n /\ k + 1 \in 0 .. n /\ k + 1 - 1 = k
  BY LenProperties
<1>1. PICK w : Walked(m, path, w)
  BY <1>0, WalkExists DEF Walked
<1>2. At(w[k], c[k], k, n)
  BY <1>1, WalkAt
<1>3. w[k + 1] = Walk(m, w[k], path[k + 1])
  BY <1>0, <1>1 DEF Walked
<1> HIDE DEF n
<1>4. LET r == Walk(m, w[k], path[k + 1])
      IN  r.stop /\ r.find = {FALSE} /\ r.ret = BackOf(m, c[k]) /\ ~r.null
  BY <1>0, <1>2, WalkAbsent DEF BackOf
<1>5. sfs_lookup(m, path) = w[k + 1]
  BY <1>0, <1>1, <1>3, <1>4, WalkStays DEF n
<1> QED
  BY <1>3, <1>4, <1>5

\* It does not say whether there is such a path when its way ends at something else.
LEMMA LookupStuck ==
    ASSUME NEW m, NEW path \in Seq(Name), NEW k \in 0 .. Len(path) - 1, NEW c, Way(m, path, k, c),
           ~IsDir(m, c[k])
    PROVE  sfs_lookup(m, path).find = BOOLEAN
<1> DEFINE n == Len(path)
<1>0. n \in Nat /\ k \in Nat /\ k < n
  BY LenProperties
<1>1. PICK w : Walked(m, path, w)
  BY <1>0, WalkExists DEF Walked
<1>2. At(w[k], c[k], k, n)
  BY <1>1, WalkAt
<1> DEFINE Good(l) == At(w[l], c[k], l, n) \/ (w[l].stop /\ w[l].find = BOOLEAN)
           S == {l \in k .. n : ~Good(l)}
<1>3. S = {}
  <2> SUFFICES ASSUME S # {} PROVE FALSE
    OBVIOUS
  <2>1. S \in SUBSET Nat
    BY <1>0
  <2>2. PICK l \in S : \A j \in S : l <= j
    BY <2>1, Least
  <2>3. l \in k .. n /\ ~Good(l)
    OBVIOUS
  <2>4. l # k
    BY <1>2, <2>3
  <2>5. l - 1 \in k .. n /\ l \in 1 .. n /\ ~(l <= l - 1) /\ l - 1 \in Nat /\ l - 1 + 1 = l
    BY <1>0, <2>3, <2>4
  <2>6. Good(l - 1)
    BY <2>2, <2>5
  <2>7. w[l] = Walk(m, w[l - 1], path[l])
    BY <1>1, <2>5 DEF Walked
  <2> HIDE DEF n, S
  <2>8. CASE At(w[l - 1], c[k], l - 1, n)
    <3>1. LET r == Walk(m, w[l - 1], path[l])
          IN  At(r, c[k], l - 1 + 1, n) \/ (r.stop /\ r.find = BOOLEAN)
      BY <1>0, <2>5, <2>8, WalkStuck
    <3> QED
      BY <2>3, <2>5, <2>7, <3>1
  <2>9. CASE w[l - 1].stop /\ w[l - 1].find = BOOLEAN
    BY <2>3, <2>7, <2>9, WalkStopped
  <2> QED
    BY <2>6, <2>8, <2>9
<1>4. Good(n)
  BY <1>0, <1>3
<1>5. At(w[n], c[k], n, n) => w[n].find = BOOLEAN
  <2> HIDE DEF n
  <2> QED
    BY ONLY DEF At
<1> QED
  BY <1>1, <1>4, <1>5 DEF Walked
-------------------------------------------------------------------------------
\* The way of sfs_lookup goes on until the path ends or something stops it.
LEMMA WayEnds ==
    ASSUME NEW m, Heap(m), NEW path \in Seq(Name)
    PROVE  \E k \in 0 .. Len(path) : \E c :
              /\ Way(m, path, k, c)
              /\ k < Len(path) =>
                    ~IsDir(m, c[k]) \/ Lacks(m, c[k], path[k + 1])
<1> DEFINE n == Len(path)
           S == {x \in 0 .. n : \E c : Way(m, path, n - x, c)}
<1>0. n \in Nat
  BY LenProperties
<1>1. n \in S
  <2> DEFINE c == [l \in 0 .. 0 |-> Root]
  <2>1. c \in [0 .. 0 -> Linked(m)] /\ c[0] = Root
    BY DEF Linked
  <2>2. Way(m, path, 0, c)
    <3> HIDE DEF c
    <3> QED
      BY <2>1 DEF Way
  <2>3. n - n = 0
    BY <1>0
  <2> QED
    BY <1>0, <2>2, <2>3
<1>2. S \in SUBSET Nat
  BY <1>0
<1>3. PICK x \in S : \A y \in S : x <= y
  BY <1>1, <1>2, Least
<1> DEFINE k == n - x
<1>4. PICK c : Way(m, path, k, c)
  OBVIOUS
<1>5. k \in 0 .. n /\ x \in 0 .. n
  BY <1>0
<1>6. ASSUME k < n, IsDir(m, c[k]), ~Lacks(m, c[k], path[k + 1])
      PROVE  FALSE
  <2> DEFINE i == m.dentry[c[k]].inode
             e == m.inode[i].dentrys[Min(Hits(m, i, path[k + 1]))]
  <2>1. Enters(m, c[k], path[k + 1], e)
    BY <1>6 DEF Enters, Lacks
  <2> HIDE DEF e, i
  <2>2. c \in [0 .. k -> Linked(m)] /\ c[0] = Root /\ k \in Nat
    BY <1>0, <1>4, <1>5 DEF Way
  <2>3. e \in Linked(m)
    BY <2>1, <2>2, EntersListed
  <2> DEFINE b == [l \in 0 .. k + 1 |-> IF l = k + 1 THEN e ELSE c[l]]
  <2>4. /\ b \in [0 .. k + 1 -> Linked(m)] /\ b[0] = Root /\ b[k + 1] = e
        /\ \A l \in 0 .. k : b[l] = c[l]
    <3> HIDE DEF k
    <3> QED
      BY <2>2, <2>3
  <2>5. ASSUME NEW l \in 1 .. k + 1 PROVE Enters(m, b[l - 1], path[l], b[l])
    <3>1. CASE l = k + 1
      <4>1. k + 1 - 1 = k /\ k \in 0 .. k
        BY <2>2
      <4> HIDE DEF b
      <4>2. b[l - 1] = c[k] /\ b[l] = e
        BY <2>4, <3>1, <4>1
      <4> QED
        BY <2>1, <3>1, <4>2
    <3>2. CASE l # k + 1
      <4>1. l \in 1 .. k /\ l - 1 \in 0 .. k /\ l \in 0 .. k
        BY <2>2, <3>2
      <4> HIDE DEF b
      <4> QED
        BY <1>4, <2>4, <4>1 DEF Way
    <3> QED
      BY <3>1, <3>2
  <2>6. Way(m, path, k + 1, b)
    <3> HIDE DEF b, k
    <3> QED
      BY <2>4, <2>5 DEF Way
  <2>7. n - (x - 1) = k + 1 /\ x - 1 \in 0 .. n /\ ~(x <= x - 1)
    BY <1>0, <1>5, <1>6
  <2>8. x - 1 \in S
    BY <2>6, <2>7
  <2> QED
    BY <1>3, <2>7, <2>8
<1> QED
  BY <1>4, <1>5, <1>6

\* A dentry that is linked and loaded.
LEMMA LoadedAt ==
    ASSUME NEW m, Heap(m), NEW d \in Linked(m), NEW i, i = m.dentry[d].inode, i # NULL
    PROVE  /\ d \in DOMAIN m.dentry /\ d # NULL
           /\ i \in DOMAIN m.inode /\ m.inode[i].dentry \in DOMAIN m.dentry
           /\ m.dentry[m.inode[i].dentry].inode = i
<1>1. HeapBut(m, NULL)
  BY DEF Heap
<1>2. d \in DOMAIN m.dentry /\ d # NULL
  BY <1>1, LinkedFields
<1> QED
  BY <1>1, <1>2, LinkedFields

\* Only a directory that is loaded is entered.
LEMMA EntersDir ==
    ASSUME NEW m, NEW d, NEW fname, NEW e, Enters(m, d, fname, e)
    PROVE  IsDir(m, d) /\ m.dentry[d].inode # NULL
BY DEF Enters, IsDir

\* Its way is the only one.
LEMMA SameWay ==
    ASSUME NEW m, NEW p, NEW q, NEW k \in Nat, NEW l \in Nat, NEW b, NEW c, Way(m, p, k, b), Way(m, q, l, c),
           NEW x \in 0 .. k, x <= l, \A y \in 1 .. x : p[y] = q[y]
    PROVE  b[x] = c[x]
<1> DEFINE S == {y \in 0 .. x : b[y] # c[y]}
<1>1. SUFFICES ASSUME S # {} PROVE FALSE
  OBVIOUS
<1>2. PICK y \in S : \A z \in S : y <= z
  <2>1. S \in SUBSET Nat
    OBVIOUS
  <2> QED
    BY <1>1, <2>1, Least
<1>3. y # 0
  BY DEF Way
<1>4. y - 1 \in 0 .. x /\ y \in 1 .. x /\ y \in 1 .. k /\ y \in 1 .. l /\ ~(y <= y - 1)
  BY <1>3
<1>5. b[y - 1] = c[y - 1]
  BY <1>2, <1>4
<1>6. Enters(m, b[y - 1], p[y], b[y]) /\ Enters(m, c[y - 1], q[y], c[y]) /\ p[y] = q[y]
  BY <1>4 DEF Way
<1>7. b[y] = c[y]
  BY <1>5, <1>6 DEF Enters
<1> QED
  BY <1>7

\* It never comes to where it has been.
LEMMA NoReturn ==
    ASSUME NEW m, Heap(m), NEW path, NEW k \in Nat, NEW c, Way(m, path, k, c), NEW x \in 0 .. k, NEW y \in 0 .. k,
           c[x] = c[y]
    PROVE  x = y
<1> DEFINE S == {z \in 0 .. k : \E t \in 0 .. k : z < t /\ c[z] = c[t]}
<1>1. ASSUME S # {} PROVE FALSE
  <2>1. PICK a \in S : \A z \in S : a <= z
    <3>1. S \in SUBSET Nat
      OBVIOUS
    <3> QED
      BY <1>1, <3>1, Least
  <2>2. PICK b \in 0 .. k : a < b /\ c[a] = c[b]
    OBVIOUS
  <2>3. b \in 1 .. k /\ b - 1 \in 0 .. k /\ a \in 0 .. k
    BY <2>2
  <2>4. /\ Enters(m, c[b - 1], path[b], c[b]) /\ c[b - 1] \in Linked(m) /\ c[0] = Root
        /\ c \in [0 .. k -> Linked(m)]
    BY <2>3 DEF Way
  <2>5. /\ m.dentry[c[b - 1]].inode \in DOMAIN m.inode
        /\ c[b] \in List(m, m.dentry[c[b - 1]].inode) /\ c[b] # Root
    BY <2>4, EntersListed
  <2>6. a \in 1 .. k /\ a - 1 \in 0 .. k /\ a - 1 < b - 1 /\ ~(a <= a - 1)
    BY <2>2, <2>3, <2>4, <2>5
  <2>7. Enters(m, c[a - 1], path[a], c[a]) /\ c[a - 1] \in Linked(m)
    BY <2>4, <2>6 DEF Way
  <2>8. /\ m.dentry[c[a - 1]].inode \in DOMAIN m.inode
        /\ c[a] \in List(m, m.dentry[c[a - 1]].inode)
    BY <2>7, EntersListed
  <2>9. m.dentry[c[a - 1]].inode = m.dentry[c[b - 1]].inode
    BY <2>2, <2>5, <2>8 DEF Heap, HeapBut, ListedOnce
  <2>10. m.dentry[c[a - 1]].inode # NULL /\ c[a - 1] # NULL /\ c[b - 1] # NULL
    <3>1. m.dentry[c[a - 1]].inode # NULL /\ m.dentry[c[b - 1]].inode # NULL
      BY ONLY <2>4, <2>7, EntersDir
    <3> QED
      BY <2>4, <2>7, <3>1, LoadedAt
  <2>11. c[a - 1] = c[b - 1]
    BY <2>4, <2>7, <2>9, <2>10 DEF Heap, HeapBut, Lead
  <2>12. a - 1 \in S
    BY <2>3, <2>6, <2>11
  <2> QED
    BY <2>1, <2>6, <2>12
<1>2. x < y \/ y < x \/ x = y
  OBVIOUS
<1> QED
  BY <1>1, <1>2

\* The first part of a path.
LEMMA Prefix ==
    ASSUME NEW path \in Seq(Name), NEW k \in 0 .. Len(path)
    PROVE  /\ SubSeq(path, 1, k) \in Seq(Name) /\ Len(SubSeq(path, 1, k)) = k
           /\ \A l \in 1 .. k : SubSeq(path, 1, k)[l] = path[l]
<1>1. Len(path) \in Nat /\ \A l \in 1 .. Len(path) : path[l] \in Name
  BY LenProperties
<1>2. \A l \in 1 .. k : path[l] \in Name
  BY <1>1
<1>3. /\ SubSeq(path, 1, k) \in Seq(Name)
      /\ Len(SubSeq(path, 1, k)) = IF 1 <= k THEN k - 1 + 1 ELSE 0
      /\ \A l \in 1 .. k - 1 + 1 : SubSeq(path, 1, k)[l] = path[1 + l - 1]
  BY <1>1, <1>2, SubSeqProperties
<1> PICK s : s = SubSeq(path, 1, k)
  OBVIOUS
<1>4. Len(s) = k
  BY <1>1, <1>3
<1>5. ASSUME NEW l \in 1 .. k PROVE s[l] = path[l]
  <2>1. l \in 1 .. k - 1 + 1 /\ 1 + l - 1 = l
    BY <1>1
  <2> QED
    BY <1>3, <2>1
<1> QED
  BY <1>3, <1>4, <1>5

\* What sfs_lookup finds lies at the end of its way.
LEMMA FoundAt ==
    ASSUME NEW m, Heap(m), NEW path \in Seq(Name), sfs_lookup(m, path).find = {TRUE}
    PROVE  \E c : /\ Way(m, path, Len(path), c) /\ sfs_lookup(m, path).ret = c[Len(path)]
                  /\ c[Len(path)] \in Linked(m)
<1> DEFINE n == Len(path)
           r == sfs_lookup(m, path)
<1>0. n \in Nat
  BY LenProperties
<1>1. PICK k \in 0 .. n :
         \E c : Way(m, path, k, c) /\ (k < n => ~IsDir(m, c[k]) \/ Lacks(m, c[k], path[k + 1]))
  BY WayEnds
<1>2. PICK c : Way(m, path, k, c) /\ (k < n => ~IsDir(m, c[k]) \/ Lacks(m, c[k], path[k + 1]))
  BY <1>1
<1>3. CASE k = n
  <2>1. r.ret = c[n] /\ c[n] \in Linked(m)
    BY <1>0, <1>2, <1>3, LookupFound DEF Way
  <2> QED
    BY <1>2, <1>3, <2>1
<1>4. CASE k # n
  <2>1. k \in 0 .. n - 1 /\ k < n
    BY <1>0, <1>4
  <2>2. r.find = {FALSE} \/ r.find = BOOLEAN
    <3>1. ~IsDir(m, c[k]) => r.find = BOOLEAN
      BY <1>2, <2>1, LookupStuck
    <3>2. Lacks(m, c[k], path[k + 1]) => r.find = {FALSE}
      BY <1>2, <2>1, LookupAbsent
    <3> QED
      BY <1>2, <2>1, <3>1, <3>2
  <2> QED
    BY <2>2
<1> QED
  BY <1>3, <1>4

\* What the kernel knows of a path lies at the end of its way.
LEMMA ShownAt ==
    ASSUME NEW m, Heap(m), NEW path \in Seq(Name), NEW ft, Shows(m, path, ft)
    PROVE  \E c : LET d == c[Len(path)]
                  IN  /\ Way(m, path, Len(path), c) /\ sfs_lookup(m, path).ret = d /\ d \in Linked(m)
                      /\ m.dentry[d].inode # NULL /\ Is(m, m.dentry[d].inode, ft)
<1> PICK r : r = sfs_lookup(m, path)
  OBVIOUS
<1>1. r.find = {TRUE} /\ m.dentry[r.ret].inode # NULL /\ Is(m, m.dentry[r.ret].inode, ft)
  BY DEF Shows
<1>2. PICK c : Way(m, path, Len(path), c) /\ r.ret = c[Len(path)] /\ c[Len(path)] \in Linked(m)
  BY <1>1, FoundAt
<1>3. r = sfs_lookup(m, path)
  OBVIOUS
<1> QED
  BY ONLY <1>1, <1>2, <1>3

\* A path the kernel knows to be absent is missing in the directory at the end of its way.
LEMMA AbsentAt ==
    ASSUME NEW m, Heap(m), NEW path \in Path, InKnownDir(m, path), sfs_lookup(m, path).find = {FALSE}
    PROVE  \E c : LET d == c[Len(path) - 1]
                      i == m.dentry[d].inode
                  IN  /\ Way(m, path, Len(path) - 1, c) /\ d \in Linked(m) /\ Lacks(m, d, Last(path))
                      /\ i \in DOMAIN m.inode
                      /\ sfs_lookup(m, path).ret = m.inode[i].dentry
                      /\ m.inode[i].dentry \in DOMAIN m.dentry /\ m.dentry[m.inode[i].dentry].inode = i
<1> DEFINE n == Len(path)
           r == sfs_lookup(m, path)
<1>0. n \in Nat \ {0} /\ path \in Seq(Name) /\ Last(path) = path[n]
  BY PathType DEF Last
<1>1a. PICK k \in 0 .. n :
          \E c : Way(m, path, k, c) /\ (k < n => ~IsDir(m, c[k]) \/ Lacks(m, c[k], path[k + 1]))
  BY <1>0, WayEnds
<1>2. PICK c : Way(m, path, k, c) /\ (k < n => ~IsDir(m, c[k]) \/ Lacks(m, c[k], path[k + 1]))
  BY <1>1a
<1>3. k \in 0 .. n - 1 /\ k < n
  <2>1. ASSUME k = n PROVE r.find = {TRUE}
    <3>1. Way(m, path, Len(path), c)
      BY <1>2, <2>1
    <3> QED
      BY <1>0, <3>1, LookupFound
  <2>2. k # n
    BY <2>1
  <2> QED
    BY <1>0, <2>2
<1>4. Lacks(m, c[k], path[k + 1])
  <2>1. ~IsDir(m, c[k]) => r.find = BOOLEAN
    BY <1>0, <1>2, <1>3, LookupStuck
  <2> QED
    BY <1>2, <1>3, <2>1
<1>5. k = n - 1
  <2> SUFFICES ASSUME k + 1 \in 1 .. n - 1 PROVE FALSE
    BY <1>0, <1>3
  <2> DEFINE q == SubSeq(path, 1, k + 1)
  <2>1. Shows(m, q, "SFS_DIR")
    BY DEF InKnownDir
  <2>2. q \in Seq(Name) /\ Len(q) = k + 1 /\ \A l \in 1 .. k + 1 : q[l] = path[l]
    <3>1. k + 1 \in 0 .. n
      BY <1>0
    <3> QED
      BY <1>0, <3>1, Prefix
  <2> HIDE DEF q
  <2>3. PICK b : Way(m, q, k + 1, b)
    BY <2>1, <2>2, ShownAt
  <2>4. k + 1 - 1 = k /\ k + 1 \in 1 .. k + 1 /\ k \in Nat /\ k + 1 \in Nat /\ k \in 0 .. k /\ k <= k + 1
    BY <1>0
  <2>5. c[k] = b[k]
    <3>1. \A y \in 1 .. k : path[y] = q[y]
      BY <2>2, <2>4
    <3>2. Way(m, path, k, c)
      BY <1>2
    <3> HIDE DEF n
    <3> QED
      BY ONLY <2>3, <2>4, <3>1, <3>2, SameWay
  <2>6. Enters(m, b[k], q[k + 1], b[k + 1]) /\ q[k + 1] = path[k + 1]
    BY <2>2, <2>3, <2>4 DEF Way
  <2> QED
    BY <1>4, <2>5, <2>6 DEF Enters, Lacks
<1> DEFINE d == c[k]
           i == m.dentry[d].inode
<1>6. d \in Linked(m) /\ i # NULL
  BY <1>2, <1>4 DEF Way, Lacks, IsDir
<1>7. /\ i \in DOMAIN m.inode /\ m.inode[i].dentry \in DOMAIN m.dentry
      /\ m.dentry[m.inode[i].dentry].inode = i
  <2>1. d # NULL
    BY <1>6, LinkedFields DEF Heap
  <2> QED
    BY <1>6, <2>1, LinkedFields DEF Heap
<1>8. r.ret = m.inode[i].dentry
  <2>1. path \in Seq(Name) /\ k \in 0 .. Len(path) - 1 /\ Way(m, path, k, c) /\ Lacks(m, c[k], path[k + 1])
    BY <1>0, <1>2, <1>3, <1>4
  <2>2. sfs_lookup(m, path).ret = BackOf(m, c[k])
    BY ONLY <2>1, LookupAbsent
  <2> QED
    BY <2>2 DEF BackOf
<1>9. n - 1 + 1 = n
  BY <1>0
<1>10. Way(m, path, n - 1, c) /\ Lacks(m, d, Last(path)) /\ d = c[n - 1]
  BY <1>0, <1>2, <1>4, <1>5, <1>9
<1> HIDE DEF r, n, i, d
<1>12. i = m.dentry[d].inode
  BY DEF i
<1>13. /\ Way(m, path, n - 1, c) /\ d \in Linked(m) /\ Lacks(m, d, Last(path))
       /\ i \in DOMAIN m.inode /\ r.ret = m.inode[i].dentry
       /\ m.inode[i].dentry \in DOMAIN m.dentry /\ m.dentry[m.inode[i].dentry].inode = i
  BY ONLY <1>6, <1>7, <1>8, <1>10
<1>14. d = c[n - 1]
  BY <1>10
<1> QED
  BY ONLY <1>12, <1>13, <1>14, Zenon DEF r, n
-------------------------------------------------------------------------------
(***************************************************************************)
(* What sfs_mkdir and sfs_mknod make of the memory m: a new dentry at the  *)
(* head of the list of the directory its path lies in, with an inode of    *)
(* its own unless no number is to be had.                                  *)
(***************************************************************************)
NoNumber(m, n, d) ==
    /\ \E r \in Scan(m.map_inode, m.max_ino) : r.no = None /\ n.map_inode = r.map
    /\ n.dentry[d].inode = NULL /\ n.dentry[d].ino = None /\ DOMAIN n.inode = DOMAIN m.inode

NewNumber(m, n, d, ft) ==
    LET i == Top(m.inode) + 1
    IN  \E no \in Bit \ m.map_inode :
           /\ \E r \in Scan(m.map_inode, m.max_ino) : r.no = no
           /\ n.map_inode = m.map_inode \cup {no}
           /\ n.dentry[d].inode = i /\ n.dentry[d].ino = no
           /\ i \notin DOMAIN m.inode /\ i # NULL /\ DOMAIN n.inode = DOMAIN m.inode \cup {i}
           /\ n.inode[i] = NewInode(no, d, ft)

MadeIn(m, n, p, i, d, fname, ft) ==
    /\ Heap(n) /\ Linked(n) = Linked(m) \cup {d} /\ n.max_ino = m.max_ino
    /\ d \notin DOMAIN m.dentry /\ d # Root /\ d # NULL /\ DOMAIN n.dentry = DOMAIN m.dentry \cup {d}
    /\ \A e \in DOMAIN m.dentry : n.dentry[e] = m.dentry[e]
    /\ n.dentry[d].fname = fname /\ n.dentry[d].parent = p /\ n.dentry[d].ftype = ft
    /\ i \in DOMAIN m.inode /\ m.inode[i].dentry = p /\ p \in DOMAIN m.dentry
    /\ \A j \in DOMAIN m.inode : j # i => n.inode[j] = m.inode[j]
    /\ n.inode[i] = Headed(m.inode[i], d)
    /\ NoNumber(m, n, d) \/ NewNumber(m, n, d, ft)

Made(m, n, path, ft) ==
    LET p == sfs_lookup(m, path).ret
    IN  MadeIn(m, n, p, m.dentry[p].inode, Top(m.dentry) + 1, Last(path), ft)

LEMMA MakeMade ==
    ASSUME NEW m, Heap(m), NEW path \in Path, InKnownDir(m, path), sfs_lookup(m, path).find = {FALSE},
           NEW ft \in FileType
    PROVE  Made(m, Make(m, path, ft), path, ft)
<1> PICK n : n = Make(m, path, ft)
  OBVIOUS
<1> DEFINE p   == sfs_lookup(m, path).ret
           i   == m.dentry[p].inode
           d   == Top(m.dentry) + 1
           rec == [fname |-> Last(path), parent |-> p, ino |-> None, inode |-> NULL, ftype |-> ft]
<1>1. /\ i \in DOMAIN m.inode /\ m.inode[i].dentry = p /\ p \in DOMAIN m.dentry
      /\ Memory(m) /\ p \in Nat
  <2>1. PICK j \in DOMAIN m.inode : /\ p = m.inode[j].dentry /\ m.inode[j].dentry \in DOMAIN m.dentry
                                    /\ m.dentry[m.inode[j].dentry].inode = j
    BY AbsentAt
  <2>2. Memory(m)
    BY DEF Heap, HeapBut
  <2>3. p \in DOMAIN m.dentry /\ i = j /\ m.inode[j].dentry = p
    BY <2>1
  <2> HIDE DEF p, i
  <2> QED
    BY <2>1, <2>2, <2>3, MemoryFields
<1>2. rec \in Dentry /\ rec.parent = m.inode[i].dentry /\ rec.inode = NULL
  <2>1. Last(path) \in Name
    BY PathType
  <2> HIDE DEF p, i
  <2> QED
    BY <1>1, <2>1 DEF Dentry, None, NULL
<1>2a. rec.fname = Last(path) /\ rec.parent = p /\ rec.ino = None /\ rec.inode = NULL /\ rec.ftype = ft
  OBVIOUS
<1> PICK n1 : n1 = sfs_alloc_dentry(m, i, rec)
  OBVIOUS
<1>3. n = sfs_alloc_inode(n1, d)
  BY DEF Make, sfs_get_fname
<1> HIDE DEF rec, i, p
<1>4. /\ Heap(n1) /\ Linked(n1) = Linked(m) \cup {d} /\ d \notin DOMAIN m.dentry /\ d # Root
      /\ DOMAIN n1.dentry = DOMAIN m.dentry \cup {d} /\ n1.dentry[d] = rec
      /\ \A e \in DOMAIN m.dentry : n1.dentry[e] = m.dentry[e]
      /\ DOMAIN n1.inode = DOMAIN m.inode
      /\ n1.map_inode = m.map_inode /\ n1.max_ino = m.max_ino
      /\ \A j \in DOMAIN m.inode : j # i => n1.inode[j] = m.inode[j]
      /\ n1.inode[i] = Headed(m.inode[i], d)
  <2>1. Added(m, n1, i, rec)
    BY <1>1, <1>2, AllocDentry
  <2> QED
    BY <2>1 DEF Added
<1>5. d # NULL /\ Top(n1.inode) = Top(m.inode)
  <2>1. Top(m.dentry) \in Nat
    BY <1>1, MemoryFields
  <2> QED
    BY <1>4, <2>1 DEF NULL, Top
<1>6. n1.dentry[d].inode = NULL /\ d \in Linked(n1) \ {Root}
  BY <1>2a, <1>4
<1> HIDE DEF d
<1>7. /\ Heap(n) /\ Linked(n) = Linked(n1) /\ n.max_ino = n1.max_ino
      /\ Refused(n1, n) \/ Given(n1, n, d)
  BY <1>3, <1>4, <1>6, AllocInode
<1>8. Top(m.inode) + 1 # NULL
  <2>1. Top(m.inode) \in Nat
    BY <1>1, MemoryFields
  <2> QED
    BY <2>1 DEF NULL
<1>9. ASSUME Refused(n1, n)
      PROVE  MadeIn(m, n, p, i, d, Last(path), ft)
  <2>1. n.dentry = n1.dentry /\ n.inode = n1.inode
    BY <1>9 DEF Refused
  <2>2. NoNumber(m, n, d)
    BY <1>2a, <1>4, <1>9, <2>1 DEF Refused, NoNumber
  <2>3. /\ n.dentry[d].fname = Last(path) /\ n.dentry[d].parent = p /\ n.dentry[d].ftype = ft
    BY <1>2a, <1>4, <2>1
  <2>5. \A e \in DOMAIN m.dentry : n.dentry[e] = m.dentry[e]
    BY <1>4, <2>1
  <2>6. /\ \A l \in DOMAIN m.inode : l # i => n.inode[l] = m.inode[l]
        /\ n.inode[i] = Headed(m.inode[i], d)
    BY <1>4, <2>1
  <2>7. /\ DOMAIN n.dentry = DOMAIN m.dentry \cup {d} /\ Linked(n) = Linked(m) \cup {d} /\ n.max_ino = m.max_ino
        /\ Heap(n)
    BY <1>4, <1>7, <2>1
  <2>8. d \notin DOMAIN m.dentry /\ d # Root
    BY <1>4
  <2> QED
    BY ONLY <1>1, <1>5, <2>2, <2>3, <2>5, <2>6, <2>7, <2>8 DEF MadeIn
<1>10. ASSUME Given(n1, n, d)
       PROVE  MadeIn(m, n, p, i, d, Last(path), ft)
  <2> PICK j : j = Top(m.inode) + 1
    OBVIOUS
  <2>0. j = Top(m.inode) + 1
    OBVIOUS
  <2>1. PICK no \in Bit \ n1.map_inode :
           /\ \E r \in Scan(n1.map_inode, n1.max_ino) : r.no = no
           /\ n.map_inode = n1.map_inode \cup {no}
           /\ DOMAIN n.dentry = DOMAIN n1.dentry
           /\ \A e \in DOMAIN n1.dentry : e # d => n.dentry[e] = n1.dentry[e]
           /\ n.dentry[d] = [n1.dentry[d] EXCEPT !.inode = j, !.ino = no]
           /\ j \notin DOMAIN n1.inode /\ DOMAIN n.inode = DOMAIN n1.inode \cup {j}
           /\ \A l \in DOMAIN n1.inode : n.inode[l] = n1.inode[l]
           /\ n.inode[j] = NewInode(no, d, n1.dentry[d].ftype)
    BY ONLY <1>5, <1>10, <2>0, Zenon DEF Given
  <2>2. n.dentry[d] = [rec EXCEPT !.inode = j, !.ino = no]
    BY <1>4, <2>1
  <2>3. /\ n.dentry[d].fname = Last(path) /\ n.dentry[d].parent = p /\ n.dentry[d].ftype = ft
        /\ n.dentry[d].inode = j /\ n.dentry[d].ino = no
    BY <1>2, <1>2a, <2>2 DEF Dentry
  <2>4. NewNumber(m, n, d, ft)
    BY <1>2a, <1>4, <1>8, <2>1, <2>3 DEF NewNumber
  <2>5. \A e \in DOMAIN m.dentry : n.dentry[e] = m.dentry[e]
    BY <1>4, <2>1
  <2>6. /\ \A l \in DOMAIN m.inode : l # i => n.inode[l] = m.inode[l]
        /\ n.inode[i] = Headed(m.inode[i], d)
    BY <1>1, <1>4, <2>1
  <2>7. /\ DOMAIN n.dentry = DOMAIN m.dentry \cup {d} /\ Linked(n) = Linked(m) \cup {d} /\ n.max_ino = m.max_ino
        /\ Heap(n)
    BY <1>4, <1>7, <2>1
  <2>8. d \notin DOMAIN m.dentry /\ d # Root
    BY <1>4
  <2> QED
    BY ONLY <1>1, <1>5, <2>3, <2>4, <2>5, <2>6, <2>7, <2>8 DEF MadeIn
<1>11. MadeIn(m, n, p, i, d, Last(path), ft)
  BY <1>7, <1>9, <1>10
<1> QED
  BY <1>11 DEF Made, p, i, d

\* sfs_lookup takes the same dentries of a list for a name where they have the same names.
LEMMA SameHits ==
    ASSUME NEW m, NEW n, NEW i, m.inode[i] = n.inode[i],
           \A e \in List(m, i) : n.dentry[e].fname = m.dentry[e].fname
    PROVE  \A fname : Hits(n, i, fname) = Hits(m, i, fname)
<1> PICK list : list = m.inode[i].dentrys
  OBVIOUS
<1>0. list = m.inode[i].dentrys /\ list = n.inode[i].dentrys
  OBVIOUS
<1>1. \A k \in DOMAIN list : list[k] \in List(m, i)
  BY DEF List, ToSet
<1>2. \A k \in DOMAIN list : \A fname : Matches(n, list[k], fname) <=> Matches(m, list[k], fname)
  BY <1>1 DEF Matches
<1>3. \A fname : /\ Hits(n, i, fname) = {k \in DOMAIN list : Matches(n, list[k], fname)}
                 /\ Hits(m, i, fname) = {k \in DOMAIN list : Matches(m, list[k], fname)}
  BY ONLY <1>0 DEF Hits
<1> QED
  BY ONLY <1>2, <1>3

\* The directory d and the names in it are the same in n as in m.
Alike(m, n, d) ==
    LET i == m.dentry[d].inode
        p == m.inode[i].dentry
    IN  /\ n.dentry[d].inode = i /\ n.inode[i] = m.inode[i] /\ n.dentry[p].ftype = m.dentry[p].ftype
        /\ \A e \in List(m, i) : n.dentry[e].fname = m.dentry[e].fname

\* A step of sfs_lookup is the same where the directory is, and the names in it.
LEMMA SameStep ==
    ASSUME NEW m, NEW n, NEW d, Alike(m, n, d)
    PROVE  /\ IsDir(n, d) <=> IsDir(m, d)
           /\ \A fname : Lacks(n, d, fname) <=> Lacks(m, d, fname)
           /\ \A fname, e : Enters(n, d, fname, e) <=> Enters(m, d, fname, e)
<1> PICK i : i = m.dentry[d].inode
  OBVIOUS
<1> PICK x : x = m.inode[i]
  OBVIOUS
<1> PICK y : y = x.dentry
  OBVIOUS
<1>0. /\ i = m.dentry[d].inode /\ n.dentry[d].inode = i /\ n.inode[i] = x /\ m.inode[i] = x
      /\ x.dentry = y /\ n.dentry[y].ftype = m.dentry[y].ftype
      /\ \A e \in List(m, i) : n.dentry[e].fname = m.dentry[e].fname
  BY DEF Alike
<1>1. IsDir(n, d) <=> IsDir(m, d)
  BY ONLY <1>0 DEF IsDir, Is
<1>2. \A fname : Hits(n, i, fname) = Hits(m, i, fname)
  BY ONLY <1>0, SameHits
<1>3. \A fname : Lacks(n, d, fname) <=> Lacks(m, d, fname)
  BY ONLY <1>0, <1>1, <1>2 DEF Lacks
<1>4. ASSUME NEW fname, NEW e PROVE Enters(n, d, fname, e) <=> Enters(m, d, fname, e)
  BY ONLY <1>0, <1>1, <1>2 DEF Enters
<1> QED
  BY ONLY <1>1, <1>3, <1>4
-------------------------------------------------------------------------------
\* The first dentry of a directory's list is found by its own name.
LEMMA EntersFirst ==
    ASSUME NEW m, NEW d, NEW i, i = m.dentry[d].inode, IsDir(m, d), NEW list \in Seq(Nat),
           list = m.inode[i].dentrys, NEW e, 1 \in DOMAIN list, e = list[1], NEW fname \in Name,
           m.dentry[e].fname = fname
    PROVE  Enters(m, d, fname, e)
<1> PICK h : h = Hits(m, i, fname)
  OBVIOUS
<1>0. h = Hits(m, i, fname) /\ list = m.inode[i].dentrys /\ i = m.dentry[d].inode
  OBVIOUS
<1>1. DOMAIN list = 1 .. Len(list) /\ Len(list) \in Nat
  BY LenProperties
<1>2. Matches(m, e, fname)
  BY NameAssumption DEF Matches
<1>3. h = {k \in DOMAIN list : Matches(m, list[k], fname)}
  BY ONLY <1>0 DEF Hits
<1>3a. 1 \in DOMAIN list /\ e = list[1]
  OBVIOUS
<1>4. h \in SUBSET Nat /\ 1 \in h /\ \A k \in h : k >= 1
  <2>1. 1 \in h
    BY ONLY <1>2, <1>3, <1>3a
  <2>2. h \subseteq 1 .. Len(list)
    BY ONLY <1>1, <1>3
  <2> QED
    BY ONLY <1>1, <2>1, <2>2
<1>5. Min(h) \in h /\ Min(h) <= 1
  BY <1>4, MinOf
<1>6. Min(h) = 1
  BY <1>4, <1>5
<1>7. h # {} /\ e = list[Min(h)]
  BY <1>4, <1>6
<1> QED
  BY ONLY <1>0, <1>7, IsDir(m, d) DEF Enters

\* What sfs_mkdir and sfs_mknod have made is what sfs_lookup finds for the path from then on.
LEMMA MadeFound ==
    ASSUME NEW m, Heap(m), NEW path \in Path, InKnownDir(m, path), sfs_lookup(m, path).find = {FALSE},
           NEW n, NEW ft \in FileType, Made(m, n, path, ft)
    PROVE  LET r == sfs_lookup(n, path)
           IN  r.find = {TRUE} /\ r.ret = Top(m.dentry) + 1
<1>p. PICK t : t = Top(m.dentry) + 1
  OBVIOUS
<1>q. PICK N : N = Len(path)
  OBVIOUS
<1>r. PICK p : p = sfs_lookup(m, path).ret
  OBVIOUS
<1>s. PICK fname : fname = Last(path)
  OBVIOUS
<1>0. t = Top(m.dentry) + 1 /\ N = Len(path) /\ p = sfs_lookup(m, path).ret /\ fname = Last(path)
  BY <1>p, <1>q, <1>r, <1>s
<1>1. N \in Nat \ {0} /\ path \in Seq(Name) /\ fname = path[N] /\ fname \in Name
  BY <1>0, PathType DEF Last
<1>2. PICK c : LET d == c[N - 1]
                   i == m.dentry[d].inode
               IN  /\ Way(m, path, N - 1, c) /\ d \in Linked(m) /\ Lacks(m, d, fname)
                   /\ i \in DOMAIN m.inode
                   /\ p = m.inode[i].dentry
                   /\ m.inode[i].dentry \in DOMAIN m.dentry /\ m.dentry[m.inode[i].dentry].inode = i
  <2>1. PICK c : LET d == c[Len(path) - 1]
                     i == m.dentry[d].inode
                 IN  /\ Way(m, path, Len(path) - 1, c) /\ d \in Linked(m) /\ Lacks(m, d, Last(path))
                     /\ i \in DOMAIN m.inode
                     /\ sfs_lookup(m, path).ret = m.inode[i].dentry
                     /\ m.inode[i].dentry \in DOMAIN m.dentry /\ m.dentry[m.inode[i].dentry].inode = i
    BY AbsentAt
  <2> QED
    BY ONLY <1>0, <2>1
<1>t. PICK d : d = c[N - 1]
  OBVIOUS
<1>u. PICK i : i = m.dentry[d].inode
  OBVIOUS
<1>3. d = c[N - 1] /\ i = m.dentry[d].inode
  BY <1>t, <1>u
<1>4. /\ Way(m, path, N - 1, c) /\ d \in Linked(m) /\ Lacks(m, d, fname)
      /\ i \in DOMAIN m.inode /\ p = m.inode[i].dentry /\ p \in DOMAIN m.dentry /\ m.dentry[p].inode = i
  BY <1>2, <1>3
<1>5. MadeIn(m, n, p, i, t, fname, ft)
  BY <1>0, <1>4 DEF Made
<1>6. /\ Heap(n) /\ Linked(n) = Linked(m) \cup {t}
      /\ \A e \in DOMAIN m.dentry : n.dentry[e] = m.dentry[e]
      /\ n.dentry[t].fname = fname
      /\ \A j \in DOMAIN m.inode : j # i => n.inode[j] = m.inode[j]
      /\ n.inode[i] = Headed(m.inode[i], t)
  BY <1>5 DEF MadeIn
<1>7. t \in Linked(n) /\ t \in Nat
  <2>1. t \in Linked(n)
    BY <1>6
  <2> QED
    BY <2>1, <1>6, MemoryFields DEF Heap, HeapBut, Allocated
<1>8. ASSUME NEW l \in 1 .. N - 1
      PROVE  Enters(n, c[l - 1], path[l], c[l])
  <2>p. PICK x : x = c[l - 1]
    OBVIOUS
  <2>q. PICK j : j = m.dentry[x].inode
    OBVIOUS
  <2>0. x = c[l - 1] /\ j = m.dentry[x].inode
    BY <2>p, <2>q
  <2>1. Enters(m, x, path[l], c[l]) /\ x \in Linked(m)
    <3>1. l - 1 \in 0 .. N - 1
      BY <1>1
    <3>2. c \in [0 .. N - 1 -> Linked(m)] /\ \A k \in 1 .. N - 1 : Enters(m, c[k - 1], path[k], c[k])
      BY <1>4 DEF Way
    <3> QED
      BY ONLY <2>0, <3>1, <3>2, l \in 1 .. N - 1
  <2>2. j # NULL
    BY <2>0, <2>1, EntersDir
  <2>3. /\ x \in DOMAIN m.dentry /\ j \in DOMAIN m.inode /\ m.inode[j].dentry \in DOMAIN m.dentry
    BY <2>0, <2>1, <2>2, LoadedAt
  <2>4. j # i
    <3> SUFFICES ASSUME j = i PROVE FALSE
      OBVIOUS
    <3>1. x # NULL /\ d # NULL
      BY <1>4, <2>1, LinkedFields DEF Heap
    <3>2. x = d
      BY <1>3, <1>4, <2>0, <2>1, <2>2, <3>1 DEF Heap, HeapBut, Lead
    <3>3. c[l - 1] = c[N - 1] /\ l - 1 \in 0 .. N - 1 /\ N - 1 \in 0 .. N - 1 /\ N - 1 \in Nat
      BY <1>1, <1>3, <2>0, <3>2
    <3>4. l - 1 = N - 1
      BY <1>4, <3>3, NoReturn
    <3> QED
      BY <1>1, <3>4
  <2>5. \A e \in List(m, j) : e \in DOMAIN m.dentry
    BY <2>3, ListedIsLinked DEF Heap, HeapBut, Allocated
  <2>6. /\ n.dentry[x].inode = j /\ n.inode[j] = m.inode[j]
        /\ n.dentry[m.inode[j].dentry].ftype = m.dentry[m.inode[j].dentry].ftype
        /\ \A e \in List(m, j) : n.dentry[e].fname = m.dentry[e].fname
    BY <1>6, <2>0, <2>3, <2>4, <2>5
  <2>7. \A f, e : Enters(n, x, f, e) <=> Enters(m, x, f, e)
    <3>1. Alike(m, n, x)
      BY ONLY <2>0, <2>6 DEF Alike
    <3> QED
      BY ONLY <3>1, SameStep
  <2> QED
    BY ONLY <2>0, <2>1, <2>7
<1>9. Enters(n, d, fname, t)
  <2>r. PICK old : old = m.inode[i].dentrys
    OBVIOUS
  <2>0. old = m.inode[i].dentrys /\ old \in Seq(Nat) /\ m.inode[i] \in Inode
    BY <2>r, <1>4, InodeFields DEF Heap, HeapBut
  <2>s. PICK list : list = <<t>> \o old
    OBVIOUS
  <2>1. /\ list \in Seq(Nat) /\ 1 \in DOMAIN list /\ list[1] = t
    <3>1. Joined(Nat, <<t>>, old, <<t>> \o old)
      BY <1>7, <2>0, Single, InARow
    <3>2. DOMAIN <<t>> = {1} /\ <<t>>[1] = t /\ Len(<<t>>) = 1
      BY <1>7, Single
    <3>3. Len(old) \in Nat
      BY <2>0, LenProperties
    <3>4. /\ list \in Seq(Nat) /\ DOMAIN list = 1 .. Len(<<t>>) + Len(old)
          /\ \A k \in DOMAIN <<t>> : list[k] = <<t>>[k]
      BY <2>s, <3>1 DEF Joined
    <3> QED
      BY ONLY <3>2, <3>3, <3>4
  <2>2. n.inode[i].dentrys = list /\ n.inode[i].dentry = p
    BY <1>4, <1>6, <2>0, <2>s DEF Headed, Inode
  <2>3. d \in DOMAIN m.dentry /\ n.dentry[d].inode = i
    BY <1>3, <1>4, <1>6 DEF Heap, HeapBut, Allocated
  <2>4. m.dentry[d].inode # NULL /\ m.dentry[p].ftype = "SFS_DIR"
    BY <1>3, <1>4 DEF Lacks, IsDir, Is
  <2>5. n.dentry[p].ftype = "SFS_DIR"
    BY <1>4, <1>6, <2>4
  <2>6. IsDir(n, d)
    BY ONLY <1>3, <2>2, <2>3, <2>4, <2>5 DEF IsDir, Is
  <2>7. n.dentry[t].fname = fname
    BY <1>6
  <2> QED
    BY ONLY <1>1, <2>1, <2>2, <2>3, <2>6, <2>7, EntersFirst, NameAssumption
<1>v. PICK b : b = [l \in 0 .. N |-> IF l = N THEN t ELSE c[l]]
  OBVIOUS
<1>10. /\ b \in [0 .. N -> Linked(n)] /\ b[0] = Root /\ b[N] = t /\ b[N - 1] = d
       /\ \A l \in 1 .. N - 1 : b[l - 1] = c[l - 1] /\ b[l] = c[l]
  <2>1. c \in [0 .. N - 1 -> Linked(m)] /\ c[0] = Root
    BY <1>4 DEF Way
  <2>2. \A l \in 0 .. N : l # N => l \in 0 .. N - 1
    BY <1>1
  <2>3. b = [l \in 0 .. N |-> IF l = N THEN t ELSE c[l]]
    BY <1>v
  <2>4. 0 \in 0 .. N /\ 0 # N /\ N \in 0 .. N /\ N - 1 \in 0 .. N /\ N - 1 # N
    BY <1>1
  <2>5. \A l \in 1 .. N - 1 : l - 1 \in 0 .. N /\ l \in 0 .. N /\ l - 1 # N /\ l # N
    BY <1>1
  <2> QED
    BY ONLY <1>3, <1>6, <1>7, <2>1, <2>2, <2>3, <2>4, <2>5
<1>11. Way(n, path, N, b)
  <2>1. ASSUME NEW l \in 1 .. N PROVE Enters(n, b[l - 1], path[l], b[l])
    <3>1. CASE l = N
      BY <1>1, <1>9, <1>10, <3>1
    <3>2. CASE l # N
      <4>1. l \in 1 .. N - 1
        BY <1>1, <3>2
      <4> QED
        BY <1>8, <1>10, <4>1
    <3> QED
      BY <3>1, <3>2
  <2> QED
    BY <1>10, <2>1 DEF Way
<1>12. path \in Seq(Name) /\ Way(n, path, Len(path), b)
  BY <1>0, <1>1, <1>11
<1>13. sfs_lookup(n, path).find = {TRUE} /\ sfs_lookup(n, path).ret = b[Len(path)]
  BY ONLY <1>12, LookupFound
<1> QED
  BY <1>0, <1>10, <1>13
-------------------------------------------------------------------------------
\* n differs from m in what the dentries and inodes say of the files only.
Altered(m, n) ==
    /\ Memory(n) /\ DOMAIN n.dentry = DOMAIN m.dentry /\ DOMAIN n.inode = DOMAIN m.inode
    /\ n.dentry[Root] = m.dentry[Root]
    /\ \A d \in DOMAIN m.dentry :
          /\ n.dentry[d].parent = m.dentry[d].parent /\ n.dentry[d].inode = m.dentry[d].inode
          /\ n.dentry[d].ftype = "SFS_REG_FILE" => m.dentry[d].ftype = "SFS_REG_FILE"
    /\ \A i \in DOMAIN m.inode :
          /\ n.inode[i].dentry = m.inode[i].dentry /\ n.inode[i].dentrys = m.inode[i].dentrys
          /\ Len(n.inode[i].data) = Len(m.inode[i].data)

\* The order of the heap does not depend on what the files are.
LEMMA AlteredHeap ==
    ASSUME NEW m, NEW n, Heap(m), Altered(m, n)
    PROVE  Heap(n) /\ Linked(n) = Linked(m)
<1>1. \A i \in DOMAIN m.inode : List(n, i) = List(m, i)
  BY DEF Altered, List
<1>2. Linked(n) = Linked(m)
  BY <1>1 DEF Altered, Linked
<1>3. Rooted(n) /\ Allocated(n)
  BY <1>2 DEF Altered, Heap, HeapBut, Rooted, Allocated
<1>4. ListedOnce(n)
  BY <1>1 DEF Altered, Heap, HeapBut, ListedOnce
<1>5. Linked(m) \subseteq DOMAIN m.dentry /\ DOMAIN n.inode = DOMAIN m.inode
  BY DEF Altered, Heap, HeapBut, Allocated
<1>6. \A d \in Linked(m) : n.dentry[d].inode = m.dentry[d].inode
  BY <1>5 DEF Altered
<1>7. Lead(n, NULL)
  BY <1>2, <1>5, <1>6 DEF Heap, HeapBut, Lead
<1>8. ASSUME NEW d \in Linked(m), m.dentry[d].inode # NULL
      PROVE  PointsBack(n, m.dentry[d].inode)
  <2> PICK i : i = m.dentry[d].inode
    OBVIOUS
  <2>0. i = m.dentry[d].inode
    OBVIOUS
  <2>1. d # NULL
    BY LinkedFields DEF Heap
  <2>2. PointsBack(m, i) /\ i \in DOMAIN m.inode
    BY <1>8, <2>1 DEF Heap, HeapBut, Back, Lead
  <2> PICK b : b = m.inode[i].dentry
    OBVIOUS
  <2>3. b = m.inode[i].dentry
    OBVIOUS
  <2>4. /\ b \in DOMAIN m.dentry /\ m.dentry[b].inode = i
        /\ m.dentry[b].ftype = "SFS_REG_FILE" => Len(m.inode[i].data) = Cells
    BY <2>2, <2>3 DEF PointsBack
  <2>5. /\ n.inode[i].dentry = b /\ b \in DOMAIN n.dentry /\ n.dentry[b].inode = i
        /\ n.dentry[b].ftype = "SFS_REG_FILE" => m.dentry[b].ftype = "SFS_REG_FILE"
        /\ Len(n.inode[i].data) = Len(m.inode[i].data)
    BY <2>2, <2>3, <2>4 DEF Altered
  <2>6. PointsBack(n, i)
    BY ONLY <2>4, <2>5 DEF PointsBack
  <2> QED
    BY <2>0, <2>6
<1>9. Back(n, NULL)
  BY <1>2, <1>6, <1>8 DEF Back
<1>10. Parents(n)
  <2>1. \A i \in DOMAIN m.inode : List(m, i) \subseteq DOMAIN m.dentry
    BY <1>5, ListedIsLinked
  <2> QED
    BY <1>1, <2>1 DEF Altered, Heap, HeapBut, Parents
<1>11. Memory(n)
  BY DEF Altered
<1> QED
  BY <1>2, <1>3, <1>4, <1>7, <1>9, <1>10, <1>11 DEF Heap, HeapBut

\* Inode i with another size and other data in its blocks.
LEMMA AlteredInode ==
    ASSUME NEW m, Memory(m), NEW i \in DOMAIN m.inode, NEW rec \in Inode,
           rec.dentry = m.inode[i].dentry, rec.dentrys = m.inode[i].dentrys,
           Len(rec.data) = Len(m.inode[i].data),
           NEW n, n = [dentry |-> m.dentry, inode |-> [m.inode EXCEPT ![i] = rec],
                       map_inode |-> m.map_inode, max_ino |-> m.max_ino]
    PROVE  Altered(m, n)
<1> DEFINE g == [m.inode EXCEPT ![i] = rec]
<1>1. /\ m.dentry \in [DOMAIN m.dentry -> Dentry] /\ m.inode \in [DOMAIN m.inode -> Inode]
      /\ m.map_inode \in SUBSET Bit /\ m.max_ino \in {0, MaxIno}
      /\ Top(m.dentry) \in Nat /\ DOMAIN m.dentry \subseteq 1 .. Top(m.dentry)
      /\ Top(m.inode) \in Nat /\ DOMAIN m.inode \subseteq 1 .. Top(m.inode)
  BY MemoryFields
<1>2. /\ DOMAIN g = DOMAIN m.inode /\ g \in [DOMAIN g -> Inode]
      /\ \A j \in DOMAIN m.inode : g[j] = IF j = i THEN rec ELSE m.inode[j]
  BY <1>1
<1> HIDE DEF g
<1>3. Memory(n)
  BY <1>1, <1>2, MemoryOf DEF g
<1>4. n.dentry = m.dentry /\ n.inode = g
  BY DEF g
<1> QED
  BY ONLY <1>2, <1>3, <1>4, rec.dentry = m.inode[i].dentry, rec.dentrys = m.inode[i].dentrys,
           Len(rec.data) = Len(m.inode[i].data) DEF Altered

\* A size, and data of the given length.
Fits(w, len) == w.size \in Nat /\ w.data \in Seq(Byte \cup {Junk}) /\ Len(w.data) = len

\* A write stays in the data blocks.
LEMMA WrittenData ==
    ASSUME NEW size \in Nat, NEW data \in Seq(Byte \cup {Junk}), NEW offset \in Nat, NEW n \in Nat,
           NEW byte \in Byte
    PROVE  Fits(Written(size, data, offset, n, byte), Len(data))
<1> DEFINE e == [k \in DOMAIN data |-> IF k \in offset + 1 .. offset + n THEN byte ELSE data[k]]
<1>1. DOMAIN data = 1 .. Len(data) /\ Len(data) \in Nat /\ \A k \in DOMAIN data : data[k] \in Byte \cup {Junk}
  BY LenProperties
<1>2. e \in [1 .. Len(data) -> Byte \cup {Junk}]
  BY <1>1
<1>3. e \in Seq(Byte \cup {Junk}) /\ Len(e) = Len(data)
  <2> HIDE DEF e
  <2>1. e \in Seq(Byte \cup {Junk})
    BY <1>1, <1>2, IsASeq
  <2>2. DOMAIN e = 1 .. Len(e) /\ Len(e) \in Nat
    BY <2>1, LenProperties
  <2> QED
    BY <1>1, <1>2, <2>1, <2>2
<1> QED
  BY <1>3 DEF Written, Fits
-------------------------------------------------------------------------------
\* A tree is what paths have been promised to be.
Tree(tree) == tree \in [DOMAIN tree -> Node] /\ DOMAIN tree \subseteq Path

LEMMA FreshNode ==
    ASSUME NEW ft \in FileType
    PROVE  Fresh(ft) \in Node /\ \A t \in Target : [Fresh(ft) EXCEPT !.target = t] \in Node
BY DEF Fresh, Node

LEMMA TreeWith ==
    ASSUME NEW tree, Tree(tree), NEW path \in Path, NEW node \in Node
    PROVE  Tree(With(tree, path, node))
<1>1. With(tree, path, node) \in [DOMAIN tree \cup {path} -> Node]
  BY WithType DEF Tree
<1> QED
  BY <1>1 DEF Tree

LEMMA TreeWithout ==
    ASSUME NEW tree, Tree(tree), NEW S \in SUBSET DOMAIN tree
    PROVE  Tree(Restrict(tree, S))
<1>1. Restrict(tree, S) \in [S -> Node]
  BY DEF Restrict, Tree
<1> QED
  BY <1>1 DEF Tree

LEMMA TreeChanged ==
    ASSUME NEW tree, Tree(tree), NEW path \in DOMAIN tree, NEW size \in Nat,
           NEW data \in [1 .. Cells -> Byte \cup {Junk}]
    PROVE  Tree([tree EXCEPT ![path].size = size, ![path].data = data])
<1>1. tree[path] \in Node
  BY DEF Tree
<1>2. [[tree[path] EXCEPT !.size = size] EXCEPT !.data = data] \in Node
  BY <1>1 DEF Node
<1> DEFINE r == [tree EXCEPT ![path] = [[tree[path] EXCEPT !.size = size] EXCEPT !.data = data]]
<1>3. [tree EXCEPT ![path].size = size, ![path].data = data] = r
  BY DEF Tree
<1>4. r \in [DOMAIN tree -> Node]
  BY <1>2 DEF Tree
<1> HIDE DEF r
<1>5. Tree(r)
  BY <1>4 DEF Tree
<1> QED
  BY <1>3, <1>5

\* Paths stay paths when a directory on them is renamed, if they do not get too long.
LEMMA TreeMoved ==
    ASSUME Tree(live), NEW from \in Path, NEW to \in Path,
           \A p \in DOMAIN live : Len(Moved(from, to, p)) <= MaxDepth
    PROVE  Tree(MovedTree(from, to))
<1>1. ASSUME NEW p \in DOMAIN live PROVE Moved(from, to, p) \in Path
  <2>0. p \in Path
    BY DEF Tree
  <2>1. CASE IsPrefix(from, p)
    <3> DEFINE s == SubSeq(p, Len(from) + 1, Len(p))
    <3>1. /\ p \in Seq(Name) /\ Len(p) \in Nat /\ Len(from) \in Nat /\ to \in Seq(Name) /\ Len(to) \in Nat \ {0}
          /\ \A k \in 1 .. Len(p) : p[k] \in Name
      BY <2>0, PathType
    <3>2. s \in Seq(Name)
      <4>1. \A k \in Len(from) + 1 .. Len(p) : p[k] \in Name
        BY <3>1
      <4> QED
        BY <3>1, <4>1, SubSeqProperties
    <3> HIDE DEF s
    <3>3. Len(s) \in Nat
      BY <3>2, LenProperties
    <3>4. to \o s \in Seq(Name) /\ Len(to \o s) = Len(to) + Len(s)
      BY <3>1, <3>2, ConcatProperties
    <3>5. Moved(from, to, p) = to \o s
      BY <2>1 DEF Moved, s
    <3>6. Len(to \o s) \in 1 .. MaxDepth
      BY <3>1, <3>3, <3>4, <3>5
    <3> QED
      BY <3>4, <3>5, <3>6, IsPath
  <2>2. CASE ~IsPrefix(from, p)
    BY <2>0, <2>2 DEF Moved
  <2> QED
    BY <2>1, <2>2
<1> DEFINE D == {Moved(from, to, p) : p \in DOMAIN live}
           r == MovedTree(from, to)
<1>2. r = [q \in D |-> live[CHOOSE p \in DOMAIN live : Moved(from, to, p) = q]]
  BY DEF MovedTree
<1>3. ASSUME NEW q \in D
      PROVE  live[CHOOSE p \in DOMAIN live : Moved(from, to, p) = q] \in Node
  <2>1. \E p \in DOMAIN live : Moved(from, to, p) = q
    OBVIOUS
  <2>2. (CHOOSE p \in DOMAIN live : Moved(from, to, p) = q) \in DOMAIN live
    BY <2>1
  <2> QED
    BY <2>2 DEF Tree
<1>4. D \subseteq Path
  BY <1>1
<1> HIDE DEF D, r
<1>5. r \in [D -> Node]
  BY <1>2, <1>3
<1>6. Tree(r)
  BY <1>4, <1>5 DEF Tree
<1> QED
  BY <1>6 DEF r

\* Max of the community modules, on two numbers.
LEMMA MaxOfTwo ==
    ASSUME NEW a \in Nat, NEW b \in Nat
    PROVE  Max({a, b}) \in Nat
<1>1. \E x \in {a, b} : \A y \in {a, b} : x >= y
  <2>1. CASE a >= b
    BY <2>1
  <2>2. CASE ~(a >= b)
    BY <2>2
  <2> QED
    BY <2>1, <2>2
<1>2. Max({a, b}) \in {a, b}
  BY <1>1 DEF Max
<1> QED
  BY <1>2
-------------------------------------------------------------------------------
\* A memory the handlers work on: in order, and with the root's inode.
Ready(m) == Heap(m) /\ m.dentry[Root].inode # NULL

\* Directory j, and it alone, lists d; the parent pointer of d leads there.
ListedIn(m, d, j) ==
    /\ d \in Linked(m) \ {Root} /\ j \in DOMAIN m.inode /\ d \in List(m, j) /\ Is(m, j, "SFS_DIR")
    /\ m.dentry[m.dentry[d].parent].inode = j
    /\ \A l \in DOMAIN m.inode : d \in List(m, l) => l = j

LEMMA FoundIn ==
    ASSUME NEW m, Heap(m), NEW path \in Path, sfs_lookup(m, path).find = {TRUE}
    PROVE  \E j : ListedIn(m, sfs_lookup(m, path).ret, j)
<1> PICK N : N = Len(path)
  OBVIOUS
<1> PICK d : d = sfs_lookup(m, path).ret
  OBVIOUS
<1>0. N \in Nat \ {0} /\ path \in Seq(Name) /\ N = Len(path) /\ d = sfs_lookup(m, path).ret
  BY PathType
<1>1. PICK c : Way(m, path, N, c) /\ d = c[N]
  BY <1>0, FoundAt
<1> PICK b : b = c[N - 1]
  OBVIOUS
<1>2. Enters(m, b, path[N], d) /\ b \in Linked(m)
  <2>1. N \in 1 .. N /\ N - 1 \in 0 .. N
    BY <1>0
  <2>2. c \in [0 .. N -> Linked(m)] /\ \A l \in 1 .. N : Enters(m, c[l - 1], path[l], c[l])
    BY <1>1 DEF Way
  <2> QED
    BY <1>1, <2>1, <2>2
<1> PICK j : j = m.dentry[b].inode
  OBVIOUS
<1>3. /\ j \in DOMAIN m.inode /\ d \in List(m, j) /\ d \in Linked(m) \ {Root}
      /\ m.dentry[m.dentry[d].parent].inode = j
  BY <1>2, EntersListed
<1>4. Is(m, j, "SFS_DIR")
  BY <1>2, EntersDir DEF IsDir
<1>5. \A l \in DOMAIN m.inode : d \in List(m, l) => l = j
  BY <1>3 DEF Heap, HeapBut, ListedOnce
<1>6. ListedIn(m, d, j)
  BY <1>3, <1>4, <1>5 DEF ListedIn
<1> QED
  BY <1>0, <1>6

\* sfs_getattr leaves the memory ready.
LEMMA FetchReady ==
    ASSUME DiskType, NEW m, Ready(m), NEW d \in Linked(m), m.dentry[d].inode = NULL
    PROVE  Ready(sfs_read_inode(m, d))
<1> PICK n : n = sfs_read_inode(m, d)
  OBVIOUS
<1>1. CASE Readable(m.dentry[d])
  <2>1. Heap(n) /\ Loaded(m, n, d)
    BY <1>1, ReadHeap DEF Ready
  <2>2. Root # d /\ Root \in DOMAIN m.dentry
    BY DEF Ready, Heap, HeapBut, Rooted
  <2>3. n.dentry[Root] = m.dentry[Root]
    BY <2>1, <2>2 DEF Loaded
  <2> QED
    BY <2>1, <2>3 DEF Ready
<1>2. CASE ~Readable(m.dentry[d])
  <2>1. n = m
    BY <1>2 DEF sfs_read_inode
  <2> QED
    BY <2>1
<1> QED
  BY <1>1, <1>2

\* sfs_mkdir and sfs_mknod leave it ready, with what they have made.
LEMMA MadeReady ==
    ASSUME NEW m, Ready(m), NEW path, NEW ft, NEW n, Made(m, n, path, ft)
    PROVE  Ready(n)
<1>1. Heap(n) /\ n.dentry[Root] = m.dentry[Root]
  BY DEF Made, MadeIn, Ready, Heap, HeapBut, Rooted
<1> QED
  BY <1>1 DEF Ready

\* The dentry sfs_symlink makes a link, and its inode with what it points to.
Linkified(m, d, i, target) ==
    [m EXCEPT !.dentry[d].ftype = "SFS_SYM_LINK", !.inode[i].target_path = target]

LEMMA LinkifiedReady ==
    ASSUME NEW m, Ready(m), NEW d \in Linked(m) \ {Root}, NEW i, i = m.dentry[d].inode, i # NULL,
           NEW target \in Target
    PROVE  LET n == Linkified(m, d, i, target)
           IN  Ready(n) /\ Linked(n) = Linked(m) /\ Altered(m, n)
<1>1. i \in DOMAIN m.inode /\ d \in DOMAIN m.dentry /\ Memory(m) /\ i = m.dentry[d].inode
  <2>1. d # NULL /\ d \in DOMAIN m.dentry
    BY LinkedFields DEF Ready, Heap
  <2> QED
    BY <2>1, LinkedFields DEF Ready, Heap, HeapBut
<1> DEFINE rd == [m.dentry[d] EXCEPT !.ftype = "SFS_SYM_LINK"]
           ri == [m.inode[i] EXCEPT !.target_path = target]
           f  == [m.dentry EXCEPT ![d] = rd]
           g  == [m.inode EXCEPT ![i] = ri]
           n  == [dentry |-> f, inode |-> g, map_inode |-> m.map_inode, max_ino |-> m.max_ino]
<1>2. /\ m.dentry \in [DOMAIN m.dentry -> Dentry] /\ m.inode \in [DOMAIN m.inode -> Inode]
      /\ m.map_inode \in SUBSET Bit /\ m.max_ino \in {0, MaxIno}
      /\ Top(m.dentry) \in Nat /\ DOMAIN m.dentry \subseteq 1 .. Top(m.dentry)
      /\ Top(m.inode) \in Nat /\ DOMAIN m.inode \subseteq 1 .. Top(m.inode)
      /\ m = [dentry |-> m.dentry, inode |-> m.inode, map_inode |-> m.map_inode, max_ino |-> m.max_ino]
  BY <1>1, MemoryFields
<1>3. Linkified(m, d, i, target) = n
  <2> PICK F, G, M, X : F = m.dentry /\ G = m.inode /\ M = m.map_inode /\ X = m.max_ino
    OBVIOUS
  <2>1. m = [dentry |-> F, inode |-> G, map_inode |-> M, max_ino |-> X]
    BY <1>2
  <2>2. m.dentry = F /\ m.inode = G /\ m.map_inode = M /\ m.max_ino = X
    OBVIOUS
  <2>3. Linkified(m, d, i, target) =
           [m EXCEPT !.dentry = [F EXCEPT ![d] = [F[d] EXCEPT !.ftype = "SFS_SYM_LINK"]],
                     !.inode = [G EXCEPT ![i] = [G[i] EXCEPT !.target_path = target]]]
    BY ONLY <2>1 DEF Linkified
  <2>4. f = [F EXCEPT ![d] = [F[d] EXCEPT !.ftype = "SFS_SYM_LINK"]]
    BY ONLY <2>2
  <2>5. g = [G EXCEPT ![i] = [G[i] EXCEPT !.target_path = target]]
    BY ONLY <2>2
  <2> HIDE DEF f, g
  <2>6. Linkified(m, d, i, target) = [m EXCEPT !.dentry = f, !.inode = g]
    BY ONLY <2>3, <2>4, <2>5
  <2> QED
    BY ONLY <2>1, <2>2, <2>6
<1>4. /\ rd \in Dentry /\ rd.parent = m.dentry[d].parent /\ rd.inode = m.dentry[d].inode
      /\ rd.ftype = "SFS_SYM_LINK"
  BY <1>1, <1>2 DEF Dentry, FileType
<1>5. /\ ri \in Inode /\ ri.dentry = m.inode[i].dentry /\ ri.dentrys = m.inode[i].dentrys
      /\ ri.data = m.inode[i].data
  BY <1>1, <1>2 DEF Inode
<1> HIDE DEF rd, ri
<1>6. /\ DOMAIN f = DOMAIN m.dentry /\ f \in [DOMAIN f -> Dentry]
      /\ \A e \in DOMAIN m.dentry : f[e] = IF e = d THEN rd ELSE m.dentry[e]
  BY <1>2, <1>4
<1>7. /\ DOMAIN g = DOMAIN m.inode /\ g \in [DOMAIN g -> Inode]
      /\ \A j \in DOMAIN m.inode : g[j] = IF j = i THEN ri ELSE m.inode[j]
  BY <1>2, <1>5
<1> HIDE DEF f, g
<1>8. Memory(n)
  BY <1>2, <1>6, <1>7, MemoryOf
<1>9. n.dentry = f /\ n.inode = g
  OBVIOUS
<1> HIDE DEF n
<1>10. Root # d /\ Root \in DOMAIN m.dentry
  BY DEF Ready, Heap, HeapBut, Rooted
<1>11. n.dentry[Root] = m.dentry[Root]
  BY <1>6, <1>9, <1>10
<1>12. Altered(m, n)
  BY ONLY <1>4, <1>5, <1>6, <1>7, <1>8, <1>9, <1>11 DEF Altered
<1>13. Heap(n) /\ Linked(n) = Linked(m)
  BY <1>12, AlteredHeap DEF Ready
<1> QED
  BY <1>3, <1>11, <1>12, <1>13 DEF Ready
-------------------------------------------------------------------------------
\* n is m without the dentry d and what is below its inode i.
Unlinked(m, n, d, i) ==
    /\ Heap(n) /\ Pruned(m, n) /\ n.dentry[Root] = m.dentry[Root]
    /\ i \in DOMAIN m.inode /\ Dropped(m, i) \subseteq DOMAIN m.inode
    /\ n.map_inode = m.map_inode \ {m.inode[j].ino : j \in Dropped(m, i)}
    /\ Linked(n) \subseteq Linked(m) \ ({d} \cup BelowInode(m, i))
    /\ \A e \in Linked(n) : m.dentry[e].inode \notin Dropped(m, i)

\* What sfs_unlink and sfs_rmdir leave when the subtree is loaded.
LEMMA UnlinkReady ==
    ASSUME NEW m, Ready(m), NEW d, NEW j, ListedIn(m, d, j), NEW i, i = m.dentry[d].inode,
           NULL \notin Dropped(m, i)
    PROVE  LET n == sfs_drop_dentry(sfs_drop_inode(m, i), j, d)
           IN  Ready(n) /\ Unlinked(m, n, d, i)
<1>p. PICK k : k = sfs_drop_inode(m, i)
  OBVIOUS
<1>q. PICK n : n = sfs_drop_dentry(k, j, d)
  OBVIOUS
<1>0. k = sfs_drop_inode(m, i) /\ n = sfs_drop_dentry(k, j, d)
  BY <1>p, <1>q
<1>1. d \in Linked(m) \ {Root} /\ d \notin {Root} /\ Heap(m) /\ m.dentry[Root].inode # NULL
  BY DEF ListedIn, Ready
<1>2. /\ Pruned(m, k) /\ HeapBut(k, d)
      /\ i \in DOMAIN m.inode /\ Dropped(m, i) \subseteq DOMAIN m.inode
      /\ k.map_inode = m.map_inode \ {m.inode[l].ino : l \in Dropped(m, i)}
      /\ DOMAIN k.dentry = DOMAIN m.dentry \ BelowInode(m, i)
      /\ DOMAIN k.inode = {l \in DOMAIN m.inode : l \in Dropped(m, i) => Is(m, l, "SFS_DIR")}
      /\ Linked(k) \subseteq Linked(m) \ BelowInode(m, i)
      /\ \A e \in Linked(k) \ {d} : m.dentry[e].inode \notin Dropped(m, i)
  <2>1. Shed(m, k, d, i)
    BY <1>0, <1>1, DropInode
  <2> QED
    BY <2>1 DEF Shed
<1>3. j \in DOMAIN k.inode
  BY <1>2 DEF ListedIn
<1>4. \A l \in DOMAIN k.inode : d \in List(k, l) => l = j
  BY <1>2 DEF Pruned, ListedIn
<1>5. /\ Heap(n) /\ Pruned(k, n) /\ Linked(n) = Linked(k) \ {d} /\ n.map_inode = k.map_inode
      /\ n.dentry = k.dentry /\ DOMAIN n.inode = DOMAIN k.inode
  BY <1>0, <1>1, <1>2, <1>3, <1>4, DropListed
<1>6. Memory(m) /\ Memory(k) /\ Memory(n)
  BY <1>1, <1>2, <1>5 DEF Heap, HeapBut
<1>7. Pruned(m, n)
  <2>1. n = [dentry |-> n.dentry, inode |-> n.inode, map_inode |-> n.map_inode, max_ino |-> m.max_ino]
    <3>1. n.max_ino = m.max_ino
      BY <1>2, <1>5, PrunedMax
    <3> QED
      BY <1>6, <3>1, MemoryFields
  <2>2. n.dentry = [e \in DOMAIN n.dentry |-> m.dentry[e]] /\ DOMAIN n.dentry \subseteq DOMAIN m.dentry
    BY <1>2, <1>5 DEF Pruned
  <2>3. n.inode = [l \in DOMAIN n.inode |-> n.inode[l]] /\ DOMAIN n.inode \subseteq DOMAIN m.inode
    BY <1>2, <1>5 DEF Pruned
  <2>4. ASSUME NEW l \in DOMAIN n.inode
        PROVE  /\ n.inode[l] = [m.inode[l] EXCEPT !.dentrys = n.inode[l].dentrys]
               /\ n.inode[l].dentrys \in Seq(Nat) /\ Once(n.inode[l].dentrys)
               /\ Len(n.inode[l].dentrys) <= Len(m.inode[l].dentrys)
               /\ List(n, l) \subseteq List(m, l)
    <3>p. PICK a, b, c : a = m.inode[l] /\ b = k.inode[l] /\ c = n.inode[l]
      OBVIOUS
    <3>0. a = m.inode[l] /\ b = k.inode[l] /\ c = n.inode[l]
      BY <3>p
    <3>1. l \in DOMAIN k.inode /\ l \in DOMAIN m.inode
      BY <1>2, <1>5
    <3>2. /\ b = [a EXCEPT !.dentrys = b.dentrys] /\ c = [b EXCEPT !.dentrys = c.dentrys]
          /\ c.dentrys \in Seq(Nat) /\ Once(c.dentrys)
          /\ Len(c.dentrys) <= Len(b.dentrys) /\ Len(b.dentrys) <= Len(a.dentrys)
          /\ List(n, l) \subseteq List(m, l)
      <4>1. /\ b = [a EXCEPT !.dentrys = b.dentrys]
            /\ Len(b.dentrys) <= Len(a.dentrys) /\ List(k, l) \subseteq List(m, l)
        BY <1>2, <3>0, <3>1 DEF Pruned
      <4>2. /\ c = [b EXCEPT !.dentrys = c.dentrys]
            /\ c.dentrys \in Seq(Nat) /\ Once(c.dentrys)
            /\ Len(c.dentrys) <= Len(b.dentrys) /\ List(n, l) \subseteq List(k, l)
        <5>1. \A x \in DOMAIN n.inode :
                /\ n.inode[x] = [k.inode[x] EXCEPT !.dentrys = n.inode[x].dentrys]
                /\ n.inode[x].dentrys \in Seq(Nat) /\ Once(n.inode[x].dentrys)
                /\ Len(n.inode[x].dentrys) <= Len(k.inode[x].dentrys)
                /\ List(n, x) \subseteq List(k, x)
          BY <1>5 DEF Pruned
        <5> QED
          BY ONLY <3>0, <5>1, l \in DOMAIN n.inode
      <4> QED
        BY ONLY <4>1, <4>2
    <3>3. c = [a EXCEPT !.dentrys = c.dentrys]
      BY ONLY <3>2
    <3>4. Len(c.dentrys) \in Nat /\ Len(b.dentrys) \in Nat /\ Len(a.dentrys) \in Nat
      BY <1>6, <3>0, <3>1, InodeFields
    <3>5. Len(c.dentrys) <= Len(a.dentrys)
      BY ONLY <3>2, <3>4
    <3> QED
      BY <3>0, <3>2, <3>3, <3>5
  <2>5. n.map_inode \subseteq m.map_inode
    BY <1>2, <1>5
  <2> QED
    BY ONLY <2>1, <2>2, <2>3, <2>4, <2>5 DEF Pruned
<1>8. n.dentry[Root] = m.dentry[Root]
  <2>1. Root \in DOMAIN n.dentry
    BY <1>5 DEF Heap, HeapBut, Rooted
  <2> QED
    BY <1>7, <2>1 DEF Pruned
<1>9. Unlinked(m, n, d, i)
  BY <1>2, <1>5, <1>7, <1>8 DEF Unlinked
<1> QED
  BY <1>0, <1>1, <1>5, <1>8, <1>9 DEF Ready
-------------------------------------------------------------------------------
\* n is m with the new dentry t in the list of inode ip in the place of f; t has the inode i of f.
Renamed(m, n, ip, f, t, i, fname, ft) ==
    /\ Heap(n) /\ n.map_inode = m.map_inode /\ n.max_ino = m.max_ino
    /\ Linked(n) = (Linked(m) \cup {t}) \ {f} /\ t \notin DOMAIN m.dentry
    /\ DOMAIN n.dentry = DOMAIN m.dentry \cup {t}
    /\ \A e \in DOMAIN m.dentry : n.dentry[e] = m.dentry[e]
    /\ n.dentry[t].inode = i /\ n.dentry[t].ino = m.inode[i].ino
    /\ n.dentry[t].fname = fname /\ n.dentry[t].ftype = ft
    /\ DOMAIN m.inode \subseteq DOMAIN n.inode
    /\ \A l \in DOMAIN m.inode :
          /\ n.inode[l] = [m.inode[l] EXCEPT !.dentrys = n.inode[l].dentrys]
          /\ List(n, l) = (List(m, l) \cup (IF l = ip THEN {t} ELSE {})) \ {f}
          /\ Len(n.inode[l].dentrys) <= Len(m.inode[l].dentrys) + (IF l = ip THEN 1 ELSE 0)

\* The inode a new dentry came with is dropped, and nothing with it.
LEMMA DropNew ==
    ASSUME NEW m, Ready(m), NEW k, NEW p, NEW ip, NEW t, NEW fname, NEW ft \in FileType,
           MadeIn(m, k, p, ip, t, fname, ft), NewNumber(m, k, t, ft), NEW it, it = k.dentry[t].inode
    PROVE  LET n == sfs_drop_inode(k, it)
           IN  /\ HeapBut(n, t) /\ Linked(n) = Linked(k) /\ n.map_inode = m.map_inode
               /\ n.max_ino = m.max_ino
               /\ DOMAIN n.dentry = DOMAIN k.dentry
               /\ \A e \in DOMAIN k.dentry : n.dentry[e] = k.dentry[e]
               /\ it \notin DOMAIN m.inode /\ DOMAIN m.inode \subseteq DOMAIN n.inode
               /\ DOMAIN n.inode \subseteq DOMAIN m.inode \cup {it}
               /\ \A l \in DOMAIN m.inode : n.inode[l] = k.inode[l]
               /\ it \in DOMAIN n.inode => List(n, it) = {}
               /\ \A e \in Linked(n) \ {t} : n.dentry[e].inode # it
<1> PICK n : n = sfs_drop_inode(k, it)
  OBVIOUS
<1>1. /\ Heap(k) /\ t \in Linked(k) \ {Root} /\ k.max_ino = m.max_ino
      /\ \A e \in DOMAIN m.dentry : k.dentry[e] = m.dentry[e]
  BY DEF MadeIn
<1>2. PICK no \in Bit \ m.map_inode :
         /\ k.map_inode = m.map_inode \cup {no}
         /\ k.dentry[t].inode = it /\ it \notin DOMAIN m.inode /\ it # NULL
         /\ DOMAIN k.inode = DOMAIN m.inode \cup {it} /\ k.inode[it] = NewInode(no, t, ft)
  BY DEF NewNumber
<1>3. Memory(k) /\ t \in Nat
  BY <1>1, LinkedFields, MemoryFields DEF Heap, HeapBut
<1>4. List(k, it) = {} /\ k.inode[it].ino = no
  <2>1. k.inode[it].dentrys = <<>> /\ k.inode[it].ino = no
    BY <1>2, <1>3, NewInodeType
  <2> QED
    BY <2>1 DEF List, ToSet
<1>5. BelowInode(k, it) = {}
  BY <1>3, <1>4, MemoryFields, NothingBelow
<1>6. Dropped(k, it) = {it}
  BY <1>5 DEF Dropped
<1>7. k.dentry[Root].inode # NULL
  BY <1>1 DEF Ready, Heap, HeapBut, Rooted
<1>8. Shed(k, n, t, it)
  <2>1. NULL \notin Dropped(k, it) /\ it = k.dentry[t].inode
    BY <1>2, <1>6
  <2> QED
    BY <1>1, <1>7, <2>1, DropInode
<1>9. Pruned(k, n) /\ HeapBut(n, t)
  BY <1>8 DEF Shed
<1>10. n.map_inode = m.map_inode
  <2>1. n.map_inode = k.map_inode \ {k.inode[j].ino : j \in Dropped(k, it)}
    BY <1>8 DEF Shed
  <2>2. {k.inode[j].ino : j \in Dropped(k, it)} = {no}
    BY <1>4, <1>6
  <2> QED
    BY <1>2, <2>1, <2>2
<1>11. DOMAIN n.dentry = DOMAIN k.dentry
  BY <1>5, <1>8 DEF Shed
<1>12. \A e \in DOMAIN k.dentry : n.dentry[e] = k.dentry[e]
  BY <1>9, <1>11 DEF Pruned
<1>13. /\ DOMAIN m.inode \subseteq DOMAIN n.inode /\ DOMAIN n.inode \subseteq DOMAIN m.inode \cup {it}
       /\ \A l \in DOMAIN m.inode : n.inode[l] = k.inode[l]
       /\ it \in DOMAIN n.inode => List(n, it) = {}
  <2>1. DOMAIN n.inode = {j \in DOMAIN k.inode : j \in {it} => Is(k, j, "SFS_DIR")}
    BY <1>6, <1>8 DEF Shed
  <2>2. \A j \in DOMAIN n.inode : /\ j \notin {it} => n.inode[j] = k.inode[j]
                                  /\ j \in {it} => List(n, j) = {}
    BY <1>6, <1>8 DEF Shed
  <2> QED
    BY <1>2, <2>1, <2>2
<1>14. Linked(n) = Linked(k)
  <2>1. Linked(n) \subseteq Linked(k)
    BY <1>8 DEF Shed
  <2>2. ASSUME NEW e \in Linked(k) PROVE e \in Linked(n)
    <3>1. CASE e = Root
      BY <3>1 DEF Linked
    <3>2. CASE \E l \in DOMAIN k.inode : e \in List(k, l)
      <4>1. PICK l \in DOMAIN k.inode : e \in List(k, l)
        BY <3>2
      <4>2. l \in DOMAIN m.inode
        BY <1>2, <1>4, <4>1
      <4>3. l \in DOMAIN n.inode /\ List(n, l) = List(k, l)
        BY <1>13, <4>2 DEF List
      <4> QED
        BY <4>1, <4>3, ListedIsLinked
    <3> QED
      BY <3>1, <3>2, LinkedIsListed
  <2> QED
    BY <2>1, <2>2
<1>15. \A e \in Linked(n) \ {t} : n.dentry[e].inode # it
  <2>1. \A e \in Linked(n) \ {t} : k.dentry[e].inode # it
    BY <1>6, <1>8 DEF Shed
  <2>2. Linked(n) \subseteq DOMAIN k.dentry
    BY <1>1, <1>14 DEF Heap, HeapBut, Allocated
  <2> QED
    BY <1>12, <2>1, <2>2
<1>16. n.max_ino = m.max_ino
  BY <1>1, <1>9, PrunedMax
<1> QED
  BY <1>2, <1>9, <1>10, <1>11, <1>12, <1>13, <1>14, <1>15, <1>16

\* sfs_rename when there was a number for the new dentry.
LEMMA RenameReady ==
    ASSUME NEW m, Ready(m), NEW f, NEW j, ListedIn(m, f, j), NEW i, i = m.dentry[f].inode, i # NULL,
           NEW k, NEW p, NEW ip, NEW t, NEW fname, NEW ft \in FileType,
           MadeIn(m, k, p, ip, t, fname, ft), NewNumber(m, k, t, ft)
    PROVE  LET n == sfs_drop_dentry(Relink(sfs_drop_inode(k, k.dentry[t].inode), t, i), j, f)
           IN  Ready(n) /\ Renamed(m, n, ip, f, t, i, fname, ft)
<1>p. PICK it : it = k.dentry[t].inode
  OBVIOUS
<1>q. PICK a : a = sfs_drop_inode(k, it)
  OBVIOUS
<1>r. PICK b : b = Relink(a, t, i)
  OBVIOUS
<1>s. PICK n : n = sfs_drop_dentry(b, j, f)
  OBVIOUS
<1>0. it = k.dentry[t].inode /\ a = sfs_drop_inode(k, it) /\ b = Relink(a, t, i) /\ n = sfs_drop_dentry(b, j, f)
  BY <1>p, <1>q, <1>r, <1>s
<1>1. /\ Heap(k) /\ Linked(k) = Linked(m) \cup {t}
      /\ t \notin DOMAIN m.dentry /\ t # Root /\ t # NULL /\ DOMAIN k.dentry = DOMAIN m.dentry \cup {t}
      /\ \A e \in DOMAIN m.dentry : k.dentry[e] = m.dentry[e]
      /\ k.dentry[t].fname = fname /\ k.dentry[t].ftype = ft
      /\ ip \in DOMAIN m.inode
      /\ \A l \in DOMAIN m.inode : l # ip => k.inode[l] = m.inode[l]
      /\ k.inode[ip] = Headed(m.inode[ip], t)
  BY DEF MadeIn
<1>2. /\ HeapBut(a, t) /\ Linked(a) = Linked(k) /\ a.map_inode = m.map_inode
      /\ a.max_ino = m.max_ino
      /\ DOMAIN a.dentry = DOMAIN k.dentry
      /\ \A e \in DOMAIN k.dentry : a.dentry[e] = k.dentry[e]
      /\ it \notin DOMAIN m.inode /\ DOMAIN m.inode \subseteq DOMAIN a.inode
      /\ DOMAIN a.inode \subseteq DOMAIN m.inode \cup {it}
      /\ \A l \in DOMAIN m.inode : a.inode[l] = k.inode[l]
      /\ it \in DOMAIN a.inode => List(a, it) = {}
      /\ \A e \in Linked(a) \ {t} : a.dentry[e].inode # it
  BY <1>0, DropNew
<1>3. /\ f \in Linked(m) /\ f # Root /\ f \in DOMAIN m.dentry /\ f # t /\ f # NULL
      /\ j \in DOMAIN m.inode /\ i \in DOMAIN m.inode
      /\ \A l \in DOMAIN m.inode : f \in List(m, l) => l = j
  <2>1. f \in Linked(m) /\ f # Root /\ j \in DOMAIN m.inode /\ \A l \in DOMAIN m.inode : f \in List(m, l) => l = j
    BY DEF ListedIn
  <2>2. f \in DOMAIN m.dentry /\ f # NULL
    BY <2>1, LinkedFields DEF Ready, Heap
  <2>3. i \in DOMAIN m.inode
    BY <2>1, <2>2, LinkedFields DEF Ready, Heap
  <2> QED
    BY <1>1, <2>1, <2>2, <2>3
<1>4. /\ t \in DOMAIN a.dentry /\ f \in Linked(a) /\ i = a.dentry[f].inode /\ a.dentry[t].inode = it
      /\ \A e \in Linked(a) \ {t} : a.dentry[e].inode # a.dentry[t].inode
  BY <1>0, <1>1, <1>2, <1>3
<1>5. /\ HeapBut(b, f) /\ Linked(b) = Linked(a) /\ b.inode = a.inode
      /\ b.map_inode = a.map_inode /\ b.max_ino = a.max_ino
      /\ DOMAIN b.dentry = DOMAIN a.dentry
      /\ \A e \in DOMAIN a.dentry : e # t => b.dentry[e] = a.dentry[e]
      /\ b.dentry[t] = [a.dentry[t] EXCEPT !.inode = i, !.ino = a.inode[i].ino]
  <2>1. i # NULL
    OBVIOUS
  <2>2. Relinked(a, b, t, f, i)
    BY ONLY <1>0, <1>1, <1>2, <1>3, <1>4, <2>1, RelinkHeap
  <2> QED
    BY ONLY <2>2 DEF Relinked
<1>6. \A l : List(b, l) = List(a, l)
  BY <1>5 DEF List
<1>7. \A l \in DOMAIN m.inode : /\ m.inode[l].dentrys \in Seq(Nat) /\ Once(m.inode[l].dentrys)
                                /\ m.inode[l] \in Inode
  BY InodeFields DEF Ready, Heap, HeapBut, ListedOnce
<1>7a. m.inode[ip].dentrys \in Seq(Nat) /\ Once(m.inode[ip].dentrys) /\ m.inode[ip] \in Inode
  BY <1>1, <1>7
<1>8. /\ List(k, ip) = List(m, ip) \cup {t} /\ k.inode[ip] = [m.inode[ip] EXCEPT !.dentrys = k.inode[ip].dentrys]
      /\ Len(k.inode[ip].dentrys) = Len(m.inode[ip].dentrys) + 1
  <2>p. PICK old : old = m.inode[ip].dentrys
    OBVIOUS
  <2>0. old = m.inode[ip].dentrys
    BY <2>p
  <2>1. old \in Seq(Nat) /\ Once(old) /\ t \in Nat /\ ToSet(old) \subseteq DOMAIN m.dentry
    <3>1. t \in Nat
      BY <1>1, MemoryFields DEF Heap, HeapBut
    <3>2. ToSet(old) \subseteq DOMAIN m.dentry
      <4>1. List(m, ip) \subseteq Linked(m)
        BY <1>1, ListedIsLinked
      <4> QED
        BY <2>0, <4>1 DEF Ready, Heap, HeapBut, Allocated, List
    <3> QED
      BY <1>7a, <2>0, <3>1, <3>2
  <2>2. k.inode[ip].dentrys = <<t>> \o old /\ k.inode[ip] = [m.inode[ip] EXCEPT !.dentrys = k.inode[ip].dentrys]
    BY <1>1, <1>7a, <2>0 DEF Headed, Inode
  <2>3. t \notin ToSet(old)
    BY <1>1, <2>1
  <2>q. PICK r : r = <<t>> \o old
    OBVIOUS
  <2>4. Len(r) = Len(old) + 1 /\ ToSet(r) = ToSet(old) \cup {t}
    BY <2>1, <2>3, <2>q, AtHead
  <2>5. k.inode[ip].dentrys = r
    BY <2>2, <2>q
  <2> QED
    BY ONLY <2>0, <2>2, <2>4, <2>5 DEF List
<1>9. \A l \in DOMAIN b.inode : f \in List(b, l) => l = j
  <2> SUFFICES ASSUME NEW l \in DOMAIN b.inode, f \in List(b, l) PROVE l = j
    OBVIOUS
  <2>1. f \in List(a, l) /\ l \in DOMAIN a.inode
    BY <1>5, <1>6
  <2>2. l \in DOMAIN m.inode /\ List(a, l) = List(k, l)
    BY <1>2, <2>1 DEF List
  <2>3. f \in List(m, l)
    <3>1. CASE l = ip
      BY <1>3, <1>8, <2>1, <2>2, <3>1
    <3>2. CASE l # ip
      BY <1>1, <2>1, <2>2, <3>2 DEF List
    <3> QED
      BY <3>1, <3>2
  <2> QED
    BY <1>3, <2>2, <2>3
<1>10. /\ Heap(n) /\ Pruned(b, n) /\ Linked(n) = Linked(b) \ {f} /\ n.map_inode = b.map_inode
       /\ n.dentry = b.dentry /\ DOMAIN n.inode = DOMAIN b.inode
       /\ \A l \in DOMAIN b.inode : List(n, l) = List(b, l) \ {f}
  <2>1. j \in DOMAIN b.inode /\ f # Root /\ HeapBut(b, f)
    BY <1>2, <1>3, <1>5
  <2> QED
    BY ONLY <1>0, <1>9, <2>1, DropListed
<1>10a. /\ Heap(n) /\ Linked(n) = (Linked(m) \cup {t}) \ {f} /\ n.map_inode = m.map_inode
        /\ n.dentry = b.dentry /\ DOMAIN n.inode = DOMAIN a.inode /\ b.inode = a.inode
        /\ b.max_ino = m.max_ino
  <2>1. Linked(n) = Linked(b) \ {f} /\ Linked(b) = Linked(a) /\ Linked(a) = Linked(k)
    BY ONLY <1>2, <1>5, <1>10
  <2>2. n.map_inode = b.map_inode /\ b.map_inode = a.map_inode /\ a.map_inode = m.map_inode
    BY ONLY <1>2, <1>5, <1>10
  <2>3. Linked(k) = Linked(m) \cup {t}
    BY ONLY <1>1
  <2>4. Heap(n) /\ n.dentry = b.dentry /\ DOMAIN n.inode = DOMAIN b.inode /\ b.inode = a.inode
    BY ONLY <1>5, <1>10
  <2>5. b.max_ino = m.max_ino
    BY ONLY <1>2, <1>5
  <2> QED
    BY ONLY <2>1, <2>2, <2>3, <2>4, <2>5
<1>11. n.max_ino = m.max_ino /\ n.map_inode = m.map_inode /\ Linked(n) = (Linked(m) \cup {t}) \ {f}
  <2>1. n.max_ino = b.max_ino
    BY <1>10, PrunedMax
  <2> QED
    BY ONLY <1>10a, <2>1
<1>12. /\ DOMAIN n.dentry = DOMAIN m.dentry \cup {t}
       /\ \A e \in DOMAIN m.dentry : n.dentry[e] = m.dentry[e]
  <2>1. \A e \in DOMAIN m.dentry : e # t
    BY <1>1
  <2>2. DOMAIN n.dentry = DOMAIN a.dentry /\ \A e \in DOMAIN a.dentry : e # t => n.dentry[e] = a.dentry[e]
    BY ONLY <1>5, <1>10a
  <2> QED
    BY <1>1, <1>2, <2>1, <2>2
<1>13. a.inode[i].ino = m.inode[i].ino
  <2>1. a.inode[i] = k.inode[i]
    BY <1>2, <1>3
  <2>2. k.inode[i].ino = m.inode[i].ino
    <3>1. CASE i = ip
      BY <1>7a, <1>8, <3>1 DEF Inode
    <3>2. CASE i # ip
      BY <1>1, <1>3, <3>2
    <3> QED
      BY <3>1, <3>2
  <2> QED
    BY <2>1, <2>2
<1>14. n.dentry[t].inode = i /\ n.dentry[t].ino = m.inode[i].ino
       /\ n.dentry[t].fname = fname /\ n.dentry[t].ftype = ft
  <2>r. PICK old : old = a.dentry[t]
    OBVIOUS
  <2>1. old \in Dentry /\ old.fname = fname /\ old.ftype = ft
    BY <1>1, <1>2, <1>4, <2>r, DentryFields DEF HeapBut
  <2>2. n.dentry[t] = [old EXCEPT !.inode = i, !.ino = m.inode[i].ino]
    BY <1>4, <1>5, <1>10, <1>13, <2>r
  <2> QED
    BY ONLY <2>1, <2>2 DEF Dentry
<1>15. DOMAIN m.inode \subseteq DOMAIN n.inode
  BY <1>2, <1>5, <1>10
<1>16. ASSUME NEW l \in DOMAIN m.inode
       PROVE  /\ n.inode[l] = [m.inode[l] EXCEPT !.dentrys = n.inode[l].dentrys]
              /\ List(n, l) = (List(m, l) \cup (IF l = ip THEN {t} ELSE {})) \ {f}
              /\ Len(n.inode[l].dentrys) <= Len(m.inode[l].dentrys) + (IF l = ip THEN 1 ELSE 0)
  <2>s. PICK x, y, z : x = m.inode[l] /\ y = k.inode[l] /\ z = n.inode[l]
    OBVIOUS
  <2>0. x = m.inode[l] /\ y = k.inode[l] /\ z = n.inode[l]
    BY <2>s
  <2>1. b.inode[l] = y /\ l \in DOMAIN b.inode /\ l \in DOMAIN n.inode
    <3>1. a.inode[l] = k.inode[l] /\ l \in DOMAIN a.inode
      BY ONLY <1>2, l \in DOMAIN m.inode
    <3> QED
      BY ONLY <1>10a, <2>0, <3>1
  <2>2. z = [y EXCEPT !.dentrys = z.dentrys] /\ Len(z.dentrys) <= Len(y.dentrys)
    <3>1. \A u \in DOMAIN n.inode : n.inode[u] = [b.inode[u] EXCEPT !.dentrys = n.inode[u].dentrys]
                                    /\ Len(n.inode[u].dentrys) <= Len(b.inode[u].dentrys)
      BY <1>10 DEF Pruned
    <3> QED
      BY ONLY <2>0, <2>1, <3>1
  <2>3. List(n, l) = List(k, l) \ {f}
    BY <1>6, <1>10, <2>0, <2>1 DEF List
  <2>4. Len(x.dentrys) \in Nat /\ Len(z.dentrys) \in Nat
    <3>1. Memory(n) /\ Memory(m)
      BY <1>10 DEF Ready, Heap, HeapBut
    <3> QED
      BY <2>0, <2>1, <3>1, InodeFields
  <2>5. CASE l = ip
    <3>1. y = [x EXCEPT !.dentrys = y.dentrys] /\ Len(y.dentrys) = Len(x.dentrys) + 1
          /\ List(k, l) = List(m, l) \cup {t}
      BY ONLY <1>8, <2>0, <2>5
    <3>2. z = [x EXCEPT !.dentrys = z.dentrys]
      BY ONLY <2>2, <3>1
    <3> QED
      BY ONLY <2>0, <2>2, <2>3, <2>4, <2>5, <3>1, <3>2
  <2>6. CASE l # ip
    <3>1. y = x /\ List(k, l) = List(m, l)
      BY <1>1, <2>0, <2>6 DEF List
    <3> QED
      BY ONLY <2>0, <2>2, <2>3, <2>4, <2>6, <3>1
  <2> QED
    BY <2>5, <2>6
<1>17. Renamed(m, n, ip, f, t, i, fname, ft)
  BY <1>1, <1>10, <1>11, <1>12, <1>14, <1>15, <1>16 DEF Renamed
<1>18. n.dentry[Root].inode # NULL
  <2>1. Root \in DOMAIN m.dentry
    BY DEF Ready, Heap, HeapBut, Rooted
  <2> QED
    BY <1>12, <2>1 DEF Ready
<1> QED
  BY <1>0, <1>10, <1>17, <1>18 DEF Ready
-------------------------------------------------------------------------------
\* What sfs_mount starts with is in order.
LEMMA FirstHeap ==
    ASSUME NEW map \in SUBSET Bit, NEW max \in {0, MaxIno}
    PROVE  LET m == FirstMemory(map, max)
           IN  /\ Heap(m) /\ Linked(m) = {Root} /\ DOMAIN m.dentry = {Root} /\ DOMAIN m.inode = {}
               /\ m.dentry[Root] = RootDentry /\ RootDentry.inode = NULL /\ RootDentry.ino = 0
               /\ RootDentry.ftype = "SFS_DIR" /\ m.map_inode = map /\ m.max_ino = max
<1> PICK m : m = FirstMemory(map, max)
  OBVIOUS
<1>0. 0 \in Bit
  BY DEF Bit
<1>1. /\ RootDentry \in Dentry /\ RootDentry.inode = NULL /\ RootDentry.ino = 0
      /\ RootDentry.ftype = "SFS_DIR"
  BY <1>0 DEF RootDentry, Dentry, FileType, NULL
<1>2. /\ m.dentry = <<RootDentry>> /\ m.inode = <<>> /\ m.map_inode = map /\ m.max_ino = max
  BY DEF FirstMemory
<1> HIDE DEF RootDentry
<1>3. /\ DOMAIN <<RootDentry>> = {1} /\ <<RootDentry>> \in [{1} -> Dentry] /\ <<RootDentry>>[1] = RootDentry
  BY <1>1
<1>4. DOMAIN <<>> = {} /\ <<>> \in [{} -> Inode]
  OBVIOUS
<1>5. Memory(m)
  <2>1. {1} \subseteq 1 .. 1 /\ {} \subseteq 1 .. 1 /\ 1 \in Nat
    OBVIOUS
  <2> QED
    <3> PICK f, g : f = <<RootDentry>> /\ g = <<>>
      OBVIOUS
    <3>0. f = <<RootDentry>> /\ g = <<>>
      OBVIOUS
    <3>1. /\ f \in [DOMAIN f -> Dentry] /\ g \in [DOMAIN g -> Inode]
          /\ DOMAIN f \subseteq 1 .. 1 /\ DOMAIN g \subseteq 1 .. 1
      BY <1>3, <1>4, <2>1, <3>0
    <3>2. Memory([dentry |-> f, inode |-> g, map_inode |-> map, max_ino |-> max])
      BY ONLY <2>1, <3>1, map \in SUBSET Bit, max \in {0, MaxIno}, MemoryOf
    <3> QED
      BY <3>0, <3>2 DEF FirstMemory
<1>6. DOMAIN m.dentry = {Root} /\ DOMAIN m.inode = {} /\ m.dentry[Root] = RootDentry
  BY <1>2, <1>3, <1>4 DEF Root
<1>7. Linked(m) = {Root}
  BY <1>6 DEF Linked
<1>8. /\ Rooted(m) /\ ListedOnce(m) /\ Allocated(m) /\ Lead(m, NULL) /\ Back(m, NULL) /\ Parents(m)
  BY <1>1, <1>6, <1>7 DEF Rooted, ListedOnce, Allocated, Lead, Back, Parents
<1> QED
  BY <1>1, <1>2, <1>5, <1>6, <1>7, <1>8 DEF Heap, HeapBut

\* The root of a new disk has inode number 0.
LEMMA FirstScan ==
    \E s : Scan({}, MaxIno) = {s} /\ s.no = 0 /\ s.map = {0}
<1>1. 0 \in Bit /\ ~(Bit \subseteq {}) /\ 0 # MaxIno
  BY DEF Bit
<1>2. IsFirstZero({}, 0)
  BY <1>1 DEF IsFirstZero
<1>3. \A c \in Bit : IsFirstZero({}, c) => c = 0
  <2> SUFFICES ASSUME NEW c \in Bit, IsFirstZero({}, c) PROVE c = 0
    OBVIOUS
  <2>1. 0 .. c - 1 \subseteq {}
    BY DEF IsFirstZero
  <2>2. c # 0 => 0 \in 0 .. c - 1
    BY DEF Bit
  <2> QED
    BY <2>1, <2>2
<1>4. {c \in Bit : IsFirstZero({}, c)} = {0}
  BY <1>1, <1>2, <1>3
<1>5. Scan({}, MaxIno) = {[map |-> {} \cup {b}, no |-> IF b = MaxIno THEN None ELSE b] : b \in {0}}
  BY <1>1, <1>4 DEF Scan
<1>6. Scan({}, MaxIno) = {[map |-> {0}, no |-> 0]}
  BY <1>1, <1>5
<1>7. [map |-> {0}, no |-> 0].no = 0 /\ [map |-> {0}, no |-> 0].map = {0}
  OBVIOUS
<1> QED
  BY <1>6, <1>7

\* Formatting leaves a root without an inode in memory, and its inode on the disk.
LEMMA Formatted ==
    ASSUME FormatNew, disk.map_inode = {}
    PROVE  /\ mem' = FirstMemory({0}, MaxIno)
           /\ disk' = [disk EXCEPT !.cell[SFS_INO_OFS(0)] = InodeD(NewInode(0, Root, "SFS_DIR"))]
<1> DEFINE m0 == FirstMemory({}, MaxIno)
           m  == sfs_alloc_inode(m0, Root)
           i0 == NewInode(0, Root, "SFS_DIR")
<1> PICK n : n = m
  OBVIOUS
<1>1. /\ disk' = [disk EXCEPT !.cell[SFS_INO_OFS(n.dentry[Root].ino)] = InodeD(n.inode[n.dentry[Root].inode])]
      /\ mem' = [n EXCEPT !.dentry[Root].inode = NULL, !.inode = <<>>]
  BY DEF FormatNew
<1>2. PICK s : Scan({}, MaxIno) = {s} /\ s.no = 0 /\ s.map = {0}
  BY FirstScan
<1>3. /\ Memory(m0) /\ m0.map_inode = {} /\ m0.max_ino = MaxIno /\ DOMAIN m0.inode = {}
      /\ DOMAIN m0.dentry = {Root} /\ m0.dentry[Root] = RootDentry /\ RootDentry.ftype = "SFS_DIR"
      /\ RootDentry.ino = 0 /\ RootDentry.inode = NULL /\ m0.dentry \in [{Root} -> Dentry]
  <2>1. {} \in SUBSET Bit /\ MaxIno \in {0, MaxIno}
    OBVIOUS
  <2>2. /\ Heap(m0) /\ DOMAIN m0.dentry = {Root} /\ DOMAIN m0.inode = {}
        /\ m0.dentry[Root] = RootDentry /\ RootDentry.inode = NULL /\ RootDentry.ino = 0
        /\ RootDentry.ftype = "SFS_DIR" /\ m0.map_inode = {} /\ m0.max_ino = MaxIno
    BY <2>1, FirstHeap
  <2> HIDE DEF m0
  <2> QED
    BY <2>2, MemoryFields DEF Heap, HeapBut
<1> HIDE DEF m0
<1> PICK i : i = Top(m0.inode) + 1
  OBVIOUS
<1> HIDE DEF i0
<1> PICK g : g = With(m0.inode, i, i0)
  OBVIOUS
<1> PICK d0 : d0 = [RootDentry EXCEPT !.inode = i, !.ino = 0]
  OBVIOUS
<1>4. n = [dentry |-> [m0.dentry EXCEPT ![Root] = d0], inode |-> g, map_inode |-> {0}, max_ino |-> MaxIno]
  <2>1. 0 # None /\ Root \in DOMAIN m0.dentry /\ Scan(m0.map_inode, m0.max_ino) = {s}
    BY <1>2, <1>3 DEF None
  <2>2. n = [dentry |-> [m0.dentry EXCEPT ![Root] = [@ EXCEPT !.inode = i, !.ino = s.no]],
             inode |-> With(m0.inode, i, NewInode(s.no, Root, m0.dentry[Root].ftype)),
             map_inode |-> s.map, max_ino |-> m0.max_ino]
    BY <1>2, <1>3, <2>1, AllocResult
  <2> QED
    BY <1>2, <1>3, <2>2 DEF i0
<1>5. RootDentry \in Dentry /\ Top(m0.inode) \in Nat
  BY <1>3, MemoryFields
<1>6. d0.ino = 0 /\ d0.inode = i /\ [d0 EXCEPT !.inode = NULL] = RootDentry
  <2> PICK R : R = RootDentry
    OBVIOUS
  <2>1. R = RootDentry /\ R \in Dentry /\ R.ino = 0 /\ R.inode = NULL /\ d0 = [R EXCEPT !.inode = i, !.ino = 0]
        /\ i \in Nat /\ 0 \in Bit
    BY <1>3, <1>5 DEF Bit
  <2>2. /\ d0 \in Dentry /\ d0.fname = R.fname /\ d0.parent = R.parent /\ d0.ftype = R.ftype
        /\ d0.ino = 0 /\ d0.inode = i
    BY ONLY <2>1 DEF Dentry
  <2> PICK x : x = [d0 EXCEPT !.inode = NULL]
    OBVIOUS
  <2>3. x = [d0 EXCEPT !.inode = NULL] /\ NULL \in Nat
    BY DEF NULL
  <2>4. /\ x \in Dentry /\ x.fname = R.fname /\ x.parent = R.parent /\ x.ftype = R.ftype
        /\ x.ino = 0 /\ x.inode = NULL
    BY ONLY <2>2, <2>3 DEF Dentry
  <2>5. x = R
    BY ONLY <2>1, <2>4 DEF Dentry
  <2> QED
    BY ONLY <2>1, <2>2, <2>3, <2>5
<1>7. n.dentry = [m0.dentry EXCEPT ![Root] = d0] /\ n.inode = g
  BY <1>4
<1>8. n.dentry[Root] = d0 /\ g[i] = i0 /\ DOMAIN n.dentry = {Root} /\ n.dentry \in [{Root} -> {d0}]
  <2>1. g[i] = i0
    <3>1. g = With(m0.inode, i, i0)
      OBVIOUS
    <3> QED
      BY ONLY <3>1 DEF With
  <2> QED
    BY <1>3, <1>7, <2>1
<1>9. disk' = [disk EXCEPT !.cell[SFS_INO_OFS(0)] = InodeD(i0)]
  BY <1>1, <1>6, <1>7, <1>8
<1>10. mem' = FirstMemory({0}, MaxIno)
  <2> PICK f : f = n.dentry
    OBVIOUS
  <2>1. n = [dentry |-> f, inode |-> g, map_inode |-> {0}, max_ino |-> MaxIno]
    BY <1>4, <1>7
  <2>2. mem' = [n EXCEPT !.dentry = [f EXCEPT ![Root] = [f[Root] EXCEPT !.inode = NULL]], !.inode = <<>>]
    BY ONLY <1>1, <2>1
  <2>3. [f EXCEPT ![Root] = [f[Root] EXCEPT !.inode = NULL]] = <<RootDentry>>
    <3>1. [f EXCEPT ![Root] = RootDentry] = <<RootDentry>>
      BY <1>8 DEF Root
    <3> QED
      BY <1>6, <1>8, <3>1
  <2>4. mem' = [dentry |-> <<RootDentry>>, inode |-> <<>>, map_inode |-> {0}, max_ino |-> MaxIno]
    BY ONLY <2>1, <2>2, <2>3
  <2> QED
    BY <2>4 DEF FirstMemory
<1> QED
  BY <1>9, <1>10 DEF i0
-------------------------------------------------------------------------------
\* The calls of sfs_sync_inode that are running are for inodes that are linked.
Stacked(m, frames) ==
    /\ frames \in Seq([inode : DOMAIN m.inode, next : Nat])
    /\ \A f \in ToSet(frames) : \E d \in Linked(m) : m.dentry[d].inode = f.inode

(***************************************************************************)
(* The inductive invariant: the types, and a heap that is in order from    *)
(* sfs_mount to the end of the process, with the root's inode loaded       *)
(* whenever a handler or sfs_umount may run.                               *)
(***************************************************************************)
HeapInv ==
    /\ disk \in [magic : BOOLEAN, map_inode : SUBSET Bit, cell : [Address -> DiskCell]]
    /\ ~disk.magic => disk.map_inode = {}
    /\ pc \in {"unmounted", "read_root", "mounted"} \cup Umounting
    /\ fault \in Fault /\ spoilt \subseteq Mishaps
    /\ Tree(live) /\ Tree(durable) /\ ops \in 0 .. MaxOps
    /\ pc = "unmounted" => mem = NoMemory
    /\ pc # "unmounted" => Heap(mem)
    /\ pc = "read_root" => mem.dentry[Root].inode = NULL
    /\ Serving \/ pc \in Umounting => Ready(mem)
    /\ pc # "sync" => work = <<>>
    /\ pc = "sync" => Stacked(mem, work)
    /\ pc = "map_inode" => disk.magic

LEMMA InvDisk ==
    ASSUME HeapInv
    PROVE  DiskType
BY DEF HeapInv, DiskType

\* A handler that leaves a memory that is ready, and trees, keeps the invariant.
LEMMA Handled ==
    ASSUME HeapInv, Serving, Ready(mem'), disk' = disk, pc' = pc, work' = work, fault' \in Fault,
           spoilt' \subseteq Mishaps, Tree(live'), durable' = durable, ops' \in 0 .. MaxOps
    PROVE  HeapInv'
<1>1. pc = "mounted" /\ pc' = "mounted" /\ work' = <<>>
  BY DEF HeapInv, Serving
<1>2. Heap(mem') /\ Tree(durable')
  BY DEF Ready, HeapInv
<1>3. pc' \notin Umounting
  BY <1>1 DEF Umounting
<1> QED
  BY <1>1, <1>2, <1>3 DEF HeapInv

LEMMA FaultOfRead ==
    ASSUME NEW m, NEW d
    PROVE  ReadFault(m, d) \in Fault
BY DEF ReadFault, Fault

LEMMA InvGetattr ==
    ASSUME HeapInv, NEW path \in Path, Getattr(path)
    PROVE  HeapInv'
<1> PICK d : d = sfs_lookup(mem, path).ret
  OBVIOUS
<1>1. /\ Serving /\ sfs_lookup(mem, path).find = {TRUE} /\ mem.dentry[d].inode = NULL
      /\ mem' = sfs_read_inode(mem, d) /\ fault' = ReadFault(mem, d)
      /\ UNCHANGED <<disk, pc, work, spoilt, live, durable, ops>>
  BY DEF Getattr, sfs_access
<1>2. Ready(mem) /\ Heap(mem)
  BY <1>1 DEF HeapInv, Ready
<1>3. d \in Linked(mem)
  <2>1. path \in Seq(Name)
    BY PathType
  <2>2. PICK c : sfs_lookup(mem, path).ret = c[Len(path)] /\ c[Len(path)] \in Linked(mem)
    BY <1>1, <1>2, <2>1, FoundAt
  <2> QED
    BY <2>2
<1>4. Ready(mem')
  BY <1>1, <1>2, <1>3, InvDisk, FetchReady
<1>5. fault' \in Fault
  BY <1>1, FaultOfRead
<1>6. spoilt' \subseteq Mishaps /\ Tree(live') /\ ops' \in 0 .. MaxOps
  BY <1>1 DEF HeapInv
<1> QED
  BY <1>1, <1>4, <1>5, <1>6, Handled

\* What all changing calls have in common.
LEMMA Changed ==
    ASSUME HeapInv, NEW op, Changing(op)
    PROVE  Serving /\ Ready(mem) /\ Heap(mem) /\ ops' \in 0 .. MaxOps /\ op \in Op
<1>1. Serving /\ op \in Op /\ ops < MaxOps /\ ops' = ops + 1
  BY DEF Changing
<1>2. ops \in 0 .. MaxOps
  BY DEF HeapInv
<1>3. ops' \in 0 .. MaxOps
  BY <1>1, <1>2
<1> QED
  BY <1>1, <1>3 DEF HeapInv, Ready

LEMMA Spoilt ==
    ASSUME HeapInv, NEW mishaps, Spoils(mishaps)
    PROVE  spoilt' \subseteq Mishaps
BY DEF Spoils, HeapInv

\* Where the kernel knows a path to be absent, it is made.
LEMMA KnownMade ==
    ASSUME HeapInv, Heap(mem), NEW path \in Path, KnownAbsent(path), NEW ft \in FileType
    PROVE  LET n == Make(mem, path, ft)
           IN  /\ Made(mem, n, path, ft) /\ sfs_lookup(n, path).ret = Top(mem.dentry) + 1
               /\ sfs_lookup(n, path).find = {TRUE}
<1>1. InKnownDir(mem, path) /\ sfs_lookup(mem, path).find = {FALSE}
  BY DEF KnownAbsent
<1>2. Made(mem, Make(mem, path, ft), path, ft)
  BY <1>1, MakeMade
<1> QED
  BY <1>1, <1>2, MadeFound

LEMMA InvCreate ==
    ASSUME HeapInv, NEW op, Changing(op), NEW path \in Path, NEW ft \in FileType, Create(path, ft),
           live' = With(live, path, Fresh(ft))
    PROVE  HeapInv'
<1>1. /\ KnownAbsent(path) /\ mem' = Make(mem, path, ft) /\ Spoils(MakeSpoils(path))
      /\ UNCHANGED <<disk, pc, work, fault, durable>>
  BY DEF Create
<1>2. Serving /\ Ready(mem) /\ Heap(mem) /\ ops' \in 0 .. MaxOps
  BY Changed
<1>3. Made(mem, mem', path, ft)
  BY <1>1, <1>2, KnownMade
<1>4. Ready(mem')
  BY <1>2, <1>3, MadeReady
<1>5. Tree(live')
  BY FreshNode, TreeWith DEF HeapInv
<1>6. fault' \in Fault /\ spoilt' \subseteq Mishaps
  BY <1>1, Spoilt DEF HeapInv
<1> QED
  BY <1>1, <1>2, <1>4, <1>5, <1>6, Handled

LEMMA InvSymlink ==
    ASSUME HeapInv, NEW path \in Path, NEW target \in Target, sfs_symlink(target, path)
    PROVE  HeapInv'
<1>p. PICK made, d : made = Make(mem, path, "SFS_REG_FILE") /\ d = sfs_lookup(made, path).ret
  OBVIOUS
<1>q. PICK i : i = made.dentry[d].inode
  OBVIOUS
<1>0. made = Make(mem, path, "SFS_REG_FILE") /\ d = sfs_lookup(made, path).ret /\ i = made.dentry[d].inode
  BY <1>p, <1>q
<1>1. /\ Changing("symlink") /\ KnownAbsent(path)
      /\ mem' = IF i = NULL THEN made ELSE Linkified(made, d, i, target)
      /\ fault' = ReadFault(made, d) /\ Spoils(MakeSpoils(path))
      /\ live' = With(live, path, [Fresh("SFS_SYM_LINK") EXCEPT !.target = target])
      /\ UNCHANGED <<disk, pc, work, durable>>
  BY <1>0 DEF sfs_symlink, Linkified
<1>2. Serving /\ Ready(mem) /\ Heap(mem) /\ ops' \in 0 .. MaxOps
  BY <1>1, Changed
<1>3. Made(mem, made, path, "SFS_REG_FILE") /\ d = Top(mem.dentry) + 1
  <2>1. "SFS_REG_FILE" \in FileType
    BY DEF FileType
  <2> QED
    BY <1>0, <1>1, <1>2, <2>1, KnownMade
<1>4. Ready(made) /\ d \in Linked(made) \ {Root}
  BY <1>2, <1>3, MadeReady DEF Made, MadeIn
<1>5. Ready(mem')
  <2>1. CASE i = NULL
    BY <1>1, <1>4, <2>1
  <2>2. CASE i # NULL
    <3>1. Ready(Linkified(made, d, i, target))
      BY <1>0, <1>4, <2>2, LinkifiedReady
    <3> QED
      BY <1>1, <2>2, <3>1
  <2> QED
    BY <2>1, <2>2
<1>6. Tree(live')
  <2>1. [Fresh("SFS_SYM_LINK") EXCEPT !.target = target] \in Node
    BY FreshNode DEF FileType
  <2> QED
    BY <1>1, <2>1, TreeWith DEF HeapInv
<1>7. fault' \in Fault /\ spoilt' \subseteq Mishaps
  BY <1>1, FaultOfRead, Spoilt
<1> QED
  BY <1>1, <1>2, <1>5, <1>6, <1>7, Handled

\* What the kernel knows of a path is listed in a directory and loaded.
LEMMA KnownIn ==
    ASSUME NEW m, Heap(m), NEW path \in Path, NEW ft, Shows(m, path, ft)
    PROVE  LET d == sfs_lookup(m, path).ret
           IN  /\ m.dentry[d].inode # NULL /\ m.dentry[d].inode \in DOMAIN m.inode
               /\ Is(m, m.dentry[d].inode, ft)
               /\ ListedIn(m, d, m.dentry[m.dentry[d].parent].inode)
<1> PICK d : d = sfs_lookup(m, path).ret
  OBVIOUS
<1>1. d = sfs_lookup(m, path).ret /\ sfs_lookup(m, path).find = {TRUE}
      /\ m.dentry[d].inode # NULL /\ Is(m, m.dentry[d].inode, ft)
  BY DEF Shows
<1>2. PICK j : ListedIn(m, d, j)
  BY <1>1, FoundIn
<1>3. j = m.dentry[m.dentry[d].parent].inode /\ d \in Linked(m)
  BY <1>2 DEF ListedIn
<1>4. m.dentry[d].inode \in DOMAIN m.inode
  <2> PICK i : i = m.dentry[d].inode
    OBVIOUS
  <2>1. i \in DOMAIN m.inode
    BY <1>1, <1>3, LoadedAt
  <2> QED
    BY <2>1
<1> QED
  BY ONLY <1>1, <1>2, <1>3, <1>4

LEMMA InvUnlink ==
    ASSUME HeapInv, NEW op, Changing(op), NEW path \in Path, NEW ft, Unlink(path, ft)
    PROVE  HeapInv'
<1>p. PICK d : d = sfs_lookup(mem, path).ret
  OBVIOUS
<1>q. PICK i : i = mem.dentry[d].inode
  OBVIOUS
<1>r. PICK j : j = mem.dentry[mem.dentry[d].parent].inode
  OBVIOUS
<1>0. d = sfs_lookup(mem, path).ret /\ i = mem.dentry[d].inode /\ j = mem.dentry[mem.dentry[d].parent].inode
  BY <1>p, <1>q, <1>r
<1>1. /\ KnownAs(path, ft) /\ fault' \in DropFaults(mem, i)
      /\ mem' = IF "null" \in DropFaults(mem, i) THEN mem ELSE sfs_drop_dentry(sfs_drop_inode(mem, i), j, d)
      /\ Spoils(Spoil("null" \in DropFaults(mem, i), "unloaded") \cup
                Spoil("bad free" \in DropFaults(mem, i), "old link"))
      /\ live' = Restrict(live, {p \in DOMAIN live : ~IsPrefix(path, p)})
      /\ UNCHANGED <<disk, pc, work, durable>>
  BY <1>0 DEF Unlink
<1>2. Serving /\ Ready(mem) /\ Heap(mem) /\ ops' \in 0 .. MaxOps
  BY Changed
<1>3. ListedIn(mem, d, j)
  <2>1. Shows(mem, path, ft)
    BY <1>1 DEF KnownAs
  <2> QED
    BY <1>0, <1>2, <2>1, KnownIn
<1>4. Ready(mem')
  <2>1. CASE "null" \in DropFaults(mem, i)
    BY <1>1, <1>2, <2>1
  <2>2. CASE "null" \notin DropFaults(mem, i)
    <3>1. NULL \notin Dropped(mem, i)
      BY <2>2 DEF DropFaults
    <3>2. Ready(sfs_drop_dentry(sfs_drop_inode(mem, i), j, d))
      BY <1>0, <1>2, <1>3, <3>1, UnlinkReady
    <3> QED
      BY <1>1, <2>2, <3>2
  <2> QED
    BY <2>1, <2>2
<1>5. Tree(live')
  BY <1>1, TreeWithout DEF HeapInv
<1>6. fault' \in Fault /\ spoilt' \subseteq Mishaps
  <2>1. DropFaults(mem, i) \subseteq Fault
    BY DEF DropFaults, Fault
  <2> QED
    BY <1>1, <2>1, Spoilt
<1> QED
  BY <1>1, <1>2, <1>4, <1>5, <1>6, Handled

LEMMA InvRename ==
    ASSUME HeapInv, NEW from \in Path, NEW to \in Path, sfs_rename(from, to)
    PROVE  HeapInv'
<1>p. PICK f : f = sfs_lookup(mem, from).ret
  OBVIOUS
<1>q. PICK i : i = mem.dentry[f].inode
  OBVIOUS
<1>r. PICK ft : ft = IF Is(mem, i, "SFS_DIR") THEN "SFS_DIR" ELSE "SFS_REG_FILE"
  OBVIOUS
<1>s. PICK made : made = Make(mem, to, ft)
  OBVIOUS
<1>t. PICK t : t = sfs_lookup(made, to).ret
  OBVIOUS
<1>u. PICK j : j = mem.dentry[mem.dentry[f].parent].inode
  OBVIOUS
<1>0. /\ f = sfs_lookup(mem, from).ret /\ i = mem.dentry[f].inode /\ made = Make(mem, to, ft)
      /\ ft = (IF Is(mem, i, "SFS_DIR") THEN "SFS_DIR" ELSE "SFS_REG_FILE")
      /\ t = sfs_lookup(made, to).ret /\ j = mem.dentry[mem.dentry[f].parent].inode
  BY <1>p, <1>q, <1>r, <1>s, <1>t, <1>u
<1>1. /\ Changing("rename") /\ (\E g \in FileType : KnownAs(from, g)) /\ KnownAbsent(to)
      /\ \A p \in DOMAIN live : Len(Moved(from, to, p)) <= MaxDepth
      /\ mem' = IF made.dentry[t].inode = NULL THEN made
                ELSE sfs_drop_dentry(Relink(sfs_drop_inode(made, made.dentry[t].inode), t, i), j, f)
      /\ fault' = ReadFault(made, t)
      /\ Spoils(MakeSpoils(to) \cup Spoil(Is(mem, i, "SFS_SYM_LINK"), "moved link"))
      /\ live' = MovedTree(from, to)
      /\ UNCHANGED <<disk, pc, work, durable>>
  BY ONLY sfs_rename(from, to), <1>0 DEF sfs_rename
<1>2. Serving /\ Ready(mem) /\ Heap(mem) /\ ops' \in 0 .. MaxOps
  BY <1>1, Changed
<1>3. ListedIn(mem, f, j) /\ i # NULL
  <2>1. PICK g : Shows(mem, from, g)
    BY <1>1 DEF KnownAs
  <2> QED
    BY <1>0, <1>2, <2>1, KnownIn
<1>4. Made(mem, made, to, ft) /\ t = Top(mem.dentry) + 1 /\ ft \in FileType
  <2>1. ft \in FileType
    BY <1>0 DEF FileType
  <2> QED
    BY <1>0, <1>1, <1>2, <2>1, KnownMade
<1>5. Ready(mem')
  <2>1. CASE made.dentry[t].inode = NULL
    BY <1>1, <1>2, <1>4, <2>1, MadeReady
  <2>2. CASE made.dentry[t].inode # NULL
    <3>p. PICK p, ip, fname : /\ p = sfs_lookup(mem, to).ret /\ ip = mem.dentry[sfs_lookup(mem, to).ret].inode
                            /\ fname = Last(to)
      OBVIOUS
    <3>1. MadeIn(mem, made, p, ip, t, fname, ft)
      BY <1>4, <3>p DEF Made
    <3>2. NewNumber(mem, made, t, ft)
      BY <2>2, <3>1 DEF MadeIn, NoNumber
    <3>3. Ready(sfs_drop_dentry(Relink(sfs_drop_inode(made, made.dentry[t].inode), t, i), j, f))
      BY ONLY <1>0, <1>2, <1>3, <1>4, <3>1, <3>2, RenameReady
    <3> QED
      BY <1>1, <2>2, <3>3
  <2> QED
    BY <2>1, <2>2
<1>6. Tree(live')
  <2>1. Tree(live)
    BY DEF HeapInv
  <2> QED
    BY <1>1, <2>1, TreeMoved
<1>7. fault' \in Fault /\ spoilt' \subseteq Mishaps
  BY <1>1, FaultOfRead, Spoilt
<1> QED
  BY <1>1, <1>2, <1>5, <1>6, <1>7, Handled
-------------------------------------------------------------------------------
\* A regular file the kernel knows, and its inode.
LEMMA KnownFile ==
    ASSUME HeapInv, Heap(mem), NEW path \in Path, KnownAs(path, "SFS_REG_FILE"), NEW i,
           i = mem.dentry[sfs_lookup(mem, path).ret].inode
    PROVE  i \in DOMAIN mem.inode
<1>1. Shows(mem, path, "SFS_REG_FILE")
  BY DEF KnownAs
<1> QED
  BY <1>1, KnownIn

\* With another record for inode i that points and lists as before, the memory stays ready.
LEMMA InodeReady ==
    ASSUME NEW m, Ready(m), NEW i \in DOMAIN m.inode, NEW rec \in Inode,
           rec.dentry = m.inode[i].dentry, rec.dentrys = m.inode[i].dentrys,
           Len(rec.data) = Len(m.inode[i].data),
           NEW n, n = [dentry |-> m.dentry, inode |-> [m.inode EXCEPT ![i] = rec],
                       map_inode |-> m.map_inode, max_ino |-> m.max_ino]
    PROVE  Ready(n)
<1>1. Heap(m) /\ Memory(m)
  BY DEF Ready, Heap, HeapBut
<1>2. Altered(m, n)
  BY <1>1, AlteredInode
<1>3. Heap(n)
  BY <1>1, <1>2, AlteredHeap
<1> QED
  BY <1>3 DEF Ready

LEMMA InvWrite ==
    ASSUME HeapInv, NEW path \in Path, NEW offset \in 0 .. Cells, NEW n \in 1 .. Cells, NEW byte \in Byte,
           sfs_write(path, offset, n, byte)
    PROVE  HeapInv'
<1>p. PICK i : i = mem.dentry[sfs_lookup(mem, path).ret].inode
  OBVIOUS
<1>q. PICK w : w = Written(mem.inode[i].size, mem.inode[i].data, offset, n, byte)
  OBVIOUS
<1>0. /\ i = mem.dentry[sfs_lookup(mem, path).ret].inode
      /\ w = Written(mem.inode[i].size, mem.inode[i].data, offset, n, byte)
  BY <1>p, <1>q
<1>1. /\ Changing("write") /\ KnownAs(path, "SFS_REG_FILE")
      /\ mem' = IF offset + n > Cells THEN mem
                ELSE [mem EXCEPT !.inode[i].size = w.size, !.inode[i].data = w.data]
      /\ fault' = IF offset + n > Cells THEN "overrun" ELSE "none"
      /\ Spoils(Spoil(offset + n > Cells, "long"))
      /\ live' = IF path \notin DOMAIN live THEN live
                 ELSE [live EXCEPT ![path].size = Max({@, offset + n}),
                                   ![path].data = [k \in 1 .. Cells |->
                                       IF k > offset /\ k <= offset + n THEN byte ELSE @[k]]]
      /\ UNCHANGED <<disk, pc, work, durable>>
  BY <1>0 DEF sfs_write
<1>2. Serving /\ Ready(mem) /\ Heap(mem) /\ ops' \in 0 .. MaxOps
  BY <1>1, Changed
<1>3. i \in DOMAIN mem.inode
  BY <1>0, <1>1, <1>2, KnownFile
<1>4. Memory(mem)
  BY <1>2 DEF Heap, HeapBut
<1>5. /\ w.size \in Nat /\ w.data \in Seq(Byte \cup {Junk}) /\ Len(w.data) = Len(mem.inode[i].data)
  <2>1. mem.inode[i].size \in Nat /\ mem.inode[i].data \in Seq(Byte \cup {Junk})
    BY <1>3, <1>4, InodeFields
  <2>2. offset \in Nat /\ n \in Nat
    OBVIOUS
  <2>3. Fits(w, Len(mem.inode[i].data))
    BY <1>0, <2>1, <2>2, WrittenData
  <2> QED
    BY <2>3 DEF Fits
<1>6. Ready(mem')
  <2>1. CASE offset + n > Cells
    BY <1>1, <1>2, <2>1
  <2>2. CASE ~(offset + n > Cells)
    <3> DEFINE rec == [mem.inode[i] EXCEPT !.size = w.size, !.data = w.data]
    <3>1. mem.inode[i] \in Inode
      BY <1>3, <1>4, InodeFields
    <3>2. /\ rec \in Inode /\ rec.dentry = mem.inode[i].dentry /\ rec.dentrys = mem.inode[i].dentrys
          /\ Len(rec.data) = Len(mem.inode[i].data)
      BY <1>5, <3>1 DEF Inode
    <3>3. mem = [dentry |-> mem.dentry, inode |-> mem.inode, map_inode |-> mem.map_inode,
                 max_ino |-> mem.max_ino] /\ mem.inode \in [DOMAIN mem.inode -> Inode]
      BY <1>4, MemoryFields
    <3>4. mem' = [mem EXCEPT !.inode[i].size = w.size, !.inode[i].data = w.data]
      BY <1>1, <2>2
    <3>5. mem' = [mem EXCEPT !.inode = [@ EXCEPT ![i] = rec]]
      BY ONLY <1>3, <3>1, <3>3, <3>4 DEF Inode
    <3>6. mem' = [dentry |-> mem.dentry, inode |-> [mem.inode EXCEPT ![i] = rec],
                  map_inode |-> mem.map_inode, max_ino |-> mem.max_ino]
      BY ONLY <3>3, <3>5
    <3> QED
      BY <1>2, <1>3, <3>2, <3>6, InodeReady
  <2> QED
    BY <2>1, <2>2
<1>7. Tree(live')
  <2>1. CASE path \notin DOMAIN live
    BY <1>1, <2>1 DEF HeapInv
  <2>2. CASE path \in DOMAIN live
    <3> DEFINE data == [k \in 1 .. Cells |-> IF k > offset /\ k <= offset + n THEN byte
                                              ELSE live[path].data[k]]
               size == Max({live[path].size, offset + n})
    <3>1. Tree(live) /\ live[path] \in Node
      BY <2>2 DEF HeapInv, Tree
    <3>2. size \in Nat
      BY <3>1, MaxOfTwo DEF Node
    <3>3. data \in [1 .. Cells -> Byte \cup {Junk}]
      BY <3>1 DEF Node
    <3>4. live' = [live EXCEPT ![path].size = size, ![path].data = data]
      BY <1>1, <2>2
    <3> QED
      BY <2>2, <3>1, <3>2, <3>3, <3>4, TreeChanged
  <2> QED
    BY <2>1, <2>2
<1>8. fault' \in Fault /\ spoilt' \subseteq Mishaps
  BY <1>1, Spoilt DEF Fault
<1> QED
  BY <1>1, <1>2, <1>6, <1>7, <1>8, Handled

LEMMA InvTruncate ==
    ASSUME HeapInv, NEW path \in Path, NEW size \in 0 .. Cells, sfs_truncate(path, size)
    PROVE  HeapInv'
<1>p. PICK i : i = mem.dentry[sfs_lookup(mem, path).ret].inode
  OBVIOUS
<1>0. i = mem.dentry[sfs_lookup(mem, path).ret].inode
  BY <1>p
<1>1. /\ Changing("truncate") /\ KnownAs(path, "SFS_REG_FILE")
      /\ mem' = [mem EXCEPT !.inode[i].size = size]
      /\ live' = IF path \notin DOMAIN live THEN live
                 ELSE [live EXCEPT ![path].size = size,
                                   ![path].data = [k \in 1 .. Cells |-> IF k > size THEN Junk ELSE @[k]]]
      /\ UNCHANGED <<disk, pc, work, fault, spoilt, durable>>
  BY <1>0 DEF sfs_truncate
<1>2. Serving /\ Ready(mem) /\ Heap(mem) /\ ops' \in 0 .. MaxOps
  BY <1>1, Changed
<1>3. i \in DOMAIN mem.inode
  BY <1>0, <1>1, <1>2, KnownFile
<1>4. Memory(mem)
  BY <1>2 DEF Heap, HeapBut
<1>a. size \in Nat
  OBVIOUS
<1>5. Ready(mem')
  <2> DEFINE rec == [mem.inode[i] EXCEPT !.size = size]
  <2>1. mem.inode[i] \in Inode
    BY <1>3, <1>4, InodeFields
  <2>2. /\ rec \in Inode /\ rec.dentry = mem.inode[i].dentry /\ rec.dentrys = mem.inode[i].dentrys
        /\ Len(rec.data) = Len(mem.inode[i].data)
    BY <1>a, <2>1 DEF Inode
  <2>3. mem = [dentry |-> mem.dentry, inode |-> mem.inode, map_inode |-> mem.map_inode,
               max_ino |-> mem.max_ino] /\ mem.inode \in [DOMAIN mem.inode -> Inode]
    BY <1>4, MemoryFields
  <2>4. mem' = [mem EXCEPT !.inode = [@ EXCEPT ![i] = rec]]
    BY ONLY <1>1, <1>3, <2>1, <2>3 DEF Inode
  <2>5. mem' = [dentry |-> mem.dentry, inode |-> [mem.inode EXCEPT ![i] = rec],
                map_inode |-> mem.map_inode, max_ino |-> mem.max_ino]
    BY ONLY <2>3, <2>4
  <2> QED
    BY <1>2, <1>3, <2>2, <2>5, InodeReady
<1>6. Tree(live')
  <2>1. CASE path \notin DOMAIN live
    BY <1>1, <2>1 DEF HeapInv
  <2>2. CASE path \in DOMAIN live
    <3> DEFINE data == [k \in 1 .. Cells |-> IF k > size THEN Junk ELSE live[path].data[k]]
    <3>1. Tree(live) /\ live[path] \in Node
      BY <2>2 DEF HeapInv, Tree
    <3>2. data \in [1 .. Cells -> Byte \cup {Junk}]
      BY <3>1 DEF Node
    <3>3. live' = [live EXCEPT ![path].size = size, ![path].data = data]
      BY <1>1, <2>2
    <3> QED
      BY <1>a, <2>2, <3>1, <3>2, <3>3, TreeChanged
  <2> QED
    BY <2>1, <2>2
<1>7. fault' \in Fault /\ spoilt' \subseteq Mishaps
  BY <1>1 DEF HeapInv
<1> QED
  BY <1>1, <1>2, <1>5, <1>6, <1>7, Handled
-------------------------------------------------------------------------------
\* What sfs_driver_write is given are cells.
LEMMA CellsWritten ==
    /\ \A i \in Inode : InodeD(i) \in DiskCell
    /\ \A d \in Dentry : DentryD(d) \in DiskCell
    /\ \A b \in Byte \cup {Junk} : DataD(b) \in DiskCell
<1>1. ASSUME NEW i \in Inode PROVE InodeD(i) \in DiskCell
  <2>1. /\ i.ino \in Bit /\ i.size \in Nat /\ i.target_path \in Target \cup {Junk}
        /\ Len(i.dentrys) \in Nat
    BY LenProperties DEF Inode
  <2> QED
    BY <2>1 DEF InodeD, DiskCell
<1>2. ASSUME NEW d \in Dentry PROVE DentryD(d) \in DiskCell
  <2>1. d.fname \in Name \cup {"/"} /\ d.ftype \in FileType /\ d.ino \in Bit \cup {None}
    BY DEF Dentry
  <2> QED
    BY <2>1 DEF DentryD, DiskCell
<1>3. ASSUME NEW b \in Byte \cup {Junk} PROVE DataD(b) \in DiskCell
  BY DEF DataD, DiskCell
<1> QED
  BY <1>1, <1>2, <1>3

\* The disk stays a disk: what a write does not reach is as it was.
DiskIs(d) == d \in [magic : BOOLEAN, map_inode : SUBSET Bit, cell : [Address -> DiskCell]]

LEMMA WriteType ==
    ASSUME DiskIs(disk), NEW at, NEW contents, \A k \in DOMAIN contents : contents[k] \in DiskCell,
           sfs_driver_write(at, contents)
    PROVE  DiskIs(disk') /\ disk'.magic = disk.magic /\ disk'.map_inode = disk.map_inode
<1> DEFINE cell == [a \in Address |-> IF a - at + 1 \in DOMAIN contents THEN contents[a - at + 1]
                                      ELSE disk.cell[a]]
<1>1. disk' = [disk EXCEPT !.cell = cell]
  BY DEF sfs_driver_write
<1>2. cell \in [Address -> DiskCell]
  BY DEF DiskIs
<1> HIDE DEF cell
<1> QED
  BY <1>1, <1>2 DEF DiskIs

LEMMA InvFormatNew ==
    ASSUME HeapInv, FormatNew
    PROVE  HeapInv'
<1>1. /\ pc = "unmounted" /\ ~disk.magic /\ pc' = "read_root"
      /\ UNCHANGED <<work, fault, spoilt, live, durable, ops>>
  BY DEF FormatNew
<1>2. disk.map_inode = {}
  BY <1>1 DEF HeapInv
<1>3. /\ mem' = FirstMemory({0}, MaxIno)
      /\ disk' = [disk EXCEPT !.cell[SFS_INO_OFS(0)] = InodeD(NewInode(0, Root, "SFS_DIR"))]
  BY <1>2, Formatted
<1>4. Heap(mem') /\ mem'.dentry[Root].inode = NULL
  <2>1. {0} \in SUBSET Bit /\ MaxIno \in {0, MaxIno}
    BY DEF Bit
  <2> QED
    BY <1>3, <2>1, FirstHeap
<1>5. DiskIs(disk') /\ disk'.map_inode = disk.map_inode
  <2> DEFINE c == InodeD(NewInode(0, Root, "SFS_DIR"))
  <2>1. c \in DiskCell
    <3>1. 0 \in Bit /\ Root \in Nat /\ "SFS_DIR" \in FileType
      BY DEF Bit, Root, FileType
    <3> QED
      BY <3>1, NewInodeType, CellsWritten
  <2> HIDE DEF c
  <2>2. DiskIs(disk)
    BY DEF HeapInv, DiskIs
  <2>3. disk' = [disk EXCEPT !.cell[SFS_INO_OFS(0)] = c]
    BY <1>3 DEF c
  <2> QED
    BY <2>1, <2>2, <2>3 DEF DiskIs
<1>6. ~Serving' /\ pc' \notin Umounting
  BY <1>1 DEF Serving, Umounting
<1> QED
  BY <1>1, <1>2, <1>4, <1>5, <1>6 DEF HeapInv, DiskIs

LEMMA InvMountOld ==
    ASSUME HeapInv, MountOld
    PROVE  HeapInv'
<1>1. /\ pc = "unmounted" /\ mem' = FirstMemory(disk.map_inode, 0) /\ pc' = "read_root"
      /\ UNCHANGED <<disk, work, fault, spoilt, live, durable, ops>>
  BY DEF MountOld, OldMemory
<1>2. Heap(mem') /\ mem'.dentry[Root].inode = NULL
  <2>1. disk.map_inode \in SUBSET Bit /\ 0 \in {0, MaxIno}
    BY DEF HeapInv
  <2> QED
    BY <1>1, <2>1, FirstHeap
<1>3. ~Serving' /\ pc' \notin Umounting
  BY <1>1 DEF Serving, Umounting
<1> QED
  BY <1>1, <1>2, <1>3 DEF HeapInv

\* Before the root is read it is linked and has no inode; then it has one, or the bytes are no inode.
LEMMA InvReadRoot ==
    ASSUME HeapInv, ReadRoot
    PROVE  HeapInv'
<1>1. /\ pc = "read_root" /\ fault = "none" /\ mem' = sfs_read_inode(mem, Root)
      /\ fault' = ReadFault(mem, Root) /\ pc' = "mounted"
      /\ UNCHANGED <<disk, work, spoilt, live, durable, ops>>
  BY DEF ReadRoot
<1>2. Heap(mem) /\ mem.dentry[Root].inode = NULL
  BY <1>1 DEF HeapInv
<1>3. Heap(mem') /\ (fault' = "none" => mem'.dentry[Root].inode # NULL)
  <2>1. CASE ~Readable(mem.dentry[Root])
    <3>1. mem' = mem
      BY <1>1, <2>1 DEF sfs_read_inode
    <3>2. fault' = "confused"
      BY <1>1, <1>2, <2>1 DEF ReadFault
    <3> QED
      BY <1>2, <3>1, <3>2
  <2>2. CASE Readable(mem.dentry[Root])
    <3>1. Root \in Linked(mem)
      BY DEF Linked
    <3>2. Heap(mem') /\ Loaded(mem, mem', Root)
      BY <1>1, <1>2, <2>2, <3>1, InvDisk, ReadHeap
    <3>3. mem.dentry[Root] \in Dentry /\ Top(mem.inode) \in Nat
      <4>1. Memory(mem) /\ Root \in DOMAIN mem.dentry
        BY <1>2 DEF Heap, HeapBut, Rooted
      <4> QED
        BY <4>1, DentryFields, MemoryFields
    <3>4. mem'.dentry[Root] = [mem.dentry[Root] EXCEPT !.inode = Top(mem.inode) + 1]
      BY <3>2 DEF Loaded
    <3>5. mem'.dentry[Root].inode # NULL
      BY <3>3, <3>4 DEF Dentry, NULL
    <3> QED
      BY <3>2, <3>5
  <2> QED
    BY <2>1, <2>2
<1>4. pc' \notin Umounting
  BY <1>1 DEF Umounting
<1>5. fault' \in Fault
  BY <1>1, FaultOfRead
<1> QED
  BY <1>1, <1>3, <1>4, <1>5 DEF HeapInv, Serving, Ready
-------------------------------------------------------------------------------
\* A call of sfs_sync_inode for the inode of something linked.
LEMMA FrameOf ==
    ASSUME NEW m, Heap(m), NEW d \in Linked(m), NEW i, i = m.dentry[d].inode, i # NULL
    PROVE  Stacked(m, <<Frame(i)>>)
<1>1. i \in DOMAIN m.inode
  BY LoadedAt
<1>2. Frame(i) \in [inode : DOMAIN m.inode, next : Nat] /\ Frame(i).inode = i
  BY <1>1 DEF Frame
<1>3. <<Frame(i)>> \in Seq([inode : DOMAIN m.inode, next : Nat]) /\ ToSet(<<Frame(i)>>) = {Frame(i)}
  BY <1>2, Single
<1> QED
  BY <1>2, <1>3 DEF Stacked

LEMMA StackedOn ==
    ASSUME NEW m, NEW s, NEW t, Stacked(m, s), Stacked(m, t)
    PROVE  Stacked(m, s \o t)
<1> DEFINE S == [inode : DOMAIN m.inode, next : Nat]
<1>1. s \in Seq(S) /\ t \in Seq(S)
  BY DEF Stacked
<1>2. Joined(S, s, t, s \o t)
  BY <1>1, InARow
<1>3. s \o t \in Seq(S) /\ ToSet(s \o t) = ToSet(s) \cup ToSet(t)
  BY <1>2 DEF Joined
<1> QED
  BY <1>3 DEF Stacked

\* Once a call has made a write, what is on the stack is still linked.
LEMMA RestStacked ==
    ASSUME Stacked(mem, work), work # <<>>
    PROVE  LET f == Head(work)
           IN  /\ Stacked(mem, Rest(f)) /\ f.inode \in DOMAIN mem.inode /\ f.next \in Nat
               /\ \E d \in Linked(mem) : mem.dentry[d].inode = f.inode
<1> DEFINE S == [inode : DOMAIN mem.inode, next : Nat]
<1> PICK f : f = Head(work)
  OBVIOUS
<1>0. f = Head(work) /\ work \in Seq(S)
  BY DEF Stacked
<1>1. f \in S /\ Tail(work) \in Seq(S) /\ ToSet(work) = {f} \cup ToSet(Tail(work))
  BY <1>0, FirstAndRest
<1>2. PICK d \in Linked(mem) : mem.dentry[d].inode = f.inode
  BY <1>1 DEF Stacked
<1>3. Stacked(mem, Tail(work))
  BY <1>1 DEF Stacked
<1> DEFINE g == [f EXCEPT !.next = f.next + 1]
<1>4. g \in S /\ g.inode = f.inode
  BY <1>1
<1>5. Stacked(mem, <<g>>)
  <2>1. <<g>> \in Seq(S) /\ ToSet(<<g>>) = {g}
    BY <1>4, Single
  <2> QED
    BY <1>2, <1>4, <2>1 DEF Stacked
<1>6. Stacked(mem, <<g>> \o Tail(work))
  BY <1>3, <1>5, StackedOn
<1>7. Rest(f) = IF f.next >= Writes(f.inode) THEN Tail(work) ELSE <<g>> \o Tail(work)
  BY DEF Rest
<1>8. Stacked(mem, Rest(f))
  BY <1>3, <1>6, <1>7
<1> QED
  BY <1>0, <1>1, <1>2, <1>8

LEMMA InvUmount ==
    ASSUME HeapInv, sfs_umount
    PROVE  HeapInv'
<1>1. /\ Serving /\ pc' = "sync" /\ work' = <<Frame(mem.dentry[Root].inode)>>
      /\ UNCHANGED <<mem, disk, fault, spoilt, live, durable, ops>>
  BY DEF sfs_umount
<1>2. Ready(mem) /\ Heap(mem) /\ mem.dentry[Root].inode # NULL
  BY <1>1 DEF HeapInv, Ready
<1>3. Stacked(mem', work')
  <2>1. Root \in Linked(mem)
    BY DEF Linked
  <2> QED
    BY <1>1, <1>2, <2>1, FrameOf
<1>4. pc' \in Umounting
  BY <1>1 DEF Umounting
<1> QED
  BY <1>1, <1>2, <1>3, <1>4 DEF HeapInv

\* A write of sfs_sync_inode.
LEMMA SyncStep ==
    ASSUME HeapInv, sfs_sync_inode
    PROVE  DiskIs(disk') /\ disk'.magic = disk.magic /\ disk'.map_inode = disk.map_inode
           /\ Stacked(mem, work')
<1>p. PICK f : f = Head(work)
  OBVIOUS
<1>1. /\ pc = "sync" /\ work # <<>> /\ f = Head(work)
      /\ WriteInode(f) \/ WriteDentry(f) \/ WriteData(f)
  BY <1>p DEF sfs_sync_inode
<1>2. Heap(mem) /\ Memory(mem) /\ Stacked(mem, work) /\ DiskIs(disk)
  BY <1>1 DEF HeapInv, Heap, HeapBut, DiskIs
<1>3. /\ Stacked(mem, Rest(f)) /\ f.inode \in DOMAIN mem.inode /\ f.next \in Nat
      /\ \E d \in Linked(mem) : mem.dentry[d].inode = f.inode
  BY <1>1, <1>2, RestStacked
<1>q. PICK i : i = f.inode
  OBVIOUS
<1>4. i = f.inode /\ mem.inode[i] \in Inode
  BY <1>2, <1>3, <1>q, InodeFields
<1>5. CASE WriteInode(f)
  <2>1. /\ sfs_driver_write(SFS_INO_OFS(mem.inode[i].ino), <<InodeD(mem.inode[i])>>)
        /\ work' = Rest(f)
    BY <1>4, <1>5 DEF WriteInode
  <2>2. InodeD(mem.inode[i]) \in DiskCell
    BY <1>4, CellsWritten
  <2>3. \A k \in DOMAIN <<InodeD(mem.inode[i])>> : <<InodeD(mem.inode[i])>>[k] \in DiskCell
    BY <2>2
  <2> QED
    BY <1>2, <1>3, <2>1, <2>3, WriteType
<1>6. CASE WriteDentry(f)
  <2>p. PICK d : d = mem.inode[i].dentrys[f.next]
    OBVIOUS
  <2>1. /\ Is(mem, i, "SFS_DIR") /\ f.next \in 1 .. Writes(i)
        /\ sfs_driver_write(SFS_DATA_OFS(mem.inode[i].ino) + f.next - 1, <<DentryD(mem.dentry[d])>>)
        /\ work' = (IF mem.dentry[d].inode = NULL THEN <<>> ELSE <<Frame(mem.dentry[d].inode)>>) \o Rest(f)
    BY <1>4, <1>6, <2>p DEF WriteDentry
  <2>2. d \in Linked(mem) /\ d \in DOMAIN mem.dentry
    <3>1. f.next \in DOMAIN mem.inode[i].dentrys
      <4>1. DOMAIN mem.inode[i].dentrys = 1 .. Len(mem.inode[i].dentrys)
        BY <1>2, <1>3, <1>4, InodeFields
      <4> QED
        BY <2>1, <4>1 DEF Writes
    <3>2. d \in Linked(mem)
      BY <1>3, <1>4, <2>p, <3>1, ListedIsLinked
    <3> QED
      BY <1>2, <3>2, LinkedFields DEF Heap
  <2>3. \A k \in DOMAIN <<DentryD(mem.dentry[d])>> : <<DentryD(mem.dentry[d])>>[k] \in DiskCell
    <3>1. mem.dentry[d] \in Dentry
      BY <1>2, <2>2, DentryFields
    <3>2. DentryD(mem.dentry[d]) \in DiskCell
      BY <3>1, CellsWritten
    <3> QED
      BY <3>2
  <2>4. Stacked(mem, work')
    <3>1. CASE mem.dentry[d].inode = NULL
      <4>1. Stacked(mem, <<>>)
        <5>1. ToSet(<<>>) = {}
          BY DEF ToSet
        <5> QED
          BY <5>1 DEF Stacked
      <4>2. work' = <<>> \o Rest(f)
        BY <2>1, <3>1
      <4> QED
        BY <1>3, <4>1, <4>2, StackedOn
    <3>2. CASE mem.dentry[d].inode # NULL
      <4>1. Stacked(mem, <<Frame(mem.dentry[d].inode)>>)
        BY <1>2, <2>2, <3>2, FrameOf
      <4>2. work' = <<Frame(mem.dentry[d].inode)>> \o Rest(f)
        BY <2>1, <3>2
      <4> QED
        BY <1>3, <4>1, <4>2, StackedOn
    <3> QED
      BY <3>1, <3>2
  <2> QED
    BY <1>2, <2>1, <2>3, <2>4, WriteType
<1>7. CASE WriteData(f)
  <2> DEFINE contents == [k \in 1 .. Cells |-> DataD(mem.inode[i].data[k])]
  <2>1. /\ Is(mem, i, "SFS_REG_FILE") /\ work' = Rest(f)
        /\ sfs_driver_write(SFS_DATA_OFS(mem.inode[i].ino), contents)
    BY <1>4, <1>7 DEF WriteData
  <2>2. Len(mem.inode[i].data) = Cells
    <3>1. PICK e \in Linked(mem) : mem.dentry[e].inode = i
      BY <1>3, <1>4
    <3>2. i # NULL
      BY <1>2, <1>3, <1>4, MemoryFields
    <3>3. e # NULL
      BY <1>2, LinkedFields DEF Heap
    <3> QED
      BY <1>2, <2>1, <3>1, <3>2, <3>3, LinkedFields DEF Heap
  <2>3. \A k \in 1 .. Cells : mem.inode[i].data[k] \in Byte \cup {Junk}
    <3>1. mem.inode[i].data \in Seq(Byte \cup {Junk})
      BY <1>2, <1>3, <1>4, InodeFields
    <3> QED
      BY <2>2, <3>1
  <2>4. \A k \in DOMAIN contents : contents[k] \in DiskCell
    BY <2>3, CellsWritten
  <2> HIDE DEF contents
  <2> QED
    BY <1>2, <1>3, <2>1, <2>4, WriteType
<1> QED
  BY <1>1, <1>5, <1>6, <1>7

LEMMA InvSync ==
    ASSUME HeapInv, sfs_sync_inode
    PROVE  HeapInv'
<1>1. pc = "sync" /\ UNCHANGED <<mem, pc, fault, spoilt, live, durable, ops>>
  BY DEF sfs_sync_inode
<1>2. DiskIs(disk') /\ disk'.magic = disk.magic /\ disk'.map_inode = disk.map_inode /\ Stacked(mem, work')
  BY SyncStep
<1> QED
  BY <1>1, <1>2 DEF HeapInv, DiskIs, Serving

LEMMA InvEnd ==
    ASSUME HeapInv, EndSync \/ WriteSuper
    PROVE  HeapInv'
<1>1. CASE EndSync
  <2>1. pc = "sync" /\ work = <<>> /\ pc' = "super"
        /\ UNCHANGED <<mem, disk, work, fault, spoilt, live, durable, ops>>
    BY <1>1 DEF EndSync
  <2> QED
    BY <2>1 DEF HeapInv, Serving, Umounting
<1>2. CASE WriteSuper
  <2>1. /\ pc = "super" /\ disk' = [disk EXCEPT !.magic = TRUE] /\ pc' = "map_inode"
        /\ UNCHANGED <<mem, work, fault, spoilt, live, durable, ops>>
    BY <1>2 DEF WriteSuper
  <2>2. DiskIs(disk)
    BY DEF HeapInv, DiskIs
  <2>3. DiskIs(disk') /\ disk'.magic = TRUE
    BY <2>1, <2>2 DEF DiskIs
  <2> QED
    BY <2>1, <2>3 DEF HeapInv, Serving, Umounting, DiskIs
<1> QED
  BY <1>1, <1>2

LEMMA InvExit ==
    ASSUME HeapInv, WriteMapInode \/ Crash
    PROVE  HeapInv'
<1>1. /\ mem' = NoMemory /\ work' = <<>> /\ fault' = "none" /\ pc' = "unmounted" /\ ops' = ops
  BY DEF WriteMapInode, Crash, Exit
<1>2. DiskIs(disk') /\ (~disk'.magic => disk'.map_inode = {})
  <2>1. DiskIs(disk)
    BY DEF HeapInv, DiskIs
  <2>2. CASE WriteMapInode
    <3>1. pc = "map_inode" /\ disk' = [disk EXCEPT !.map_inode = mem.map_inode]
      BY <2>2 DEF WriteMapInode
    <3>2. disk.magic /\ Memory(mem)
      BY <3>1 DEF HeapInv, Heap, HeapBut
    <3>3. mem.map_inode \in SUBSET Bit
      BY <3>2, MemoryFields
    <3> QED
      BY <2>1, <3>1, <3>2, <3>3 DEF DiskIs
  <2>3. CASE Crash
    BY <2>1, <2>3 DEF Crash, HeapInv
  <2> QED
    BY <2>2, <2>3
<1>3. spoilt' \subseteq Mishaps /\ Tree(live') /\ Tree(durable')
  <2>1. CASE WriteMapInode
    BY <2>1 DEF WriteMapInode, HeapInv
  <2>2. CASE Crash
    BY <2>2, Spoilt DEF Crash, HeapInv
  <2> QED
    BY <2>1, <2>2
<1>4. ~Serving' /\ pc' \notin Umounting
  BY <1>1 DEF Serving, Umounting
<1> QED
  BY <1>1, <1>2, <1>3, <1>4 DEF HeapInv, DiskIs, Fault

LEMMA InvInit ==
    ASSUME Init
    PROVE  HeapInv
<1>1. DiskIs(disk) /\ disk.map_inode = {}
  BY DEF Init, DiskIs, DiskCell
<1>2. Tree(live) /\ Tree(durable)
  BY DEF Init, Tree
<1> QED
  BY <1>1, <1>2 DEF Init, HeapInv, DiskIs, Fault, Serving, Umounting
-------------------------------------------------------------------------------
\* Every step keeps the invariant.
LEMMA InvNext ==
    ASSUME HeapInv, Next
    PROVE  HeapInv'
<1>1. ASSUME NEW path \in Path, Getattr(path) PROVE HeapInv'
  BY <1>1, InvGetattr
<1>2. ASSUME NEW path \in Path, sfs_mkdir(path) \/ sfs_mknod(path) PROVE HeapInv'
  <2>1. CASE sfs_mkdir(path)
    <3>1. Changing("mkdir") /\ Create(path, "SFS_DIR") /\ live' = With(live, path, Fresh("SFS_DIR"))
      BY <2>1 DEF sfs_mkdir
    <3>2. "SFS_DIR" \in FileType
      BY DEF FileType
    <3> QED
      BY <3>1, <3>2, InvCreate
  <2>2. CASE sfs_mknod(path)
    <3>1. /\ Changing("mknod") /\ Create(path, "SFS_REG_FILE")
          /\ live' = With(live, path, Fresh("SFS_REG_FILE"))
      BY <2>2 DEF sfs_mknod
    <3>2. "SFS_REG_FILE" \in FileType
      BY DEF FileType
    <3> QED
      BY <3>1, <3>2, InvCreate
  <2> QED
    BY <1>2, <2>1, <2>2
<1>3. ASSUME NEW path \in Path, sfs_unlink(path) \/ sfs_rmdir(path) PROVE HeapInv'
  <2>1. CASE sfs_unlink(path)
    <3>1. PICK ft : Changing("unlink") /\ Unlink(path, ft)
      BY <2>1 DEF sfs_unlink
    <3> QED
      BY <3>1, InvUnlink
  <2>2. CASE sfs_rmdir(path)
    <3>1. Changing("rmdir") /\ Unlink(path, "SFS_DIR")
      BY <2>2 DEF sfs_rmdir
    <3> QED
      BY <3>1, InvUnlink
  <2> QED
    BY <1>3, <2>1, <2>2
<1>4. ASSUME NEW path \in Path, NEW target \in Target, sfs_symlink(target, path) PROVE HeapInv'
  BY <1>4, InvSymlink
<1>5. ASSUME NEW path \in Path, NEW to \in Path, sfs_rename(path, to) PROVE HeapInv'
  BY <1>5, InvRename
<1>6. ASSUME NEW path \in Path, NEW offset \in 0 .. Cells, NEW n \in 1 .. Cells, NEW byte \in Byte,
             sfs_write(path, offset, n, byte)
      PROVE HeapInv'
  BY <1>6, InvWrite
<1>7. ASSUME NEW path \in Path, NEW size \in 0 .. Cells, sfs_truncate(path, size) PROVE HeapInv'
  BY <1>7, InvTruncate
<1>8. CASE FormatNew
  BY <1>8, InvFormatNew
<1>9. CASE MountOld
  BY <1>9, InvMountOld
<1>10. CASE ReadRoot
  BY <1>10, InvReadRoot
<1>11. CASE sfs_umount
  BY <1>11, InvUmount
<1>12. CASE sfs_sync_inode
  BY <1>12, InvSync
<1>13. CASE EndSync \/ WriteSuper
  BY <1>13, InvEnd
<1>14. CASE WriteMapInode \/ Crash
  BY <1>14, InvExit
<1> QED
  BY <1>1, <1>2, <1>3, <1>4, <1>5, <1>6, <1>7, <1>8, <1>9, <1>10, <1>11, <1>12, <1>13, <1>14 DEF Next

\* In every reachable state the heap is in order, on which the theorems below rest: each dentry is
\* in one list at most, what is linked is allocated, no two linked dentries share an inode, and an
\* inode leads back to a dentry that leads to it, after any calls, mounts and crashes.
THEOREM HeapIsInOrder == Spec => []HeapInv
<1>1. Init => HeapInv
  BY InvInit
<1>2. HeapInv /\ [Next]_vars => HeapInv'
  <2>1. ASSUME HeapInv, Next PROVE HeapInv'
    BY <2>1, InvNext
  <2>2. ASSUME HeapInv, UNCHANGED vars PROVE HeapInv'
    BY <2>2 DEF vars, HeapInv, Serving, Tree
  <2> QED
    BY <2>1, <2>2
<1> QED
  BY <1>1, <1>2, PTL DEF Spec

\* TypeOK holds in every reachable state of simplefs, for every size of the disk and of a slot.
THEOREM TypeCorrect == Spec => []TypeOK
<1>1. ASSUME HeapInv PROVE TypeOK
  <2>1. mem \in [dentry : [DOMAIN mem.dentry -> Dentry], inode : [DOMAIN mem.inode -> Inode],
                 map_inode : SUBSET Bit, max_ino : {0, MaxIno}]
    <3>1. CASE pc = "unmounted"
      <4>1. mem = [dentry |-> <<>>, inode |-> <<>>, map_inode |-> {}, max_ino |-> 0]
        BY <1>1, <3>1 DEF HeapInv, NoMemory
      <4>2. <<>> \in [DOMAIN <<>> -> Dentry] /\ <<>> \in [DOMAIN <<>> -> Inode]
        OBVIOUS
      <4> QED
        BY <4>1, <4>2
    <3>2. CASE pc # "unmounted"
      BY <1>1, <3>2 DEF HeapInv, Heap, HeapBut, Memory
    <3> QED
      BY <3>1, <3>2
  <2>2. work \in Seq([inode : DOMAIN mem.inode, next : Nat])
    <3>1. CASE pc = "sync"
      BY <1>1, <3>1 DEF HeapInv, Stacked
    <3>2. CASE pc # "sync"
      BY <1>1, <3>2 DEF HeapInv
    <3> QED
      BY <3>1, <3>2
  <2> QED
    BY <1>1, <2>1, <2>2 DEF TypeOK, HeapInv, Tree
<1> QED
  BY <1>1, HeapIsInOrder, PTL

\* HeapIsSound holds in every reachable state: whatever the handlers reach from the root has not
\* been freed, and the parent pointer of what is listed leads to the directory that lists it, so
\* that sfs_unlink and sfs_rename take it out of the right one.
THEOREM NothingFreedIsReached == Spec => []HeapIsSound
<1>1. ASSUME HeapInv, Serving
      PROVE  LET listed == {Root} \cup BelowInode(mem, mem.dentry[Root].inode)
             IN  /\ listed \subseteq DOMAIN mem.dentry
                 /\ \A d \in listed :
                       LET i == mem.dentry[d].inode
                       IN  i # NULL => i \in DOMAIN mem.inode /\ mem.inode[i].dentry \in DOMAIN mem.dentry
                 /\ \A d \in listed \ {Root} :
                       LET p == mem.dentry[d].parent
                       IN  /\ p \in DOMAIN mem.dentry /\ mem.dentry[p].inode \in DOMAIN mem.inode
                           /\ d \in ToSet(mem.inode[mem.dentry[p].inode].dentrys)
  <2> PICK r : r = mem.dentry[Root].inode
    OBVIOUS
  <2>1. Heap(mem) /\ r # NULL /\ r = mem.dentry[Root].inode
    BY <1>1 DEF HeapInv, Ready
  <2>2. Root \in Linked(mem) /\ r \in DOMAIN mem.inode
    <3>1. Root \in Linked(mem)
      BY DEF Linked
    <3> QED
      BY <2>1, <3>1, LoadedAt
  <2>3. ASSUME NEW d \in BelowInode(mem, r)
        PROVE  d \in Linked(mem) \ {Root} /\ \E j \in DOMAIN mem.inode : j \in Dropped(mem, r) /\ d \in List(mem, j)
    BY <2>1, <2>2, BelowLinked DEF Heap
  <2>4. ASSUME NEW d \in Linked(mem)
        PROVE  /\ d \in DOMAIN mem.dentry
               /\ mem.dentry[d].inode # NULL =>
                     LET i == mem.dentry[d].inode
                     IN  /\ i \in DOMAIN mem.inode /\ mem.inode[i].dentry \in DOMAIN mem.dentry
                         /\ mem.dentry[mem.inode[i].dentry].inode = i
    <3>1. d \in DOMAIN mem.dentry
      BY <2>1, LinkedFields DEF Heap
    <3>2. ASSUME NEW i, i = mem.dentry[d].inode, i # NULL
          PROVE  /\ i \in DOMAIN mem.inode /\ mem.inode[i].dentry \in DOMAIN mem.dentry
                 /\ mem.dentry[mem.inode[i].dentry].inode = i
      BY <2>1, <3>2, LoadedAt
    <3> QED
      BY <3>1, <3>2
  <2>5. ASSUME NEW d \in BelowInode(mem, r), NEW p, p = mem.dentry[d].parent
        PROVE  /\ p \in DOMAIN mem.dentry /\ mem.dentry[p].inode \in DOMAIN mem.inode
               /\ d \in ToSet(mem.inode[mem.dentry[p].inode].dentrys)
    <3>1. PICK j \in DOMAIN mem.inode : j \in Dropped(mem, r) /\ d \in List(mem, j)
      BY <2>3
    <3>2. j = r \/ \E e \in BelowInode(mem, r) : j = mem.dentry[e].inode
      BY <3>1 DEF Dropped
    <3>3. PICK e \in Linked(mem) : j = mem.dentry[e].inode
      BY <2>1, <2>2, <2>3, <3>2
    <3>4. j # NULL
      BY <2>1, <3>1, MemoryFields DEF Heap, HeapBut
    <3>5. mem.inode[j].dentry \in DOMAIN mem.dentry /\ mem.dentry[mem.inode[j].dentry].inode = j
      BY <2>4, <3>3, <3>4
    <3>6. p = mem.inode[j].dentry
      BY <2>1, <2>5, <3>1 DEF Heap, HeapBut, Parents
    <3> QED
      BY <3>1, <3>5, <3>6 DEF List
  <2> HIDE DEF Linked, BelowInode
  <2> QED
    BY <2>1, <2>2, <2>3, <2>4, <2>5
<1>2. HeapInv => HeapIsSound
  BY <1>1 DEF HeapIsSound
<1> QED
  BY <1>2, HeapIsInOrder, PTL
===============================================================================
