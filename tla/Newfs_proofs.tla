----------------------------- MODULE Newfs_proofs -----------------------------
(***************************************************************************)
(* Proofs about Newfs, for every set of names, every size of the two areas *)
(* and of a block, and any number of calls, mounts and crashes: types, and *)
(* ConfusedNeedsMishap with the invariant behind it.                       *)
(***************************************************************************)
EXTENDS Newfs, SequenceTheorems, WellFoundedInduction, TLAPS

USE AreaAssumption, CellsAssumption, BoundAssumption, MapBitsAssumption

\* A set of naturals that is not empty has a least member.
LEMMA Least ==
    ASSUME NEW S \in SUBSET Nat, S # {}
    PROVE  \E m \in S : \A n \in S : m <= n
<1>1. IsWellFoundedOn(OpToRel(<, Nat), Nat)
  BY NatLessThanWellFounded
<1> DEFINE R == OpToRel(<, Nat)
<1>2. \A x, y \in Nat : <<y, x>> \in R <=> y < x
  BY DEF OpToRel
<1> HIDE DEF R
<1>3. IsWellFoundedOn(R, Nat)
  BY <1>1 DEF R
<1>4. PICK m \in S : \A n \in S : <<n, m>> \notin R
  BY <1>3, WFMin
<1>5. ASSUME NEW n \in S PROVE m <= n
  <2>1. m \in Nat /\ n \in Nat /\ ~(n < m)
    BY <1>2, <1>4
  <2> QED
    BY <2>1
<1> QED
  BY <1>5

\* Min of the community modules, on the sets the model gives it.
LEMMA MinOf ==
    ASSUME NEW S \in SUBSET Nat, S # {}
    PROVE  Min(S) \in S /\ \A n \in S : Min(S) <= n
<1>1. \E m \in S : \A n \in S : m <= n
  BY Least
<1> QED
  BY <1>1 DEF Min

\* List r is s and then t.
Joined(S, s, t, r) ==
    /\ r \in Seq(S) /\ Len(r) = Len(s) + Len(t) /\ DOMAIN r = 1 .. Len(s) + Len(t)
    /\ \A k \in DOMAIN s : r[k] = s[k]
    /\ \A k \in DOMAIN t : r[Len(s) + k] = t[k]
    /\ ToSet(r) = ToSet(s) \cup ToSet(t)

\* Two lists in a row are so joined.
LEMMA InARow ==
    ASSUME NEW S, NEW s \in Seq(S), NEW t \in Seq(S)
    PROVE  Joined(S, s, t, s \o t)
<1> DEFINE r == s \o t
           m == Len(s)
           n == Len(t)
<1>1. /\ r \in Seq(S) /\ Len(r) = m + n
      /\ \A k \in 1 .. m + n : r[k] = IF k <= m THEN s[k] ELSE t[k - m]
  BY ConcatProperties
<1>2. m \in Nat /\ n \in Nat /\ DOMAIN s = 1 .. m /\ DOMAIN t = 1 .. n /\ DOMAIN r = 1 .. m + n
  BY <1>1, LenProperties
<1> HIDE DEF r, m, n
<1>3. \A k \in DOMAIN s : k \in DOMAIN r /\ r[k] = s[k]
  BY <1>1, <1>2
<1>4. ASSUME NEW k \in DOMAIN t PROVE m + k \in DOMAIN r /\ r[m + k] = t[k]
  <2>1. k \in 1 .. n
    BY <1>2
  <2>2. m + k \in 1 .. m + n /\ ~(m + k <= m) /\ (m + k) - m = k
    BY <1>2, <2>1
  <2> QED
    BY <1>1, <1>2, <2>2
<1>5. ASSUME NEW k \in DOMAIN r PROVE r[k] \in ToSet(s) \cup ToSet(t)
  <2>1. CASE k <= m
    <3>1. k \in DOMAIN s /\ r[k] = s[k]
      BY <1>1, <1>2, <2>1
    <3> QED
      BY <3>1 DEF ToSet
  <2>2. CASE ~(k <= m)
    <3>1. k - m \in DOMAIN t /\ r[k] = t[k - m]
      BY <1>1, <1>2, <2>2
    <3> QED
      BY <3>1 DEF ToSet
  <2> QED
    BY <2>1, <2>2
<1>6. ToSet(r) \subseteq ToSet(s) \cup ToSet(t)
  BY <1>5 DEF ToSet
<1>7. ToSet(s) \subseteq ToSet(r)
  BY <1>3 DEF ToSet
<1>8. ToSet(t) \subseteq ToSet(r)
  BY <1>4 DEF ToSet
<1> QED
  BY <1>1, <1>2, <1>3, <1>4, <1>6, <1>7, <1>8 DEF r, m, n, Joined

\* A list and one more.
LEMMA OneMore ==
    ASSUME NEW S, NEW s \in Seq(S), NEW x \in S
    PROVE  /\ Append(s, x) \in Seq(S) /\ Len(Append(s, x)) = Len(s) + 1
           /\ DOMAIN Append(s, x) = 1 .. Len(s) + 1
           /\ \A k \in DOMAIN s : Append(s, x)[k] = s[k]
           /\ Append(s, x)[Len(s) + 1] = x
<1>1. Len(s) \in Nat /\ DOMAIN s = 1 .. Len(s)
  BY LenProperties
<1>2. /\ Append(s, x) \in Seq(S) /\ Len(Append(s, x)) = Len(s) + 1
      /\ \A k \in 1 .. Len(s) : Append(s, x)[k] = s[k]
      /\ Append(s, x)[Len(s) + 1] = x
  BY AppendProperties
<1>3. DOMAIN Append(s, x) = 1 .. Len(s) + 1
  BY <1>2, LenProperties
<1> QED
  BY <1>1, <1>2, <1>3

\* A list turned round.
LEMMA TurnedRound ==
    ASSUME NEW S, NEW s \in Seq(S)
    PROVE  /\ Reverse(s) \in Seq(S) /\ Len(Reverse(s)) = Len(s)
           /\ DOMAIN Reverse(s) = 1 .. Len(s)
           /\ \A k \in 1 .. Len(s) : Reverse(s)[k] = s[Len(s) + 1 - k]
<1> DEFINE n == Len(s)
<1>1. n \in Nat /\ DOMAIN s = 1 .. n /\ s \in [1 .. n -> S]
  BY LenProperties
<1>2. Reverse(s) = [k \in 1 .. n |-> s[(n - k) + 1]]
  BY DEF Reverse
<1> HIDE DEF n
<1>3. \A k \in 1 .. n : (n - k) + 1 = n + 1 - k /\ n + 1 - k \in 1 .. n
  BY <1>1
<1>4. Reverse(s) \in [1 .. n -> S]
  BY <1>1, <1>2, <1>3
<1>5. Reverse(s) \in Seq(S)
  BY <1>1, <1>4, SeqDef
<1>6. Len(Reverse(s)) = n
  BY <1>1, <1>2, <1>5, LenProperties
<1> QED
  BY <1>2, <1>3, <1>5, <1>6 DEF n

\* A list of one.
LEMMA Single ==
    ASSUME NEW S, NEW x \in S
    PROVE  /\ <<x>> \in Seq(S) /\ Len(<<x>>) = 1 /\ DOMAIN <<x>> = {1}
           /\ <<x>>[1] = x /\ ToSet(<<x>>) = {x}
<1>1. <<x>> \in Seq(S) /\ Len(<<x>>) = 1 /\ <<x>>[1] = x
  OBVIOUS
<1>2. DOMAIN <<x>> = {1}
  BY <1>1
<1> QED
  BY <1>1, <1>2 DEF ToSet

\* The head and the tail of a list.
LEMMA FirstAndRest ==
    ASSUME NEW S, NEW s \in Seq(S), s # <<>>
    PROVE  /\ Head(s) \in S /\ Tail(s) \in Seq(S) /\ Len(Tail(s)) = Len(s) - 1
           /\ ToSet(s) = {Head(s)} \cup ToSet(Tail(s))
<1> DEFINE t == Tail(s)
           n == Len(s)
<1>1. /\ Head(s) \in S /\ t \in Seq(S) /\ Len(t) = n - 1
      /\ \A k \in 1 .. Len(t) : t[k] = s[k + 1]
  BY HeadTailProperties
<1>2. n \in Nat \ {0} /\ DOMAIN s = 1 .. n /\ DOMAIN t = 1 .. n - 1
  BY <1>1, LenProperties, EmptySeq
<1>3. Head(s) = s[1]
  OBVIOUS
<1> HIDE DEF t, n
<1>4. \A k \in DOMAIN s : k = 1 \/ (k - 1 \in DOMAIN t /\ s[k] = t[k - 1])
  BY <1>1, <1>2
<1>5. 1 \in DOMAIN s /\ \A k \in DOMAIN t : k + 1 \in DOMAIN s /\ t[k] = s[k + 1]
  BY <1>1, <1>2
<1>6. ToSet(s) \subseteq {s[1]} \cup ToSet(t)
  BY <1>4 DEF ToSet
<1>7. s[1] \in ToSet(s) /\ ToSet(t) \subseteq ToSet(s)
  BY <1>5 DEF ToSet
<1> QED
  BY <1>1, <1>3, <1>6, <1>7 DEF t, n
-------------------------------------------------------------------------------
\* Multiplication by a block length keeps order.
LEMMA Grows ==
    ASSUME NEW L \in Nat, NEW m \in Int, NEW n \in Int, m <= n
    PROVE  L * m <= L * n
<1>1. L * (n - m) >= 0
  OBVIOUS
<1>2. L * n = L * m + L * (n - m)
  OBVIOUS
<1> QED
  BY <1>1, <1>2

\* A place inside block m lies in front of all of a later block n.
LEMMA Earlier ==
    ASSUME NEW m \in Int, NEW n \in Int, m < n, NEW k \in 0 .. Cells - 1
    PROVE  m * Cells + k < n * Cells
<1>1. Cells * (m + 1) <= Cells * n
  BY Grows
<1>2. Cells * (m + 1) = m * Cells + Cells /\ Cells * n = n * Cells
  OBVIOUS
<1> QED
  BY <1>1, <1>2

\* Block and offset are known from the address.
LEMMA Apart ==
    ASSUME NEW m \in Int, NEW n \in Int, NEW k \in 0 .. Cells - 1, NEW l \in 0 .. Cells - 1,
           m * Cells + k = n * Cells + l
    PROVE  m = n /\ k = l
<1> DEFINE x == m * Cells
           y == n * Cells
<1>0. x \in Int /\ y \in Int
  OBVIOUS
<1>1. ~(m < n)
  <2> SUFFICES ASSUME m < n PROVE FALSE
    OBVIOUS
  <2>1. x + k < y
    BY Earlier
  <2> HIDE DEF x, y
  <2> QED
    BY <2>1, <1>0 DEF x, y
<1>2. ~(n < m)
  <2> SUFFICES ASSUME n < m PROVE FALSE
    OBVIOUS
  <2>1. y + l < x
    BY Earlier
  <2> HIDE DEF x, y
  <2> QED
    BY <2>1, <1>0 DEF x, y
<1>3. m = n
  BY <1>1, <1>2
<1>4. x + k = y + l /\ x = y
  BY <1>3
<1> HIDE DEF x, y
<1> QED
  BY <1>0, <1>3, <1>4

Ino   == 0 .. MaxIno - 1
Block == 0 .. MaxData - 1

\* The cells of the two areas: on the disk, and no two the same.
LEMMA Addresses ==
    /\ \A u \in Bit : INO_OFS(u) \in Address
    /\ \A b \in Bit, k \in 0 .. Cells - 1 : DENTRY_OFS(b) + k \in Address
<1> DEFINE z == MaxIno + MapBits + 1
<1>1. z \in Nat /\ z * Cells \in Nat
  OBVIOUS
<1>2. ASSUME NEW u \in Bit PROVE u * Cells \in Address
  <2>1. u \in Int /\ u < z /\ 0 \in 0 .. Cells - 1
    BY DEF Bit
  <2>2. u * Cells + 0 < z * Cells
    BY <2>1, <1>1, Earlier
  <2>3. u * Cells \in Nat
    BY DEF Bit
  <2> QED
    BY <1>1, <2>2, <2>3 DEF Address
<1>3. ASSUME NEW b \in Bit, NEW k \in 0 .. Cells - 1 PROVE (MaxIno + b) * Cells + k \in Address
  <2>1. MaxIno + b \in Nat /\ MaxIno + b < z
    BY DEF Bit
  <2>2. (MaxIno + b) * Cells + k < z * Cells
    BY <2>1, <1>1, Earlier
  <2>3. (MaxIno + b) * Cells \in Nat /\ (MaxIno + b) * Cells + k \in Nat
    BY <2>1
  <2> QED
    BY <1>1, <2>2, <2>3 DEF Address
<1> QED
  BY <1>2, <1>3 DEF INO_OFS, DENTRY_OFS

\* Two inodes in the same cell are the same inode.
LEMMA InodesApart ==
    ASSUME NEW u \in Int, NEW v \in Int, INO_OFS(u) = INO_OFS(v)
    PROVE  u = v
<1>1. 0 \in 0 .. Cells - 1
  OBVIOUS
<1>2. u * Cells + 0 = v * Cells + 0
  BY DEF INO_OFS
<1> QED
  BY <1>1, <1>2, Apart

\* The same cell of the data area is the same place of the same block.
LEMMA BlocksApart ==
    ASSUME NEW b \in Int, NEW c \in Int, NEW k \in 0 .. Cells - 1, NEW l \in 0 .. Cells - 1,
           DENTRY_OFS(b) + k = DENTRY_OFS(c) + l
    PROVE  b = c /\ k = l
<1> DEFINE m == MaxIno + b
           n == MaxIno + c
<1>1. m \in Int /\ n \in Int
  OBVIOUS
<1>2. m * Cells + k = n * Cells + l
  BY DEF DENTRY_OFS
<1> HIDE DEF m, n
<1>3. m = n /\ k = l
  BY <1>1, <1>2, Apart
<1> QED
  BY <1>3 DEF m, n

\* No inode of the inode area shares a cell with a block of the data area.
LEMMA AreasApart ==
    ASSUME NEW u \in Ino, NEW b \in Nat, NEW k \in 0 .. Cells - 1
    PROVE  INO_OFS(u) # DENTRY_OFS(b) + k
<1> DEFINE n == MaxIno + b
<1>1. u \in Int /\ n \in Int /\ u < n /\ 0 \in 0 .. Cells - 1
  BY DEF Ino
<1>2. u * Cells + 0 < n * Cells
  BY <1>1, Earlier
<1>3. u * Cells \in Int /\ n * Cells \in Int
  BY <1>1
<1> HIDE DEF n
<1> QED
  BY <1>1, <1>2, <1>3 DEF INO_OFS, DENTRY_OFS, n
-------------------------------------------------------------------------------
\* What a path is.
LEMMA PathType ==
    ASSUME NEW path \in Path
    PROVE  path \in Seq(Name) /\ Len(path) \in 1 .. MaxDepth /\ path # <<>>
           /\ Last(path) \in Name
<1>1. PICK k \in 1 .. MaxDepth : path \in [1 .. k -> Name]
  BY DEF Path
<1>2. path \in Seq(Name)
  BY <1>1, SeqDef
<1>3. Len(path) = k
  BY <1>1, <1>2, LenProperties
<1>4. path # <<>>
  BY <1>2, <1>3, EmptySeq
<1>5. Last(path) = path[k] /\ path[k] \in Name
  BY <1>1, <1>3 DEF Last
<1> QED
  BY <1>2, <1>3, <1>4, <1>5

\* What the dentries and inodes of the memory hold.
LEMMA DentryFields ==
    ASSUME TypeOK, NEW d \in DOMAIN dentry
    PROVE  /\ dentry[d] \in Dentry /\ dentry[d].ino \in BlockNo
           /\ dentry[d].file_type \in FileType
           /\ dentry[d].inode \in {NULL} \cup DOMAIN inode
           /\ d # Root => dentry[d].name \in Name
<1>0. dentry \in Seq(Dentry)
  BY DEF TypeOK
<1>1. dentry[d] \in Dentry
  BY <1>0, LenProperties, ElementOfSeq
<1>2. dentry[d].ino \in BlockNo /\ dentry[d].file_type \in FileType
  BY <1>1 DEF Dentry
<1>3. dentry[d].inode \in {NULL} \cup DOMAIN inode /\ (d # Root => dentry[d].name \in Name)
  BY DEF TypeOK
<1> QED
  BY <1>1, <1>2, <1>3

\* What the type says of one inode.
LEMMA InodeFields ==
    ASSUME TypeOK, NEW i \in DOMAIN inode
    PROVE  /\ inode[i] \in Inode /\ inode[i].ino \in BlockNo /\ inode[i].data_block_no \in BlockNo
           /\ inode[i].dentry \in DOMAIN dentry
           /\ inode[i].dentries \in Seq(DOMAIN dentry \ {Root})
           /\ inode[i].dir_dentry_cnt = Len(inode[i].dentries)
           /\ inode[i].dir_dentry_cnt \in 0 .. made
           /\ inode[i].dir_dentry_cnt \in 0 .. MaxMade
<1>0. inode \in Seq(Inode)
  BY DEF TypeOK
<1>1. inode[i] \in Inode
  BY <1>0, LenProperties, ElementOfSeq
<1>2. /\ inode[i].ino \in BlockNo /\ inode[i].data_block_no \in BlockNo
      /\ inode[i].dentries \in Seq(Nat \ {0})
      /\ inode[i].dir_dentry_cnt \in 0 .. MaxMade
  BY <1>1 DEF Inode
<1>3. /\ ToSet(inode[i].dentries) \subseteq DOMAIN dentry \ {Root}
      /\ inode[i].dentry \in DOMAIN dentry
      /\ inode[i].dir_dentry_cnt = Len(inode[i].dentries)
      /\ inode[i].dir_dentry_cnt <= made
      /\ made \in 0 .. MaxMade
  BY DEF TypeOK
<1>4. inode[i].dentries \in Seq(DOMAIN dentry \ {Root})
  <2> DEFINE s == inode[i].dentries
             n == Len(s)
  <2>1. n \in Nat /\ DOMAIN s = 1 .. n /\ s \in [1 .. n -> Nat \ {0}]
    BY <1>2, LenProperties
  <2>2. \A k \in 1 .. n : s[k] \in DOMAIN dentry \ {Root}
    BY <1>3, <2>1 DEF ToSet
  <2> HIDE DEF s, n
  <2>3. s \in [1 .. n -> DOMAIN dentry \ {Root}]
    BY <2>1, <2>2
  <2> QED
    BY <2>1, <2>3, SeqDef DEF s
<1> QED
  BY <1>1, <1>2, <1>3, <1>4

\* The two lists of the memory are indexed from 1.
LEMMA Domains ==
    ASSUME TypeOK
    PROVE  /\ Len(dentry) \in Nat /\ DOMAIN dentry = 1 .. Len(dentry)
           /\ Len(inode) \in Nat /\ DOMAIN inode = 1 .. Len(inode)
           /\ NULL \notin DOMAIN inode
<1>1. /\ Len(dentry) \in Nat /\ DOMAIN dentry = 1 .. Len(dentry)
      /\ Len(inode) \in Nat /\ DOMAIN inode = 1 .. Len(inode)
  BY LenProperties DEF TypeOK
<1> QED
  BY <1>1 DEF NULL
-------------------------------------------------------------------------------
(***************************************************************************)
(* lookup.  The walk exists: it is built one step at a time, and the least *)
(* number of steps at which it could not be built is none.                 *)
(***************************************************************************)
LEMMA WalkExists ==
    ASSUME NEW path, Len(path) \in Nat
    PROVE  \E w : /\ w = [k \in 0 .. Len(path) |->
                             IF k = 0 THEN WalkStart(path) ELSE Walk(w[k - 1], path[k])]
                  /\ lookup(path) = w[Len(path)]
<1> DEFINE Step(w, k) == IF k = 0 THEN WalkStart(path) ELSE Walk(w[k - 1], path[k])
           Built(w, n) == w = [k \in 0 .. n |-> Step(w, k)]
           S == {n \in Nat : ~ \E w : Built(w, n)}
<1>1. S = {}
  <2> SUFFICES ASSUME S # {} PROVE FALSE
    OBVIOUS
  <2>1. PICK n \in S : \A m \in S : n <= m
    BY Least
  <2>2. CASE n = 0
    <3> DEFINE w == [k \in 0 .. 0 |-> WalkStart(path)]
    <3>1. Built(w, 0)
      OBVIOUS
    <3> QED
      BY <2>1, <2>2, <3>1
  <2>3. CASE n > 0
    <3> HIDE DEF Built
    <3>0. n \in Nat /\ n - 1 \in Nat /\ ~(n <= n - 1)
      BY <2>1, <2>3
    <3>1. n - 1 \in Nat /\ n - 1 \notin S
      BY <2>1, <3>0
    <3>2. PICK v : Built(v, n - 1)
      BY <3>1
    <3> USE DEF Built
    <3> DEFINE w == [k \in 0 .. n |-> IF k = n THEN Walk(v[n - 1], path[n]) ELSE v[k]]
    <3>3. w[n - 1] = v[n - 1] /\ w[n] = Walk(v[n - 1], path[n])
      BY <3>0
    <3>4. ASSUME NEW k \in 0 .. n PROVE w[k] = Step(w, k)
      <4>1. CASE k = n
        BY <4>1, <3>3, <2>3
      <4>2. CASE k # n
        <5>1. k \in 0 .. n - 1 /\ w[k] = v[k] /\ v[k] = Step(v, k)
          BY <4>2, <3>2, <3>0
        <5>2. CASE k = 0
          BY <5>1, <5>2
        <5>3. CASE k # 0
          <6>1. k - 1 \in 0 .. n /\ k - 1 # n
            BY <5>1, <5>3, <3>0
          <6>2. w[k - 1] = v[k - 1]
            BY <6>1
          <6> QED
            BY <5>1, <5>3, <6>2
        <5> QED
          BY <5>2, <5>3
      <4> QED
        BY <4>1, <4>2
    <3>5. Built(w, n)
      <4>1. w = [k \in 0 .. n |-> w[k]]
        OBVIOUS
      <4> HIDE DEF w, Step
      <4> QED
        BY <3>4, <4>1
    <3> HIDE DEF w, Built
    <3> QED
      BY <2>1, <3>5
  <2> QED
    BY <2>1, <2>2, <2>3
<1>2. \E w : Built(w, Len(path))
  BY <1>1
<1> DEFINE walk == CHOOSE w : Built(w, Len(path))
<1>3. Built(walk, Len(path))
  BY <1>2
<1>4. lookup(path) = walk[Len(path)]
  BY DEF lookup
<1> HIDE DEF walk
<1> QED
  BY <1>3, <1>4
-------------------------------------------------------------------------------
\* How far a walk may be.
Reach == [cur : DOMAIN dentry, ret : DOMAIN dentry, find : SUBSET BOOLEAN, lvl : Nat,
          total : Nat, stop : BOOLEAN, null : BOOLEAN]

\* A hit is a place in the list, and so is the least of them.
LEMMA HitType ==
    ASSUME TypeOK, NEW i \in DOMAIN inode, NEW fname, Hits(inode[i], fname) # {}
    PROVE  inode[i].dentries[Min(Hits(inode[i], fname))] \in DOMAIN dentry \ {Root}
<1> DEFINE s == inode[i].dentries
           h == Hits(inode[i], fname)
<1>1. s \in Seq(DOMAIN dentry \ {Root})
  BY InodeFields
<1>2. DOMAIN s = 1 .. Len(s) /\ Len(s) \in Nat
  BY <1>1, LenProperties
<1>3. h \subseteq DOMAIN s
  BY DEF Hits
<1>4. h \in SUBSET Nat
  BY <1>2, <1>3
<1>5. Min(h) \in h
  BY <1>4, MinOf
<1> HIDE DEF s, h
<1>6. Min(h) \in 1 .. Len(s)
  BY <1>2, <1>3, <1>5
<1> QED
  BY <1>1, <1>6, ElementOfSeq DEF s, h

\* One component of the walk stays within the memory.
LEMMA WalkType ==
    ASSUME TypeOK, NEW acc \in Reach, NEW fname
    PROVE  Walk(acc, fname) \in Reach
<1> DEFINE i == dentry[acc.cur].inode
           hit == Hits(inode[i], fname)
<1>1. acc.cur \in DOMAIN dentry /\ acc.lvl + 1 \in Nat
  BY DEF Reach
<1>2. i = NULL \/ i \in DOMAIN inode
  BY <1>1, DentryFields
<1>3. i \in DOMAIN inode => /\ inode[i].dentry \in DOMAIN dentry
                            /\ hit # {} => inode[i].dentries[Min(hit)] \in DOMAIN dentry
  BY InodeFields, HitType
<1>4. BOOLEAN \in SUBSET BOOLEAN /\ {FALSE} \in SUBSET BOOLEAN /\ {TRUE} \in SUBSET BOOLEAN
  OBVIOUS
<1> DEFINE N1 == [acc EXCEPT !.stop = TRUE, !.null = TRUE]
           N2 == [acc EXCEPT !.stop = TRUE, !.find = BOOLEAN,
                         !.ret = IF acc.lvl + 1 < acc.total THEN inode[i].dentry ELSE @]
           N3 == [acc EXCEPT !.stop = TRUE, !.find = {FALSE}, !.ret = inode[i].dentry]
           N4 == [acc EXCEPT !.stop = TRUE, !.find = {TRUE}, !.ret = inode[i].dentries[Min(hit)]]
           N5 == [acc EXCEPT !.lvl = acc.lvl + 1, !.cur = inode[i].dentries[Min(hit)],
                             !.ret = inode[i].dentry]
<1>5. \/ Walk(acc, fname) = acc
      \/ Walk(acc, fname) = N1
      \/ i # NULL /\ Walk(acc, fname) \in {N2, N3}
      \/ i # NULL /\ hit # {} /\ Walk(acc, fname) \in {N4, N5}
  BY DEF Walk
<1>6. N1 \in Reach
  BY DEF Reach
<1>7. i \in DOMAIN inode => N2 \in Reach /\ N3 \in Reach
  BY <1>3, <1>4 DEF Reach
<1>8. i \in DOMAIN inode /\ hit # {} => N4 \in Reach /\ N5 \in Reach
  BY <1>1, <1>3, <1>4 DEF Reach
<1> HIDE DEF i, hit, N1, N2, N3, N4, N5
<1> QED
  BY <1>2, <1>5, <1>6, <1>7, <1>8

\* lookup ends at a dentry of the memory.
LEMMA LookupType ==
    ASSUME TypeOK, Root \in DOMAIN dentry, NEW path \in Path \cup {<<>>}
    PROVE  lookup(path) \in Reach
<1>1. Len(path) \in Nat
  BY PathType
<1>2. PICK w : /\ w = [k \in 0 .. Len(path) |->
                          IF k = 0 THEN WalkStart(path) ELSE Walk(w[k - 1], path[k])]
               /\ lookup(path) = w[Len(path)]
  BY <1>1, WalkExists
<1> DEFINE S == {k \in 0 .. Len(path) : w[k] \notin Reach}
<1>3. WalkStart(path) \in Reach
  BY <1>1 DEF WalkStart, Reach
<1>4. w[0] = WalkStart(path)
  BY <1>1, <1>2
<1>5. \A k \in 1 .. Len(path) : w[k] = Walk(w[k - 1], path[k])
  BY <1>1, <1>2
<1>6. S = {}
  <2> SUFFICES ASSUME S # {} PROVE FALSE
    OBVIOUS
  <2>1. PICK k \in S : \A n \in S : k <= n
    <3>1. S \in SUBSET Nat
      BY <1>1
    <3> QED
      BY <3>1, Least
  <2>2. k # 0
    BY <2>1, <1>3, <1>4
  <2>3. k \in 1 .. Len(path) /\ k - 1 \in 0 .. Len(path) /\ ~(k <= k - 1)
    BY <2>1, <2>2, <1>1
  <2>4. w[k - 1] \in Reach
    BY <2>1, <2>3
  <2>5. w[k] \in Reach
    BY <2>3, <2>4, <1>5, WalkType
  <2> QED
    BY <2>1, <2>5
<1>7. Len(path) \in 0 .. Len(path) /\ Len(path) \notin S
  BY <1>1, <1>6
<1>8. w[Len(path)] \in Reach
  BY <1>7
<1>9. lookup(path) = w[Len(path)]
  BY <1>2
<1> QED
  BY <1>8, <1>9
-------------------------------------------------------------------------------
SuperType == [max_ino : {0, MaxIno}, max_data : {0, MaxData},
              map_inode : SUBSET Bit, map_data : SUBSET Bit]

\* What a scan of a bitmap finds was clear and is marked now.
LEMMA ScanResult ==
    ASSUME NEW map \in SUBSET Bit, NEW max, NEW r \in Scan(map, max)
    PROVE  /\ r.map \in SUBSET Bit /\ map \subseteq r.map /\ r.no \in BlockNo
           /\ r.no # None => r.no \in Bit \ map /\ r.no \in r.map
<1>1. CASE Bit \subseteq map
  BY <1>1 DEF Scan, BlockNo
<1>2. CASE ~(Bit \subseteq map)
  <2>1. PICK b \in Bit : /\ IsFirstZero(map, b)
                         /\ r = [map |-> map \cup {b}, no |-> IF b = max THEN None ELSE b]
    BY <1>2 DEF Scan
  <2>2. b \in Bit \ map
    BY <2>1 DEF IsFirstZero
  <2> QED
    BY <2>1, <2>2 DEF BlockNo
<1> QED
  BY <1>1, <1>2

\* allocate_inode hands out numbers that were clear and marks them.
LEMMA AllocResult ==
    ASSUME NEW s \in SuperType, NEW ft \in FileType, NEW a \in allocate_inode(s, ft)
    PROVE  /\ a.super \in SuperType /\ a.ino \in BlockNo /\ a.block \in BlockNo
           /\ s.map_inode \subseteq a.super.map_inode /\ s.map_data \subseteq a.super.map_data
           /\ a.ino # None => a.ino \in Bit \ s.map_inode /\ a.ino \in a.super.map_inode
           /\ a.block # None => /\ ft = "NFS_DIR" /\ a.block \in Bit \ s.map_data
                                /\ a.block \in a.super.map_data
<1>1. s.map_inode \in SUBSET Bit /\ s.map_data \in SUBSET Bit
  BY DEF SuperType
<1>2. PICK r \in Scan(s.map_inode, s.max_ino) :
         a \in IF ft = "NFS_DIR" /\ r.no # None
               THEN {[ino |-> r.no, block |-> b.no,
                      super |-> [s EXCEPT !.map_inode = r.map, !.map_data = b.map]] :
                        b \in Scan(s.map_data, s.max_data)}
               ELSE {[ino |-> r.no, block |-> None, super |-> [s EXCEPT !.map_inode = r.map]]}
  BY DEF allocate_inode
<1>3. /\ r.map \in SUBSET Bit /\ s.map_inode \subseteq r.map /\ r.no \in BlockNo
      /\ r.no # None => r.no \in Bit \ s.map_inode /\ r.no \in r.map
  BY <1>1, ScanResult
<1>4. CASE ft = "NFS_DIR" /\ r.no # None
  <2>1. PICK b \in Scan(s.map_data, s.max_data) :
           a = [ino |-> r.no, block |-> b.no,
                super |-> [s EXCEPT !.map_inode = r.map, !.map_data = b.map]]
    BY <1>2, <1>4
  <2>2. /\ b.map \in SUBSET Bit /\ s.map_data \subseteq b.map /\ b.no \in BlockNo
        /\ b.no # None => b.no \in Bit \ s.map_data /\ b.no \in b.map
    BY <1>1, ScanResult
  <2>3. /\ a.super \in SuperType
        /\ a.super.map_inode = r.map /\ a.super.map_data = b.map
    BY <1>3, <2>1, <2>2 DEF SuperType
  <2> QED
    BY <1>3, <1>4, <2>1, <2>2, <2>3
<1>5. CASE ~(ft = "NFS_DIR" /\ r.no # None)
  <2>1. a = [ino |-> r.no, block |-> None, super |-> [s EXCEPT !.map_inode = r.map]]
    BY <1>2, <1>5
  <2>2. a.super \in SuperType /\ a.super.map_inode = r.map /\ a.super.map_data = s.map_data
    BY <1>3, <2>1 DEF SuperType
  <2> QED
    BY <1>3, <2>1, <2>2 DEF BlockNo
<1> QED
  BY <1>4, <1>5
-------------------------------------------------------------------------------
\* The first part of TypeOK, of dentries D and inodes I of at most n children.
MemoryType(D, I, n) ==
    /\ D \in Seq(Dentry) /\ I \in Seq(Inode)
    /\ \A d \in DOMAIN D : D[d].inode \in {NULL} \cup DOMAIN I
    /\ \A d \in DOMAIN D : d # Root => D[d].name \in Name
    /\ \A i \in DOMAIN I : I[i].dentry \in DOMAIN D
    /\ \A i \in DOMAIN I : ToSet(I[i].dentries) \subseteq DOMAIN D \ {Root}
    /\ \A i \in DOMAIN I : I[i].dir_dentry_cnt = Len(I[i].dentries)
    /\ \A i \in DOMAIN I : I[i].dir_dentry_cnt <= n

\* The type invariant with the memory's part under one name.
LEMMA MemoryIsTyped == TypeOK <=>
    /\ MemoryType(dentry, inode, made)
    /\ super \in SuperType
    /\ disk \in [magic : BOOLEAN, map_inode : SUBSET Bit, map_data : SUBSET Bit,
                 cell : [Address -> DiskCell]]
    /\ \A a \in Address : Holds(a, "inode") => disk.cell[a].dir_dentry_cnt <= made
    /\ pc \in {"unmounted", "read_root", "mounted"} \cup Destroying
    /\ work \in Seq([inode : DOMAIN inode, next : Nat])
    /\ ls \in [on : BOOLEAN, path : Path \cup {<<>>}, offset : 0 .. made,
               had : SUBSET Name, seen : SUBSET Name]
    /\ confused \in BOOLEAN /\ spoilt \subseteq Mishap
    /\ live \subseteq Path \X FileType /\ durable \subseteq Path \X FileType
    /\ made \in 0 .. MaxMade
  BY DEF TypeOK, MemoryType, SuperType

\* An empty memory, and one with the root's dentry alone.
LEMMA EmptyMemory ==
    /\ MemoryType(<<>>, <<>>, made)
    /\ MemoryType(<<RootDentry>>, <<>>, made)
<1>1. DOMAIN <<>> = {} /\ \A S : <<>> \in Seq(S)
  OBVIOUS
<1>2. 0 \in BlockNo
  BY DEF BlockNo, Bit
<1>3. RootDentry \in Dentry
  BY <1>2 DEF RootDentry, Dentry, FileType, NULL
<1>4. /\ <<RootDentry>> \in Seq(Dentry) /\ DOMAIN <<RootDentry>> = {1}
      /\ <<RootDentry>>[1] = RootDentry
  BY <1>3, Single
<1>5. RootDentry.inode = NULL
  BY DEF RootDentry
<1> QED
  BY <1>1, <1>4, <1>5 DEF MemoryType, Root

\* What a cell of the disk holds.
LEMMA CellFields ==
    ASSUME TypeOK, NEW a \in Address
    PROVE  /\ disk.cell[a] \in DiskCell
           /\ disk.cell[a].type = "inode" =>
                 /\ disk.cell[a].ino \in BlockNo /\ disk.cell[a].data_block_no \in BlockNo
                 /\ disk.cell[a].dir_dentry_cnt \in 0 .. MaxMade
                 /\ disk.cell[a].dir_dentry_cnt \in 0 .. made
           /\ disk.cell[a].type = "dentry" =>
                 /\ disk.cell[a].name \in Name /\ disk.cell[a].ino \in BlockNo
                 /\ disk.cell[a].file_type \in FileType
<1> DEFINE c == disk.cell[a]
<1>1. disk.cell \in [Address -> DiskCell]
  BY MemoryIsTyped
<1>2. c \in DiskCell
  BY <1>1
<1>3. Holds(a, "inode") => c.dir_dentry_cnt <= made
  BY MemoryIsTyped
<1>4. made \in 0 .. MaxMade
  BY MemoryIsTyped
<1>5. c.type = "inode" => c \in [type : {"inode"}, ino : BlockNo, dir_dentry_cnt : 0 .. MaxMade,
                                 data_block_no : BlockNo]
  <2> HIDE DEF c
  <2> QED
    BY <1>2 DEF DiskCell, Zero
<1>6. c.type = "dentry" => c \in [type : {"dentry"}, name : Name, ino : BlockNo,
                                  file_type : FileType]
  <2> HIDE DEF c
  <2> QED
    BY <1>2 DEF DiskCell, Zero
<1>7. c.type = "inode" => Holds(a, "inode")
  BY DEF Holds
<1> HIDE DEF c
<1>8. c.type = "inode" => /\ c.ino \in BlockNo /\ c.data_block_no \in BlockNo
                          /\ c.dir_dentry_cnt \in 0 .. MaxMade
  BY <1>5
<1>9. c.type = "inode" => c.dir_dentry_cnt \in 0 .. made
  BY <1>3, <1>4, <1>7, <1>8
<1>10. c.type = "dentry" => c.name \in Name /\ c.ino \in BlockNo /\ c.file_type \in FileType
  BY <1>6
<1> QED
  BY <1>2, <1>8, <1>9, <1>10 DEF c

\* The dentry read from the kth place of d's directory.
ReadDentry(d, k) ==
    LET c == disk.cell[DENTRY_OFS(OnDisk(d).data_block_no) + k - 1]
    IN  [name |-> c.name, ino |-> c.ino, file_type |-> c.file_type, inode |-> NULL]

\* The dentries read_inode finds on the disk have a dentry's type.
LEMMA ReadKids ==
    ASSUME TypeOK, NEW d \in DOMAIN dentry, Readable(dentry[d])
    PROVE  /\ OnDisk(dentry[d]).ino \in BlockNo /\ OnDisk(dentry[d]).data_block_no \in BlockNo
           /\ OnDisk(dentry[d]).type = "inode"
           /\ ChildCount(dentry[d]) \in 0 .. made /\ ChildCount(dentry[d]) \in 0 .. MaxMade
           /\ \A k \in 1 .. ChildCount(dentry[d]) :
                 /\ ReadDentry(dentry[d], k) \in Dentry
                 /\ ReadDentry(dentry[d], k).name \in Name
<1> DEFINE e == dentry[d]
           u == e.ino
           c == disk.cell[INO_OFS(u)]
           n == ChildCount(e)
<1>1. INO_OFS(u) \in Address /\ c.type = "inode"
  BY DEF Readable, Holds
<1>2. /\ c.ino \in BlockNo /\ c.data_block_no \in BlockNo
      /\ c.dir_dentry_cnt \in 0 .. MaxMade /\ c.dir_dentry_cnt \in 0 .. made
  BY <1>1, CellFields
<1>3. OnDisk(e) = c
  BY DEF OnDisk
<1>4. made \in 0 .. MaxMade
  BY MemoryIsTyped
<1>5. n \in 0 .. made /\ n \in 0 .. MaxMade
  BY <1>2, <1>3, <1>4 DEF ChildCount
<1>6. ASSUME NEW k \in 1 .. n PROVE ReadDentry(e, k) \in Dentry /\ ReadDentry(e, k).name \in Name
  <2> DEFINE a == DENTRY_OFS(c.data_block_no) + k - 1
             x == disk.cell[a]
  <2>1. n # 0
    BY <1>5
  <2>2. e.file_type = "NFS_DIR" /\ c.data_block_no # None /\ n = c.dir_dentry_cnt
    BY <1>3, <2>1 DEF ChildCount
  <2>3. k - 1 \in 0 .. c.dir_dentry_cnt - 1
    BY <1>2, <2>2
  <2>4. DENTRY_OFS(c.data_block_no) + (k - 1) \in ChildCells(c)
    BY <2>2, <2>3 DEF ChildCells
  <2>5. DENTRY_OFS(c.data_block_no) + (k - 1) = a
    <3>1. c.data_block_no \in Int
      BY <1>2 DEF BlockNo, Bit, None
    <3> QED
      BY <3>1 DEF DENTRY_OFS
  <2>6. Holds(a, "dentry")
    BY <2>2, <2>4, <2>5 DEF Readable
  <2>7. a \in Address /\ x.type = "dentry"
    BY <2>6 DEF Holds
  <2>8. x.name \in Name /\ x.ino \in BlockNo /\ x.file_type \in FileType
    BY <2>7, CellFields
  <2>9. ReadDentry(e, k) = [name |-> x.name, ino |-> x.ino, file_type |-> x.file_type,
                            inode |-> NULL]
    BY <1>3 DEF ReadDentry
  <2> HIDE DEF e, c, n, a, x
  <2> QED
    BY <2>8, <2>9 DEF Dentry, NULL
<1> QED
  BY <1>1, <1>2, <1>3, <1>5, <1>6
\* What read_inode leaves in memory m: dentry d has its inode, the last one, and
\* its n children lie behind the N dentries there were, in the order of the disk.
ReadWell(m, d, n, new, N) ==
    /\ m.confused = FALSE
    /\ m.dentry \in Seq(Dentry) /\ Len(m.dentry) = N + n
    /\ m.dentry[d] = [dentry[d] EXCEPT !.inode = new]
    /\ \A e \in DOMAIN dentry \ {d} : m.dentry[e] = dentry[e]
    /\ \A k \in 1 .. n : m.dentry[N + k] = ReadDentry(dentry[d], k)
    /\ m.inode \in Seq(Inode) /\ Len(m.inode) = new
    /\ \A i \in DOMAIN inode : m.inode[i] = inode[i]
    /\ m.inode[new].ino = OnDisk(dentry[d]).ino /\ m.inode[new].dentry = d
    /\ m.inode[new].data_block_no = OnDisk(dentry[d]).data_block_no
    /\ m.inode[new].dir_dentry_cnt = n /\ Len(m.inode[new].dentries) = n
    /\ DOMAIN m.inode[new].dentries = 1 .. n
    /\ \A k \in 1 .. n : m.inode[new].dentries[k] = N + n + 1 - k

\* read_inode does so, when the bytes are what it takes them for.
LEMMA ReadResult ==
    ASSUME TypeOK, NEW d \in DOMAIN dentry, Readable(dentry[d]), NEW m, m = read_inode(d),
           NEW n, n = ChildCount(dentry[d]), NEW new, new = Len(inode) + 1,
           NEW N, N = Len(dentry)
    PROVE  ReadWell(m, d, n, new, N)
<1> DEFINE kids == ChildrenOnDisk(dentry[d])
           places == [k \in DOMAIN kids |-> Len(dentry) + k]
           D1 == [dentry EXCEPT ![d].inode = new]
           i == [ino |-> OnDisk(dentry[d]).ino, dentry |-> d, dir_dentry_cnt |-> Len(kids),
                 dentries |-> Reverse(places),
                 data_block_no |-> OnDisk(dentry[d]).data_block_no]
<1>1. /\ N \in Nat /\ DOMAIN dentry = 1 .. N /\ dentry \in Seq(Dentry)
      /\ Len(inode) \in Nat /\ inode \in Seq(Inode) /\ DOMAIN inode = 1 .. Len(inode)
  BY Domains, MemoryIsTyped DEF MemoryType
<1>2. /\ OnDisk(dentry[d]).ino \in BlockNo /\ OnDisk(dentry[d]).data_block_no \in BlockNo
      /\ n \in 0 .. MaxMade
      /\ \A k \in 1 .. n : ReadDentry(dentry[d], k) \in Dentry
  BY ReadKids
<1>3. kids = [k \in 1 .. n |-> ReadDentry(dentry[d], k)]
  BY DEF ChildrenOnDisk, ReadDentry
<1>4. kids \in Seq(Dentry) /\ Len(kids) = n /\ DOMAIN kids = 1 .. n
  <2>1. n \in Nat
    BY <1>2
  <2>2. kids \in [1 .. n -> Dentry]
    BY <1>2, <1>3
  <2> HIDE DEF kids
  <2>3. kids \in Seq(Dentry)
    BY <2>1, <2>2, SeqDef
  <2> QED
    BY <2>1, <2>2, <2>3, LenProperties
<1>5. places \in Seq(Nat \ {0}) /\ Len(places) = n /\ \A k \in 1 .. n : places[k] = N + k
  <2>1. n \in Nat /\ places = [k \in 1 .. n |-> N + k]
    BY <1>2, <1>4
  <2>2. places \in [1 .. n -> Nat \ {0}]
    BY <1>1, <2>1
  <2> HIDE DEF places, kids
  <2>3. places \in Seq(Nat \ {0})
    BY <2>1, <2>2, SeqDef
  <2>4. DOMAIN places = 1 .. Len(places) /\ Len(places) \in Nat /\ DOMAIN places = 1 .. n
    BY <2>2, <2>3, LenProperties
  <2> QED
    BY <2>1, <2>3, <2>4
<1> HIDE DEF kids, places
<1>6. /\ Reverse(places) \in Seq(Nat \ {0}) /\ Len(Reverse(places)) = n
      /\ DOMAIN Reverse(places) = 1 .. n
      /\ \A k \in 1 .. n : Reverse(places)[k] = N + n + 1 - k
  <2>1. /\ Reverse(places) \in Seq(Nat \ {0}) /\ Len(Reverse(places)) = n
        /\ DOMAIN Reverse(places) = 1 .. n
        /\ \A k \in 1 .. n : Reverse(places)[k] = places[n + 1 - k]
    BY <1>5, TurnedRound
  <2>2. n \in Nat
    BY <1>2
  <2>3. \A k \in 1 .. n : n + 1 - k \in 1 .. n /\ N + (n + 1 - k) = N + n + 1 - k
    BY <1>1, <2>2
  <2> QED
    BY <1>5, <2>1, <2>3
<1>7. i \in Inode
  <2>1. d \in Nat \ {0}
    BY <1>1
  <2> QED
    BY <1>2, <1>4, <1>6, <2>1 DEF Inode
<1>8. /\ D1 \in Seq(Dentry) /\ Len(D1) = N
      /\ D1[d] = [dentry[d] EXCEPT !.inode = new]
      /\ \A e \in DOMAIN dentry \ {d} : D1[e] = dentry[e]
  <2> DEFINE x == [dentry[d] EXCEPT !.inode = new]
  <2>1. dentry[d] \in Dentry /\ new \in Nat
    BY <1>1, DentryFields
  <2>2. x \in Dentry
    BY <2>1 DEF Dentry
  <2>3. D1 = [dentry EXCEPT ![d] = x]
    OBVIOUS
  <2> HIDE DEF x, D1
  <2>4. d \in 1 .. Len(dentry)
    BY <1>1
  <2> QED
    BY <1>1, <2>2, <2>3, <2>4, ExceptSeq DEF x
<1> HIDE DEF D1, i
<1>9. m.dentry = D1 \o kids /\ m.inode = Append(inode, i) /\ m.confused = FALSE
  BY DEF read_inode, D1, i, kids, places
<1>10. /\ D1 \o kids \in Seq(Dentry) /\ Len(D1 \o kids) = N + n
       /\ \A e \in DOMAIN dentry : (D1 \o kids)[e] = D1[e]
       /\ \A k \in 1 .. n : (D1 \o kids)[N + k] = kids[k]
  <2>1. DOMAIN D1 = DOMAIN dentry
    BY <1>1, <1>8, LenProperties
  <2>2. /\ D1 \o kids \in Seq(Dentry) /\ Len(D1 \o kids) = Len(D1) + Len(kids)
        /\ \A e \in DOMAIN D1 : (D1 \o kids)[e] = D1[e]
        /\ \A k \in DOMAIN kids : (D1 \o kids)[Len(D1) + k] = kids[k]
    <3>1. D1 \in Seq(Dentry) /\ kids \in Seq(Dentry)
      BY <1>4, <1>8
    <3>2. Joined(Dentry, D1, kids, D1 \o kids)
      BY <3>1, InARow
    <3> QED
      BY <3>2 DEF Joined
  <2> QED
    BY <1>4, <1>8, <2>1, <2>2
<1>11. \A k \in 1 .. n : kids[k] = ReadDentry(dentry[d], k)
  BY <1>3
<1>12. /\ Append(inode, i) \in Seq(Inode) /\ Len(Append(inode, i)) = new
       /\ \A j \in DOMAIN inode : Append(inode, i)[j] = inode[j]
       /\ Append(inode, i)[new] = i
  BY <1>1, <1>7, OneMore
<1>13. /\ m.inode \in Seq(Inode) /\ Len(m.inode) = new
       /\ \A j \in DOMAIN inode : m.inode[j] = inode[j]
       /\ m.inode[new] = i
  BY <1>9, <1>12
<1>14. /\ i.ino = OnDisk(dentry[d]).ino /\ i.dentry = d
       /\ i.data_block_no = OnDisk(dentry[d]).data_block_no
       /\ i.dir_dentry_cnt = n /\ i.dentries = Reverse(places)
  BY <1>4 DEF i
<1>15. /\ m.dentry \in Seq(Dentry) /\ Len(m.dentry) = N + n
       /\ m.dentry[d] = [dentry[d] EXCEPT !.inode = new]
       /\ \A e \in DOMAIN dentry \ {d} : m.dentry[e] = dentry[e]
       /\ \A k \in 1 .. n : m.dentry[N + k] = ReadDentry(dentry[d], k)
  BY <1>8, <1>9, <1>10, <1>11
<1> QED
  BY <1>6, <1>9, <1>13, <1>14, <1>15 DEF ReadWell

\* The memory after read_inode.
LEMMA ReadType ==
    ASSUME TypeOK, NEW d \in DOMAIN dentry
    PROVE  /\ MemoryType(read_inode(d).dentry, read_inode(d).inode, made)
           /\ read_inode(d).confused \in BOOLEAN
           /\ DOMAIN dentry \subseteq DOMAIN read_inode(d).dentry
           /\ DOMAIN inode \subseteq DOMAIN read_inode(d).inode
           /\ ~read_inode(d).confused => read_inode(d).dentry[d].inode \in DOMAIN read_inode(d).inode
<1>1. CASE ~Readable(dentry[d])
  <2>1. /\ read_inode(d).dentry = dentry /\ read_inode(d).inode = inode
        /\ read_inode(d).confused = TRUE
    BY <1>1 DEF read_inode, Memory
  <2> QED
    BY <2>1, MemoryIsTyped
<1>2. CASE Readable(dentry[d])
  <2> PICK m : m = read_inode(d)
    OBVIOUS
  <2> PICK n : n = ChildCount(dentry[d])
    OBVIOUS
  <2> PICK new : new = Len(inode) + 1
    OBVIOUS
  <2> PICK N : N = Len(dentry)
    OBVIOUS
  <2>1. /\ m.confused = FALSE
        /\ m.dentry \in Seq(Dentry) /\ Len(m.dentry) = N + n
        /\ m.dentry[d] = [dentry[d] EXCEPT !.inode = new]
        /\ \A e \in DOMAIN dentry \ {d} : m.dentry[e] = dentry[e]
        /\ \A k \in 1 .. n : m.dentry[N + k] = ReadDentry(dentry[d], k)
        /\ m.inode \in Seq(Inode) /\ Len(m.inode) = new
        /\ \A i \in DOMAIN inode : m.inode[i] = inode[i]
        /\ m.inode[new].dentry = d
        /\ m.inode[new].dir_dentry_cnt = n /\ Len(m.inode[new].dentries) = n
        /\ DOMAIN m.inode[new].dentries = 1 .. n
        /\ \A k \in 1 .. n : m.inode[new].dentries[k] = N + n + 1 - k
    <3>1. ReadWell(m, d, n, new, N)
      BY <1>2, ReadResult
    <3> QED
      BY <3>1 DEF ReadWell
  <2>2. /\ n \in 0 .. made /\ made \in Nat
        /\ \A k \in 1 .. n : ReadDentry(dentry[d], k).name \in Name
    BY <1>2, ReadKids, MemoryIsTyped
  <2>3. /\ N \in Nat /\ DOMAIN dentry = 1 .. N /\ Len(inode) \in Nat
        /\ DOMAIN inode = 1 .. Len(inode)
    BY Domains
  <2>4. DOMAIN m.dentry = 1 .. N + n /\ DOMAIN m.inode = 1 .. new
    BY <2>1, LenProperties
  <2>5. new = Len(inode) + 1 /\ new \in DOMAIN m.inode /\ n \in Nat
    BY <2>2, <2>3, <2>4
  <2>6. /\ DOMAIN dentry \subseteq DOMAIN m.dentry /\ DOMAIN inode \subseteq DOMAIN m.inode
        /\ \A i \in DOMAIN m.inode : i \in DOMAIN inode \/ i = new
        /\ \A e \in DOMAIN m.dentry : e \in DOMAIN dentry \/ \E k \in 1 .. n : e = N + k
        /\ \A k \in 1 .. n : N + n + 1 - k \in DOMAIN m.dentry
        /\ \A k \in 1 .. n : N + n + 1 - k # 1
    <3>1. \A e \in 1 .. N + n : e \in 1 .. N \/ (e - N \in 1 .. n /\ e = N + (e - N))
      BY <2>3, <2>5
    <3>2. N >= 1
      BY <2>3
    <3> QED
      BY <2>3, <2>4, <2>5, <3>1, <3>2
  <2>7. \A e \in DOMAIN m.dentry : /\ m.dentry[e].inode \in {NULL} \cup DOMAIN m.inode
                                   /\ e # Root => m.dentry[e].name \in Name
    <3> TAKE e \in DOMAIN m.dentry
    <3>1. CASE e \in DOMAIN dentry \ {d}
      BY <2>1, <2>6, <3>1, DentryFields
    <3>2. CASE e = d
      <4>1. dentry[d] \in Dentry /\ (d # Root => dentry[d].name \in Name)
        BY DentryFields
      <4>2. m.dentry[d].inode = new /\ m.dentry[d].name = dentry[d].name
        BY <2>1, <4>1 DEF Dentry
      <4> QED
        BY <2>5, <3>2, <4>1, <4>2
    <3>3. CASE \E k \in 1 .. n : e = N + k
      <4>1. PICK k \in 1 .. n : e = N + k
        BY <3>3
      <4>2. m.dentry[e] = ReadDentry(dentry[d], k)
        BY <2>1, <4>1
      <4>3. ReadDentry(dentry[d], k).inode = NULL
        BY DEF ReadDentry
      <4> QED
        BY <2>2, <4>2, <4>3
    <3> QED
      BY <2>6, <3>1, <3>2, <3>3
  <2>8. ASSUME NEW i \in DOMAIN m.inode
        PROVE  /\ m.inode[i].dentry \in DOMAIN m.dentry
               /\ ToSet(m.inode[i].dentries) \subseteq DOMAIN m.dentry \ {Root}
               /\ m.inode[i].dir_dentry_cnt = Len(m.inode[i].dentries)
               /\ m.inode[i].dir_dentry_cnt <= made
    <3>1. CASE i \in DOMAIN inode
      <4>1. m.inode[i] = inode[i]
        BY <2>1, <3>1
      <4>2. /\ inode[i].dentry \in DOMAIN dentry
            /\ ToSet(inode[i].dentries) \subseteq DOMAIN dentry \ {Root}
            /\ inode[i].dir_dentry_cnt = Len(inode[i].dentries)
            /\ inode[i].dir_dentry_cnt <= made
        BY <3>1 DEF TypeOK
      <4> QED
        BY <2>6, <4>1, <4>2
    <3>2. CASE i = new
      <4>1. m.inode[i].dentry = d /\ d \in DOMAIN m.dentry
        BY <2>1, <2>6, <3>2
      <4> PICK s : s = m.inode[i].dentries
        OBVIOUS
      <4>5. DOMAIN s = 1 .. n /\ \A k \in 1 .. n : s[k] = N + n + 1 - k
        BY <2>1, <3>2
      <4>2. \A x \in ToSet(s) : \E k \in 1 .. n : x = N + n + 1 - k
        BY <4>5 DEF ToSet
      <4>3. ToSet(m.inode[i].dentries) \subseteq DOMAIN m.dentry \ {Root}
        BY <2>6, <4>2 DEF Root
      <4>6. m.inode[i].dir_dentry_cnt = n /\ Len(m.inode[i].dentries) = n
        BY <2>1, <3>2
      <4>4. m.inode[i].dir_dentry_cnt <= made
        BY <4>6, <2>2
      <4> QED
        BY <4>1, <4>3, <4>4, <4>6
    <3> QED
      BY <2>6, <3>1, <3>2
  <2>9. MemoryType(m.dentry, m.inode, made)
    BY <2>1, <2>7, <2>8 DEF MemoryType
  <2>10. m.dentry[d].inode = new
    <3>1. dentry[d] \in Dentry
      BY DentryFields
    <3> QED
      BY <2>1, <3>1 DEF Dentry
  <2> QED
    BY <2>1, <2>5, <2>6, <2>9, <2>10
<1> QED
  BY <1>1, <1>2
-------------------------------------------------------------------------------
MemoryRecord == [dentry : Seq(Dentry), inode : Seq(Inode), confused : BOOLEAN]

\* What allocate_dentry makes m2 of m: dentry d at the head of p's list, and,
\* if it was given a number, inode new.
MadeWell(m, m2, p, name, ft, a, d, new) ==
    /\ m2 \in MemoryRecord /\ m2.confused = m.confused
    /\ m2.dentry \in Seq(Dentry) /\ Len(m2.dentry) = d
    /\ \A e \in DOMAIN m.dentry : m2.dentry[e] = m.dentry[e]
    /\ m2.dentry[d] = [name |-> name, ino |-> a.ino, file_type |-> ft,
                       inode |-> IF a.ino = None THEN NULL ELSE new]
    /\ m2.inode \in Seq(Inode)
    /\ Len(m2.inode) = IF a.ino = None THEN new - 1 ELSE new
    /\ \A i \in DOMAIN m.inode \ {p} : m2.inode[i] = m.inode[i]
    /\ m2.inode[p] = [m.inode[p] EXCEPT !.dentries = <<d>> \o @, !.dir_dentry_cnt = @ + 1]
    /\ a.ino # None =>
          m2.inode[new] = [ino |-> a.ino, dentry |-> d, dir_dentry_cnt |-> 0,
                           dentries |-> <<>>, data_block_no |-> a.block]

\* Inode j is i with dentry d in front of its others.
Grown(i, d, j) ==
    /\ j \in Inode /\ j.ino = i.ino /\ j.dentry = i.dentry
    /\ j.data_block_no = i.data_block_no
    /\ j.dir_dentry_cnt = i.dir_dentry_cnt + 1
    /\ Len(j.dentries) = Len(i.dentries) + 1
    /\ DOMAIN j.dentries = 1 .. Len(i.dentries) + 1
    /\ j.dentries[1] = d
    /\ \A k \in DOMAIN i.dentries : j.dentries[1 + k] = i.dentries[k]
    /\ ToSet(j.dentries) = {d} \cup ToSet(i.dentries)

\* allocate_dentry makes it so.
LEMMA GrownInode ==
    ASSUME NEW i \in Inode, NEW d \in Nat \ {0}, i.dir_dentry_cnt < MaxMade, NEW j,
           j = [i EXCEPT !.dentries = <<d>> \o @, !.dir_dentry_cnt = @ + 1]
    PROVE  Grown(i, d, j)
<1> PICK s : s = i.dentries
  OBVIOUS
<1> DEFINE t == <<d>> \o s
<1>1. /\ i.ino \in BlockNo /\ i.dentry \in Nat \ {0} /\ i.dir_dentry_cnt \in 0 .. MaxMade
      /\ s \in Seq(Nat \ {0}) /\ i.data_block_no \in BlockNo
  BY DEF Inode
<1>2. /\ <<d>> \in Seq(Nat \ {0}) /\ Len(<<d>>) = 1 /\ DOMAIN <<d>> = {1}
      /\ <<d>>[1] = d /\ ToSet(<<d>>) = {d}
  BY Single
<1>3. Joined(Nat \ {0}, <<d>>, s, t)
  BY <1>1, <1>2, InARow
<1>4. /\ t \in Seq(Nat \ {0}) /\ Len(t) = Len(<<d>>) + Len(s)
      /\ DOMAIN t = 1 .. Len(<<d>>) + Len(s)
      /\ \A k \in DOMAIN <<d>> : t[k] = <<d>>[k]
      /\ \A k \in DOMAIN s : t[Len(<<d>>) + k] = s[k]
      /\ ToSet(t) = ToSet(<<d>>) \cup ToSet(s)
  BY <1>3 DEF Joined
<1>5. Len(s) \in Nat
  BY <1>1, LenProperties
<1> HIDE DEF t
<1>6. /\ t \in Seq(Nat \ {0}) /\ Len(t) = Len(s) + 1 /\ DOMAIN t = 1 .. Len(s) + 1
      /\ t[1] = d /\ \A k \in DOMAIN s : t[1 + k] = s[k]
      /\ ToSet(t) = {d} \cup ToSet(s)
  <2>1. 1 \in DOMAIN <<d>> /\ 1 + Len(s) = Len(s) + 1
    BY <1>2, <1>5
  <2> QED
    BY <1>2, <1>4, <2>1
<1>7. j = [i EXCEPT !.dentries = t, !.dir_dentry_cnt = i.dir_dentry_cnt + 1]
  BY DEF t
<1>8. /\ j.ino = i.ino /\ j.dentry = i.dentry /\ j.data_block_no = i.data_block_no
      /\ j.dir_dentry_cnt = i.dir_dentry_cnt + 1 /\ j.dentries = t
  BY <1>7 DEF Inode
<1>9. i.dir_dentry_cnt + 1 \in 0 .. MaxMade
  BY <1>1
<1>10. j \in Inode
  BY <1>6, <1>7, <1>9 DEF Inode
<1> QED
  BY <1>6, <1>8, <1>10 DEF Grown

\* The memory allocate_dentry leaves.
LEMMA MadeResult ==
    ASSUME NEW m \in MemoryRecord, NEW n \in Nat, MemoryType(m.dentry, m.inode, n), n < MaxMade,
           NEW p \in DOMAIN m.inode, NEW name \in Name, NEW ft \in FileType,
           NEW a, a.ino \in BlockNo, a.block \in BlockNo,
           NEW d, d = Len(m.dentry) + 1, NEW new, new = Len(m.inode) + 1
    PROVE  MadeWell(m, allocate_dentry(m, p, name, ft, a), p, name, ft, a, d, new)
<1> PICK D : D = m.dentry
  OBVIOUS
<1> PICK I : I = m.inode
  OBVIOUS
<1> DEFINE j == [I[p] EXCEPT !.dentries = <<d>> \o @, !.dir_dentry_cnt = @ + 1]
           linked == [I EXCEPT ![p] = j]
           i == IF a.ino = None THEN NULL ELSE new
           e == [name |-> name, ino |-> a.ino, file_type |-> ft, inode |-> i]
           x == [ino |-> a.ino, dentry |-> d, dir_dentry_cnt |-> 0,
                 dentries |-> <<>>, data_block_no |-> a.block]
           I2 == IF i = NULL THEN linked ELSE Append(linked, x)
           m2 == allocate_dentry(m, p, name, ft, a)
<1>1. /\ D \in Seq(Dentry) /\ I \in Seq(Inode)
      /\ Len(D) \in Nat /\ DOMAIN D = 1 .. Len(D)
      /\ Len(I) \in Nat /\ DOMAIN I = 1 .. Len(I)
  BY LenProperties DEF MemoryType
<1>2. I[p] \in Inode /\ I[p].dir_dentry_cnt < MaxMade
  <2>1. I[p] \in Inode /\ I[p].dir_dentry_cnt <= n
    BY <1>1, ElementOfSeq DEF MemoryType
  <2> QED
    BY <2>1 DEF Inode
<1>3. j \in Inode
  <2>1. d \in Nat \ {0}
    BY <1>1
  <2> QED
    BY <1>2, <2>1, GrownInode DEF Grown
<1>4. e \in Dentry
  BY <1>1 DEF Dentry, NULL
<1>5. x \in Inode
  BY <1>1 DEF Inode
<1> HIDE DEF j, e, x
<1>6. /\ linked \in Seq(Inode) /\ Len(linked) = Len(I) /\ linked[p] = j
      /\ \A k \in DOMAIN I \ {p} : linked[k] = I[k]
  BY <1>1, <1>3, ExceptSeq
<1>7. /\ Append(D, e) \in Seq(Dentry) /\ Len(Append(D, e)) = d
      /\ \A k \in DOMAIN D : Append(D, e)[k] = D[k]
      /\ Append(D, e)[d] = e
  BY <1>1, <1>4, OneMore
<1>8. DOMAIN linked = DOMAIN I
  OBVIOUS
<1> HIDE DEF linked
<1>9. /\ Append(linked, x) \in Seq(Inode) /\ Len(Append(linked, x)) = new
      /\ \A k \in DOMAIN I : Append(linked, x)[k] = linked[k]
      /\ Append(linked, x)[new] = x
  <2>1. linked \in Seq(Inode) /\ DOMAIN linked = DOMAIN I /\ Len(linked) + 1 = new
    BY <1>6, <1>8
  <2> QED
    BY <2>1, <1>5, OneMore
<1>10. i = NULL <=> a.ino = None
  BY <1>1 DEF NULL
<1>11. /\ I2 \in Seq(Inode) /\ Len(I2) = IF a.ino = None THEN new - 1 ELSE new
       /\ \A k \in DOMAIN I \ {p} : I2[k] = I[k]
       /\ I2[p] = j
       /\ a.ino # None => I2[new] = x
  BY <1>1, <1>6, <1>9, <1>10
<1>12. m2 = [m EXCEPT !.dentry = Append(@, e), !.inode = I2]
  BY DEF allocate_dentry, e, x, linked, j
<1> HIDE DEF m2, I2
<1>13. m2.dentry = Append(D, e) /\ m2.inode = I2 /\ m2.confused = m.confused
  BY <1>12 DEF MemoryRecord
<1>15. m2 \in MemoryRecord
  BY <1>7, <1>11, <1>12 DEF MemoryRecord
<1>14. MadeWell(m, m2, p, name, ft, a, d, new)
  <2>1. a.ino # None =>
           I2[new] = [ino |-> a.ino, dentry |-> d, dir_dentry_cnt |-> 0,
                      dentries |-> <<>>, data_block_no |-> a.block]
    BY <1>11 DEF x
  <2>2. I2[p] = [m.inode[p] EXCEPT !.dentries = <<d>> \o @, !.dir_dentry_cnt = @ + 1]
    BY <1>11 DEF j
  <2>3. Append(D, e)[d] = [name |-> name, ino |-> a.ino, file_type |-> ft,
                           inode |-> IF a.ino = None THEN NULL ELSE new]
    BY <1>7 DEF e
  <2>4. /\ m2 \in MemoryRecord /\ m2.confused = m.confused
        /\ m2.dentry \in Seq(Dentry) /\ Len(m2.dentry) = d
        /\ \A k \in DOMAIN m.dentry : m2.dentry[k] = m.dentry[k]
        /\ m2.inode \in Seq(Inode)
        /\ Len(m2.inode) = IF a.ino = None THEN new - 1 ELSE new
        /\ \A k \in DOMAIN m.inode \ {p} : m2.inode[k] = m.inode[k]
    BY <1>7, <1>11, <1>13, <1>15
  <2> QED
    BY <1>13, <2>1, <2>2, <2>3, <2>4 DEF MadeWell
<1> QED
  BY <1>14 DEF m2

\* The memory after allocate_dentry.
LEMMA MadeType ==
    ASSUME NEW m \in MemoryRecord, NEW n \in Nat, MemoryType(m.dentry, m.inode, n), n < MaxMade,
           NEW p \in DOMAIN m.inode, NEW name \in Name, NEW ft \in FileType,
           NEW a, a.ino \in BlockNo, a.block \in BlockNo, Root \in DOMAIN m.dentry,
           NEW m2, m2 = allocate_dentry(m, p, name, ft, a)
    PROVE  /\ MemoryType(m2.dentry, m2.inode, n + 1)
           /\ m2.confused = m.confused
           /\ DOMAIN m.dentry \subseteq DOMAIN m2.dentry
           /\ DOMAIN m.inode \subseteq DOMAIN m2.inode
<1> PICK d : d = Len(m.dentry) + 1
  OBVIOUS
<1> PICK new : new = Len(m.inode) + 1
  OBVIOUS
<1> PICK D : D = m.dentry
  OBVIOUS
<1> PICK I : I = m.inode
  OBVIOUS
<1>1. MadeWell(m, m2, p, name, ft, a, d, new)
  BY MadeResult
<1>2. /\ D \in Seq(Dentry) /\ I \in Seq(Inode)
      /\ Len(D) \in Nat /\ DOMAIN D = 1 .. Len(D)
      /\ Len(I) \in Nat /\ DOMAIN I = 1 .. Len(I)
  BY LenProperties DEF MemoryType
<1>3. /\ m2.dentry \in Seq(Dentry) /\ Len(m2.dentry) = d
      /\ m2.inode \in Seq(Inode) /\ Len(m2.inode) = IF a.ino = None THEN new - 1 ELSE new
  BY <1>1 DEF MadeWell
<1>4. DOMAIN m2.dentry = 1 .. d /\ DOMAIN m2.inode = 1 .. Len(m2.inode)
  BY <1>3, LenProperties
<1>5. /\ DOMAIN D \subseteq DOMAIN m2.dentry /\ DOMAIN I \subseteq DOMAIN m2.inode
      /\ d \in DOMAIN m2.dentry /\ d # Root /\ d \in Nat \ {0}
      /\ \A e \in DOMAIN m2.dentry : e \in DOMAIN D \/ e = d
      /\ a.ino # None => new \in DOMAIN m2.inode
      /\ \A i \in DOMAIN m2.inode : i \in DOMAIN I \/ (a.ino # None /\ i = new)
  BY <1>2, <1>3, <1>4 DEF Root
<1>6. /\ \A e \in DOMAIN D : m2.dentry[e] = D[e]
      /\ m2.dentry[d] = [name |-> name, ino |-> a.ino, file_type |-> ft,
                         inode |-> IF a.ino = None THEN NULL ELSE new]
  BY <1>1 DEF MadeWell
<1>7. /\ \A i \in DOMAIN I \ {p} : m2.inode[i] = I[i]
      /\ m2.inode[p] = [I[p] EXCEPT !.dentries = <<d>> \o @, !.dir_dentry_cnt = @ + 1]
      /\ a.ino # None =>
            m2.inode[new] = [ino |-> a.ino, dentry |-> d, dir_dentry_cnt |-> 0,
                             dentries |-> <<>>, data_block_no |-> a.block]
  BY <1>1 DEF MadeWell
<1>8. ASSUME NEW e \in DOMAIN m2.dentry
      PROVE  m2.dentry[e].inode \in {NULL} \cup DOMAIN m2.inode /\ (e # Root => m2.dentry[e].name \in Name)
  <2>1. CASE e \in DOMAIN D
    <3>1. D[e].inode \in {NULL} \cup DOMAIN I /\ (e # Root => D[e].name \in Name)
      BY <2>1 DEF MemoryType
    <3> QED
      BY <1>5, <1>6, <2>1, <3>1
  <2>2. CASE e = d
    BY <1>5, <1>6, <2>2
  <2> QED
    BY <1>5, <2>1, <2>2
<1>9. ASSUME NEW i \in DOMAIN I
      PROVE  /\ I[i] \in Inode /\ I[i].dentry \in DOMAIN D
             /\ ToSet(I[i].dentries) \subseteq DOMAIN D \ {Root}
             /\ I[i].dir_dentry_cnt = Len(I[i].dentries) /\ I[i].dir_dentry_cnt <= n
             /\ I[i].dir_dentry_cnt \in Nat
  <2>1. /\ I[i].dentry \in DOMAIN D
        /\ ToSet(I[i].dentries) \subseteq DOMAIN D \ {Root}
        /\ I[i].dir_dentry_cnt = Len(I[i].dentries) /\ I[i].dir_dentry_cnt <= n
    BY DEF MemoryType
  <2>2. I[i] \in Inode
    BY <1>2, ElementOfSeq
  <2>3. I[i].dir_dentry_cnt \in Nat
    BY <2>2 DEF Inode
  <2> QED
    BY <2>1, <2>2, <2>3
<1>10. ASSUME NEW i \in DOMAIN m2.inode
       PROVE  /\ m2.inode[i].dentry \in DOMAIN m2.dentry
              /\ ToSet(m2.inode[i].dentries) \subseteq DOMAIN m2.dentry \ {Root}
              /\ m2.inode[i].dir_dentry_cnt = Len(m2.inode[i].dentries)
              /\ m2.inode[i].dir_dentry_cnt <= n + 1
  <2>1. CASE i \in DOMAIN I \ {p}
    <3>1. m2.inode[i] = I[i] /\ I[i].dir_dentry_cnt <= n + 1
      BY <1>7, <1>9, <2>1
    <3> QED
      BY <1>5, <1>9, <2>1, <3>1
  <2>2. CASE i = p
    <3> PICK j : j = m2.inode[p]
      OBVIOUS
    <3>1. I[p] \in Inode /\ I[p].dir_dentry_cnt < MaxMade
      BY <1>9
    <3> PICK i0 : i0 = I[p]
      OBVIOUS
    <3>0. j = [i0 EXCEPT !.dentries = <<d>> \o @, !.dir_dentry_cnt = @ + 1] /\ d \in Nat \ {0}
      BY <1>5, <1>7
    <3>2. i0 \in Inode /\ i0.dir_dentry_cnt < MaxMade
      BY <3>1
    <3>4. Grown(i0, d, j)
      BY <3>0, <3>2, GrownInode
    <3>5. /\ j.dentry = I[p].dentry /\ j.dir_dentry_cnt = I[p].dir_dentry_cnt + 1
          /\ Len(j.dentries) = Len(I[p].dentries) + 1
          /\ ToSet(j.dentries) = {d} \cup ToSet(I[p].dentries)
      BY <3>4 DEF Grown
    <3>3. /\ I[p].dentry \in DOMAIN D /\ ToSet(I[p].dentries) \subseteq DOMAIN D \ {Root}
          /\ I[p].dir_dentry_cnt = Len(I[p].dentries) /\ I[p].dir_dentry_cnt <= n
          /\ I[p].dir_dentry_cnt \in Nat
      BY <1>9
    <3> QED
      BY <1>5, <2>2, <3>3, <3>5
  <2>3. CASE a.ino # None /\ i = new
    <3>1. ToSet(<<>>) = {} /\ Len(<<>>) = 0
      BY DEF ToSet
    <3> QED
      BY <1>5, <1>7, <2>3, <3>1
  <2> QED
    BY <1>5, <2>1, <2>2, <2>3
<1>11. MemoryType(m2.dentry, m2.inode, n + 1)
  BY <1>3, <1>8, <1>10 DEF MemoryType
<1>12. m2.confused = m.confused
  BY <1>1 DEF MadeWell
<1> QED
  BY <1>5, <1>11, <1>12
-------------------------------------------------------------------------------
RootOk(D, I) ==
    /\ Root \in DOMAIN D /\ Root \in DOMAIN I
    /\ D[Root].inode = Root /\ D[Root].ino = 0 /\ D[Root].file_type = "NFS_DIR"
    /\ I[Root].dentry = Root

\* What is in memory at each stage: in particular whether the root's inode is.
StageOk ==
    /\ pc = "unmounted" => dentry = <<>> /\ inode = <<>> /\ ~confused
    /\ pc = "read_root" => dentry = <<RootDentry>> /\ inode = <<>>
    /\ pc \notin {"unmounted", "read_root"} /\ ~confused => RootOk(dentry, inode)
    /\ ~disk.magic => disk.map_inode = {} /\ disk.map_data = {}
    /\ pc \in {"map_inode", "map_data"} => disk.magic
    /\ pc = "map_data" => disk.map_inode = super.map_inode

Stages == {"unmounted", "read_root", "mounted"} \cup Destroying

DiskType(x, n) ==
    /\ x \in [magic : BOOLEAN, map_inode : SUBSET Bit, map_data : SUBSET Bit,
              cell : [Address -> DiskCell]]
    /\ \A a \in Address : x.cell[a].type = "inode" => x.cell[a].dir_dentry_cnt <= n

ListingType(n) == [on : BOOLEAN, path : Path \cup {<<>>}, offset : 0 .. n,
                   had : SUBSET Name, seen : SUBSET Name]

Call(I) == [inode : DOMAIN I, next : Nat]

\* TypeOK in the parts the proofs deal with one at a time.
LEMMA Parts ==
    ASSUME TypeOK
    PROVE  /\ MemoryType(dentry, inode, made) /\ super \in SuperType /\ DiskType(disk, made)
           /\ pc \in Stages /\ work \in Seq(Call(inode)) /\ ls \in ListingType(made)
           /\ confused \in BOOLEAN /\ spoilt \subseteq Mishap
           /\ live \subseteq Path \X FileType /\ durable \subseteq Path \X FileType
           /\ made \in 0 .. MaxMade
<1>1. \A a \in Address : disk.cell[a].type = "inode" => disk.cell[a].dir_dentry_cnt <= made
  BY MemoryIsTyped DEF Holds
<1> QED
  BY <1>1, MemoryIsTyped DEF DiskType, ListingType, Call, Stages

\* The parts make up the type of the next state.
LEMMA PartsNext ==
    ASSUME MemoryType(dentry', inode', made'), super' \in SuperType, DiskType(disk', made'),
           pc' \in Stages, work' \in Seq(Call(inode')), ls' \in ListingType(made'),
           confused' \in BOOLEAN, spoilt' \subseteq Mishap,
           live' \subseteq Path \X FileType, durable' \subseteq Path \X FileType,
           made' \in 0 .. MaxMade
    PROVE  TypeOK'
<1>1. \A a \in Address : Holds(a, "inode")' => disk'.cell[a].dir_dentry_cnt <= made'
  BY DEF Holds, DiskType
<1>2. /\ dentry' \in Seq(Dentry) /\ inode' \in Seq(Inode)
      /\ \A d \in DOMAIN dentry' : /\ dentry'[d].inode \in {NULL} \cup DOMAIN inode'
                                   /\ d # Root => dentry'[d].name \in Name
      /\ \A i \in DOMAIN inode' : /\ inode'[i].dentry \in DOMAIN dentry'
                                  /\ ToSet(inode'[i].dentries) \subseteq DOMAIN dentry' \ {Root}
                                  /\ inode'[i].dir_dentry_cnt = Len(inode'[i].dentries)
                                  /\ inode'[i].dir_dentry_cnt <= made'
  BY DEF MemoryType
<1>3. disk' \in [magic : BOOLEAN, map_inode : SUBSET Bit, map_data : SUBSET Bit,
                 cell : [Address -> DiskCell]]
  BY DEF DiskType
<1> QED
  BY <1>1, <1>2, <1>3 DEF TypeOK, SuperType, ListingType, Call, Stages

\* The bound on what was created may grow.
LEMMA BoundGrows ==
    ASSUME TypeOK, NEW n \in Nat, made <= n
    PROVE  DiskType(disk, n) /\ ls \in ListingType(n)
<1>1. made \in Nat /\ DiskType(disk, made) /\ ls \in ListingType(made)
  BY Parts
<1>2. ASSUME NEW a \in Address, disk.cell[a].type = "inode"
      PROVE  disk.cell[a].dir_dentry_cnt <= n
  <2>1. disk.cell[a].dir_dentry_cnt \in 0 .. made
    BY <1>2, CellFields
  <2> QED
    BY <1>1, <2>1
<1>3. 0 .. made \subseteq 0 .. n
  BY <1>1
<1> QED
  BY <1>1, <1>2, <1>3 DEF DiskType, ListingType

\* A stack keeps its type while inodes are added.
LEMMA StackGrows ==
    ASSUME NEW I, NEW J, DOMAIN I \subseteq DOMAIN J, NEW w \in Seq(Call(I))
    PROVE  w \in Seq(Call(J))
<1>1. Call(I) \subseteq Call(J)
  BY DEF Call
<1> QED
  BY <1>1, SeqMonotonic

\* The memory a handler has after its lookup.
Fetched(d, m) ==
    /\ m \in MemoryRecord /\ MemoryType(m.dentry, m.inode, made)
    /\ DOMAIN dentry \subseteq DOMAIN m.dentry /\ DOMAIN inode \subseteq DOMAIN m.inode
    /\ ~m.confused => m.dentry[d].inode \in DOMAIN m.inode
    /\ RootOk(m.dentry, m.inode)

\* The fetch at the end of lookup keeps the memory in shape.
LEMMA FetchStage ==
    ASSUME TypeOK, RootOk(dentry, inode), NEW d \in DOMAIN dentry
    PROVE  Fetched(d, Fetch(d))
<1> PICK m : m = Fetch(d)
  OBVIOUS
<1>1. CASE dentry[d].inode # NULL
  <2>1. /\ m = [dentry |-> dentry, inode |-> inode, confused |-> FALSE]
        /\ dentry[d].inode \in DOMAIN inode
    BY <1>1, DentryFields DEF Fetch, Memory
  <2>2. m \in MemoryRecord
    BY <2>1, Parts DEF MemoryRecord, MemoryType
  <2> QED
    BY <2>1, <2>2, Parts DEF Fetched
<1>2. CASE dentry[d].inode = NULL
  <2>1. m = read_inode(d)
    BY <1>2 DEF Fetch
  <2>3. /\ MemoryType(m.dentry, m.inode, made) /\ m.confused \in BOOLEAN
        /\ DOMAIN dentry \subseteq DOMAIN m.dentry
        /\ DOMAIN inode \subseteq DOMAIN m.inode
        /\ ~m.confused => m.dentry[d].inode \in DOMAIN m.inode
    BY <2>1, ReadType
  <2>4. m \in MemoryRecord
    <3>1. m.dentry \in Seq(Dentry) /\ m.inode \in Seq(Inode)
      BY <2>3 DEF MemoryType
    <3>2. CASE Readable(dentry[d])
      <4> DEFINE kids == ChildrenOnDisk(dentry[d])
                 D1 == [dentry EXCEPT ![d].inode = Len(inode) + 1] \o kids
                 i == [ino |-> OnDisk(dentry[d]).ino, dentry |-> d, dir_dentry_cnt |-> Len(kids),
                       dentries |-> Reverse([k \in DOMAIN kids |-> Len(dentry) + k]),
                       data_block_no |-> OnDisk(dentry[d]).data_block_no]
                 I1 == Append(inode, i)
      <4>1. m = [dentry |-> D1, inode |-> I1, confused |-> FALSE]
        BY <2>1, <3>2 DEF read_inode
      <4> HIDE DEF D1, I1
      <4> QED
        BY <3>1, <4>1 DEF MemoryRecord
    <3>3. CASE ~Readable(dentry[d])
      <4>1. Memory \in MemoryRecord
        BY Parts DEF Memory, MemoryRecord, MemoryType
      <4>2. m = [Memory EXCEPT !.confused = TRUE]
        BY <2>1, <3>3 DEF read_inode
      <4> QED
        BY <4>1, <4>2 DEF MemoryRecord
    <3> QED
      BY <3>2, <3>3
  <2>5. RootOk(m.dentry, m.inode)
    <3>1. CASE Readable(dentry[d])
      <4> PICK n : n = ChildCount(dentry[d])
        OBVIOUS
      <4> PICK new : new = Len(inode) + 1
        OBVIOUS
      <4> PICK N : N = Len(dentry)
        OBVIOUS
      <4>1. ReadWell(m, d, n, new, N)
        BY <2>1, <3>1, ReadResult
      <4>2. d # Root
        BY <1>2 DEF RootOk, Root, NULL
      <4>3. m.dentry[Root] = dentry[Root] /\ m.inode[Root] = inode[Root]
        BY <4>1, <4>2 DEF ReadWell, RootOk
      <4> QED
        BY <2>3, <4>3 DEF RootOk
    <3>2. CASE ~Readable(dentry[d])
      <4>1. m.dentry = dentry /\ m.inode = inode
        BY <2>1, <3>2 DEF read_inode, Memory
      <4> QED
        BY <4>1
    <3> QED
      BY <3>1, <3>2
  <2> QED
    BY <2>3, <2>4, <2>5 DEF Fetched
<1> QED
  BY <1>1, <1>2
-------------------------------------------------------------------------------
\* The type of what each action leaves, and of what is in memory at its stage.
TypeInv == TypeOK /\ StageOk

\* What may be assumed while a path is served.
LEMMA ServingFacts ==
    ASSUME TypeInv, NEW path \in Path \cup {<<>>}, Serving(path)
    PROVE  /\ TypeOK /\ pc = "mounted" /\ ~confused /\ RootOk(dentry, inode)
           /\ lookup(path).ret \in DOMAIN dentry
           /\ Fetched(lookup(path).ret, Fetch(lookup(path).ret))
<1>1. TypeOK /\ pc = "mounted" /\ ~confused /\ RootOk(dentry, inode)
  BY DEF TypeInv, StageOk, Serving
<1>2. lookup(path).ret \in DOMAIN dentry
  <2>1. Root \in DOMAIN dentry
    BY <1>1 DEF RootOk
  <2>2. lookup(path) \in Reach
    BY <1>1, <2>1, LookupType
  <2> QED
    BY <2>2 DEF Reach
<1> QED
  BY <1>1, <1>2, FetchStage

\* A handler that changes no more than the memory.
LEMMA MemoryStep ==
    ASSUME TypeInv, pc = "mounted", NEW m \in MemoryRecord, MemoryType(m.dentry, m.inode, made'),
           DOMAIN inode \subseteq DOMAIN m.inode, RootOk(m.dentry, m.inode), Remember(m),
           super' \in SuperType, made' \in 0 .. MaxMade, made <= made', ls' \in ListingType(made'),
           spoilt' \subseteq Mishap, live' \subseteq Path \X FileType, UNCHANGED <<disk, pc, work, durable>>
    PROVE  TypeInv'
<1>1. TypeOK
  BY DEF TypeInv
<1>2. dentry' = m.dentry /\ inode' = m.inode /\ confused' = m.confused
  BY DEF Remember
<1>3. work' \in Seq(Call(inode'))
  BY <1>1, <1>2, Parts, StackGrows
<1>4. DiskType(disk', made')
  BY <1>1, BoundGrows
<1>5. TypeOK'
  BY <1>1, <1>2, <1>3, <1>4, Parts, PartsNext DEF MemoryRecord
<1>6. StageOk'
  <2>1. ~disk.magic => disk.map_inode = {} /\ disk.map_data = {}
    BY DEF TypeInv, StageOk
  <2> QED
    BY <1>2, <2>1 DEF StageOk
<1> QED
  BY <1>5, <1>6 DEF TypeInv

\* getattr keeps type and stage.
LEMMA GetattrType ==
    ASSUME TypeInv, NEW path \in Path, newfs_getattr(path)
    PROVE  TypeInv'
<1>1. /\ TypeOK /\ pc = "mounted"
      /\ Fetched(lookup(path).ret, Fetch(lookup(path).ret))
  BY ServingFacts DEF newfs_getattr
<1> PICK m : m = Fetch(lookup(path).ret)
  OBVIOUS
<1>2. /\ m \in MemoryRecord /\ MemoryType(m.dentry, m.inode, made)
      /\ DOMAIN inode \subseteq DOMAIN m.inode /\ RootOk(m.dentry, m.inode)
  BY <1>1 DEF Fetched
<1>3. Remember(m) /\ UNCHANGED <<super, disk, pc, work, ls, spoilt, live, durable, made>>
  BY DEF newfs_getattr
<1>4. /\ super \in SuperType /\ ls \in ListingType(made) /\ made \in 0 .. MaxMade
      /\ spoilt \subseteq Mishap /\ live \subseteq Path \X FileType
  BY <1>1, Parts
<1> QED
  BY <1>1, <1>2, <1>3, <1>4, MemoryStep

\* So do mkdir and mknod.
LEMMA CreateType ==
    ASSUME TypeInv, NEW path \in Path, NEW ft \in FileType, Create(path, ft)
    PROVE  TypeInv'
<1> PICK r : r = lookup(path)
  OBVIOUS
<1> PICK m : m = Fetch(r.ret)
  OBVIOUS
<1> PICK p : p = m.dentry[r.ret].inode
  OBVIOUS
<1>1. Serving(path) /\ made < MaxMade /\ UNCHANGED <<disk, pc, work, ls, durable>>
  BY DEF Create
<1>2. IF m.confused THEN Remember(m) /\ UNCHANGED <<super, live, made, spoilt>>
      ELSE Make(path, m, p, ft)
  BY DEF Create
<1>3. TypeOK /\ pc = "mounted" /\ Fetched(r.ret, m)
  BY <1>1, ServingFacts
<1>4. /\ m \in MemoryRecord /\ MemoryType(m.dentry, m.inode, made)
      /\ DOMAIN inode \subseteq DOMAIN m.inode /\ RootOk(m.dentry, m.inode)
      /\ ~m.confused => p \in DOMAIN m.inode
  BY <1>3 DEF Fetched
<1>5. /\ super \in SuperType /\ ls \in ListingType(made) /\ made \in 0 .. MaxMade /\ made \in Nat
      /\ spoilt \subseteq Mishap /\ live \subseteq Path \X FileType
  BY <1>3, Parts
<1>6. CASE m.confused
  BY <1>1, <1>2, <1>3, <1>4, <1>5, <1>6, MemoryStep
<1>7. CASE ~m.confused
  <2>1. PICK a \in allocate_inode(super, ft) :
           /\ super' = a.super
           /\ Remember(allocate_dentry(m, p, Last(path), ft, a))
           /\ live' = live \cup {<<path, ft>>}
           /\ made' = made + 1
           /\ spoilt' = spoilt \cup (IF Outside(a, ft) THEN {"outside"} ELSE {})
                               \cup (IF m.inode[p].dir_dentry_cnt >= Cells THEN {"overfull"} ELSE {})
    BY <1>2, <1>7 DEF Make
  <2>2. a.super \in SuperType /\ a.ino \in BlockNo /\ a.block \in BlockNo
    BY <1>5, AllocResult
  <2> PICK m2 : m2 = allocate_dentry(m, p, Last(path), ft, a)
    OBVIOUS
  <2>3. Last(path) \in Name /\ p \in DOMAIN m.inode /\ Root \in DOMAIN m.dentry
    BY <1>4, <1>7, PathType DEF RootOk
  <2>4. /\ MemoryType(m2.dentry, m2.inode, made + 1) /\ m2.confused = m.confused
        /\ DOMAIN m.dentry \subseteq DOMAIN m2.dentry
        /\ DOMAIN m.inode \subseteq DOMAIN m2.inode
    BY <1>1, <1>4, <1>5, <2>2, <2>3, MadeType
  <2> PICK d : d = Len(m.dentry) + 1
    OBVIOUS
  <2> PICK new : new = Len(m.inode) + 1
    OBVIOUS
  <2> PICK name : name = Last(path)
    OBVIOUS
  <2>5. MadeWell(m, m2, p, name, ft, a, d, new)
    BY <1>1, <1>4, <1>5, <2>2, <2>3, MadeResult
  <2>6. RootOk(m2.dentry, m2.inode)
    <3>1. /\ m2.dentry[Root] = m.dentry[Root]
          /\ Root # p => m2.inode[Root] = m.inode[Root]
          /\ m2.inode[p] = [m.inode[p] EXCEPT !.dentries = <<d>> \o @, !.dir_dentry_cnt = @ + 1]
      BY <1>4, <2>5 DEF MadeWell, RootOk
    <3>2. m.inode \in Seq(Inode)
      BY <1>4 DEF MemoryType
    <3>3. m.inode[p] \in Inode
      BY <2>3, <3>2, LenProperties, ElementOfSeq
    <3>4. m2.inode[p].dentry = m.inode[p].dentry
      <4> PICK x : x = m.inode[p]
        OBVIOUS
      <4> DEFINE s == <<d>> \o x.dentries
      <4>1. m2.inode[p] = [x EXCEPT !.dentries = s, !.dir_dentry_cnt = @ + 1] /\ x \in Inode
        BY <3>1, <3>3
      <4> HIDE DEF s
      <4> QED
        BY <4>1 DEF Inode
    <3>5. m2.inode[Root].dentry = Root
      BY <1>4, <3>1, <3>4 DEF RootOk
    <3> QED
      BY <1>4, <2>4, <3>1, <3>5 DEF RootOk
  <2>7. /\ made' \in 0 .. MaxMade /\ made <= made' /\ ls' \in ListingType(made')
        /\ MemoryType(m2.dentry, m2.inode, made')
    <3>1. made + 1 \in Nat /\ made <= made + 1 /\ made + 1 \in 0 .. MaxMade
      BY <1>1, <1>5
    <3>2. ls \in ListingType(made + 1)
      BY <1>3, <3>1, BoundGrows
    <3>3. made' = made + 1 /\ ls' = ls
      BY <1>1, <2>1
    <3>4. MemoryType(m2.dentry, m2.inode, made + 1)
      BY <2>4
    <3>5. ls' \in ListingType(made')
      BY <3>2, <3>3
    <3>6. MemoryType(m2.dentry, m2.inode, made')
      BY <3>3, <3>4
    <3>7. made' \in 0 .. MaxMade /\ made <= made'
      BY <3>1, <3>3
    <3> QED
      BY <3>5, <3>6, <3>7
  <2>8. spoilt' \subseteq Mishap /\ live' \subseteq Path \X FileType
    <3>1. spoilt \subseteq Mishap /\ live \subseteq Path \X FileType
      BY <1>5
    <3>2. <<path, ft>> \in Path \X FileType
      OBVIOUS
    <3>3. /\ live' = live \cup {<<path, ft>>}
          /\ spoilt' \subseteq spoilt \cup {"outside", "overfull"}
      BY <2>1
    <3>4. {"outside", "overfull"} \subseteq Mishap
      BY DEF Mishap
    <3> QED
      BY <3>1, <3>2, <3>3, <3>4
  <2>9. m2 \in MemoryRecord /\ Remember(m2) /\ super' \in SuperType /\ DOMAIN inode \subseteq DOMAIN m2.inode
    BY <1>4, <2>1, <2>2, <2>4, <2>5 DEF MadeWell
  <2> QED
    BY <1>1, <1>3, <2>6, <2>7, <2>8, <2>9, MemoryStep
<1> QED
  BY <1>6, <1>7

\* The cursor of a listing moves over one child and keeps its type.
LEMMA CursorStep ==
    ASSUME NEW n \in Nat, NEW c \in ListingType(n), NEW D, NEW s \in Seq(Nat \ {0}), NEW sub,
           Len(s) <= n, ToSet(s) \subseteq DOMAIN D \ {Root},
           \A d \in DOMAIN D : d # Root => D[d].name \in Name,
           c.offset < Len(s), sub = {D[s[c.offset + 1]].name}
    PROVE  [c EXCEPT !.offset = @ + 1, !.seen = @ \cup sub] \in ListingType(n)
<1>1. c.offset \in 0 .. n
  BY DEF ListingType
<1> PICK o : o = c.offset
  OBVIOUS
<1>2. Len(s) \in Nat /\ DOMAIN s = 1 .. Len(s)
  BY LenProperties
<1>3. o + 1 \in 1 .. Len(s) /\ o + 1 \in 0 .. n
  BY <1>1, <1>2
<1>4. s[o + 1] \in ToSet(s)
  BY <1>2, <1>3 DEF ToSet
<1>5. sub \in SUBSET Name
  BY <1>4
<1> QED
  BY <1>3, <1>5 DEF ListingType

\* So does one call of readdir.
LEMMA ReaddirType ==
    ASSUME TypeInv, NEW path \in Path \cup {<<>>}, newfs_readdir(path)
    PROVE  TypeInv'
<1> PICK r : r = lookup(path)
  OBVIOUS
<1> PICK m : m = Fetch(r.ret)
  OBVIOUS
<1> PICK i : i = m.dentry[r.ret].inode
  OBVIOUS
<1> PICK c : c = Cursor(path)
  OBVIOUS
<1> PICK sub : sub = get_dentry(m, i, c.offset)
  OBVIOUS
<1>1. /\ Serving(path) /\ Remember(m)
      /\ ls' = IF m.confused \/ sub = {} THEN NoListing
               ELSE [c EXCEPT !.offset = @ + 1, !.seen = @ \cup sub]
      /\ UNCHANGED <<super, disk, pc, work, spoilt, live, durable, made>>
  BY DEF newfs_readdir
<1>2. TypeOK /\ pc = "mounted" /\ Fetched(r.ret, m)
  BY <1>1, ServingFacts
<1>3. /\ m \in MemoryRecord /\ MemoryType(m.dentry, m.inode, made)
      /\ DOMAIN inode \subseteq DOMAIN m.inode /\ RootOk(m.dentry, m.inode)
      /\ ~m.confused => i \in DOMAIN m.inode
  BY <1>2 DEF Fetched
<1>4. /\ super \in SuperType /\ ls \in ListingType(made) /\ made \in 0 .. MaxMade /\ made \in Nat
      /\ spoilt \subseteq Mishap /\ live \subseteq Path \X FileType
  BY <1>2, Parts
<1>5. c \in ListingType(made) /\ NoListing \in ListingType(made)
  <2>1. NoListing \in ListingType(made)
    BY <1>4 DEF NoListing, ListingType
  <2>2. Promised(path) \in SUBSET Name
    BY DEF Promised
  <2>3. [NoListing EXCEPT !.on = TRUE, !.path = path, !.had = Promised(path)] \in ListingType(made)
    <3> HIDE DEF NoListing
    <3> QED
      BY <2>1, <2>2 DEF ListingType
  <2> QED
    BY <1>4, <2>1, <2>3 DEF Cursor
<1>6. ls' \in ListingType(made)
  <2>1. CASE m.confused \/ sub = {}
    BY <1>1, <1>5, <2>1
  <2>2. CASE ~m.confused /\ sub # {}
    <3>0. /\ m.inode[i].dentries \in Seq(Nat \ {0}) /\ Len(m.inode[i].dentries) <= made
          /\ ToSet(m.inode[i].dentries) \subseteq DOMAIN m.dentry \ {Root}
      <4>1. m.inode[i] \in Inode /\ i \in DOMAIN m.inode
        BY ONLY <1>3, <2>2, LenProperties, ElementOfSeq DEF MemoryType
      <4>2. m.inode[i].dentries \in Seq(Nat \ {0}) /\ m.inode[i].dir_dentry_cnt = Len(m.inode[i].dentries)
            /\ m.inode[i].dir_dentry_cnt <= made
        BY ONLY <1>3, <4>1 DEF MemoryType, Inode
      <4>3. ToSet(m.inode[i].dentries) \subseteq DOMAIN m.dentry \ {Root}
        BY ONLY <1>3, <4>1 DEF MemoryType
      <4> QED
        BY ONLY <4>2, <4>3
    <3>1. \A d \in DOMAIN m.dentry : d # Root => m.dentry[d].name \in Name
      BY ONLY <1>3 DEF MemoryType
    <3>2. /\ c.offset < Len(m.inode[i].dentries)
          /\ sub = {m.dentry[m.inode[i].dentries[c.offset + 1]].name}
      BY <2>2 DEF get_dentry
    <3>3. ls' = [c EXCEPT !.offset = @ + 1, !.seen = @ \cup sub]
      BY <1>1, <2>2
    <3>4. c \in ListingType(made) /\ made \in Nat
      BY ONLY <1>4, <1>5
    <3>5. [c EXCEPT !.offset = @ + 1, !.seen = @ \cup sub] \in ListingType(made)
      BY ONLY <3>0, <3>1, <3>2, <3>4, CursorStep
    <3> QED
      BY ONLY <3>3, <3>5
  <2> QED
    BY <2>1, <2>2
<1> QED
  BY <1>1, <1>2, <1>3, <1>4, <1>6, MemoryStep
-------------------------------------------------------------------------------
\* Disk y is x with v in cell a, if that is on the disk.
CellSet(x, y, a, v) ==
    /\ y.magic = x.magic /\ y.map_inode = x.map_inode /\ y.map_data = x.map_data
    /\ a \in Address => y.cell[a] = v
    /\ \A b \in Address : b # a => y.cell[b] = x.cell[b]

\* One cell of the disk written, or one that is not on it.
LEMMA CellWritten ==
    ASSUME NEW n \in Nat, NEW x, DiskType(x, n), NEW a, NEW v \in DiskCell,
           v.type = "inode" => v.dir_dentry_cnt <= n,
           NEW z, z = [x EXCEPT !.cell[a] = v]
    PROVE  DiskType(z, n) /\ CellSet(x, z, a, v)
<1> DEFINE c == [x.cell EXCEPT ![a] = v]
           y == [x EXCEPT !.cell = c]
<1>1. x \in [magic : BOOLEAN, map_inode : SUBSET Bit, map_data : SUBSET Bit,
             cell : [Address -> DiskCell]]
  BY DEF DiskType
<1>2. z = y
  OBVIOUS
<1>3. x.cell \in [Address -> DiskCell]
  BY <1>1
<1>4. c \in [Address -> DiskCell]
  BY <1>3
<1>5. (a \in Address => c[a] = v) /\ \A b \in Address : b # a => c[b] = x.cell[b]
  BY <1>3
<1> HIDE DEF c
<1>6. /\ y.cell = c /\ y.magic = x.magic /\ y.map_inode = x.map_inode /\ y.map_data = x.map_data
      /\ y \in [magic : BOOLEAN, map_inode : SUBSET Bit, map_data : SUBSET Bit,
                cell : [Address -> DiskCell]]
  BY <1>1, <1>4
<1> HIDE DEF y
<1>7. ASSUME NEW b \in Address, y.cell[b].type = "inode" PROVE y.cell[b].dir_dentry_cnt <= n
  <2>1. CASE b = a
    BY <1>5, <1>6, <1>7, <2>1
  <2>2. CASE b # a
    <3>1. y.cell[b] = x.cell[b]
      BY <1>5, <1>6, <2>2
    <3> QED
      BY <1>7, <3>1 DEF DiskType
  <2> QED
    BY <2>1, <2>2
<1>8. DiskType(y, n)
  BY <1>6, <1>7 DEF DiskType
<1> QED
  BY <1>2, <1>5, <1>6, <1>8 DEF CellSet

\* What is written is what a cell may hold.
LEMMA InodeCell ==
    ASSUME TypeOK, NEW i \in DOMAIN inode
    PROVE  /\ InodeD(inode[i]) \in DiskCell /\ InodeD(inode[i]).type = "inode"
           /\ InodeD(inode[i]).dir_dentry_cnt <= made
           /\ InodeD(inode[i]).ino = inode[i].ino
           /\ InodeD(inode[i]).data_block_no = inode[i].data_block_no
           /\ InodeD(inode[i]).dir_dentry_cnt = inode[i].dir_dentry_cnt
<1> PICK x : x = inode[i]
  OBVIOUS
<1>1. /\ x.ino \in BlockNo /\ x.data_block_no \in BlockNo
      /\ x.dir_dentry_cnt \in 0 .. MaxMade /\ x.dir_dentry_cnt \in 0 .. made
  BY InodeFields
<1>2. made \in Nat
  BY Parts
<1>3. InodeD(x) \in DiskCell
  BY <1>1 DEF InodeD, DiskCell
<1> QED
  BY <1>1, <1>2, <1>3 DEF InodeD

\* A dentry other than the root's may be written to any cell.
LEMMA DentryCell ==
    ASSUME TypeOK, NEW d \in DOMAIN dentry \ {Root}
    PROVE  /\ DentryD(dentry[d]) \in DiskCell /\ DentryD(dentry[d]).type = "dentry"
           /\ DentryD(dentry[d]).ino = dentry[d].ino
           /\ DentryD(dentry[d]).file_type = dentry[d].file_type
           /\ DentryD(dentry[d]).name = dentry[d].name
<1> PICK x : x = dentry[d]
  OBVIOUS
<1>1. x.ino \in BlockNo /\ x.file_type \in FileType /\ x.name \in Name
  BY DentryFields
<1>2. DentryD(x) \in DiskCell
  BY <1>1 DEF DentryD, DiskCell
<1> QED
  BY <1>1, <1>2 DEF DentryD

\* A step that changes none but the disk, the stage and the stack.
LEMMA DiskStep ==
    ASSUME TypeInv, DiskType(disk', made), pc' \in Stages, work' \in Seq(Call(inode)),
           UNCHANGED <<dentry, inode, super, ls, confused, spoilt, live, durable, made>>
    PROVE  TypeOK'
<1>1. TypeOK
  BY DEF TypeInv
<1>2. /\ MemoryType(dentry, inode, made) /\ super \in SuperType
      /\ ls \in ListingType(made)
      /\ confused \in BOOLEAN /\ spoilt \subseteq Mishap
      /\ live \subseteq Path \X FileType /\ durable \subseteq Path \X FileType
      /\ made \in 0 .. MaxMade
  BY <1>1, Parts
<1>3. /\ dentry' = dentry /\ inode' = inode /\ super' = super /\ ls' = ls
      /\ confused' = confused /\ spoilt' = spoilt /\ live' = live /\ durable' = durable
      /\ made' = made
  OBVIOUS
<1>4. /\ MemoryType(dentry', inode', made') /\ super' \in SuperType
      /\ DiskType(disk', made') /\ ls' \in ListingType(made') /\ work' \in Seq(Call(inode'))
  BY <1>2, <1>3
<1>5. /\ confused' \in BOOLEAN /\ spoilt' \subseteq Mishap
      /\ live' \subseteq Path \X FileType /\ durable' \subseteq Path \X FileType
      /\ made' \in 0 .. MaxMade
  BY <1>2, <1>3
<1> QED
  BY <1>4, <1>5, PartsNext

\* The process is gone, in whatever state it was.
LEMMA ExitType ==
    ASSUME TypeInv, Exit, DiskType(disk', made), made' = made,
           spoilt' \subseteq Mishap, live' \subseteq Path \X FileType,
           durable' \subseteq Path \X FileType,
           ~disk'.magic => disk'.map_inode = {} /\ disk'.map_data = {}
    PROVE  TypeInv'
<1>1. made \in 0 .. MaxMade
  BY Parts DEF TypeInv
<1>2. /\ dentry' = <<>> /\ inode' = <<>> /\ super' = NoSuper /\ work' = <<>>
      /\ ls' = NoListing /\ confused' = FALSE /\ pc' = "unmounted"
  BY DEF Exit
<1>3. MemoryType(<<>>, <<>>, made)
  BY EmptyMemory
<1>4. NoSuper \in SuperType
  BY DEF NoSuper, SuperType
<1>5. NoListing \in ListingType(made)
  BY <1>1 DEF NoListing, ListingType
<1>6. <<>> \in Seq(Call(<<>>))
  OBVIOUS
<1>7. TypeOK'
  <2>1. /\ MemoryType(dentry', inode', made') /\ super' \in SuperType
        /\ DiskType(disk', made') /\ ls' \in ListingType(made')
    BY <1>2, <1>3, <1>4, <1>5
  <2>2. work' \in Seq(Call(inode'))
    BY <1>2, <1>6
  <2>3. pc' \in Stages /\ confused' \in BOOLEAN /\ made' \in 0 .. MaxMade
    BY <1>1, <1>2 DEF Stages
  <2> QED
    BY <2>1, <2>2, <2>3, PartsNext
<1>8. StageOk'
  BY <1>2 DEF StageOk
<1> QED
  BY <1>7, <1>8 DEF TypeInv

\* The first mount of a new disk keeps type and stage.
LEMMA FormatType ==
    ASSUME TypeInv, FormatNew
    PROVE  TypeInv'
<1> DEFINE s == [max_ino |-> MaxIno, max_data |-> MaxData,
                 map_inode |-> disk.map_inode, map_data |-> disk.map_data]
<1>1. /\ pc = "unmounted" /\ ~disk.magic /\ dentry' = <<RootDentry>> /\ pc' = "read_root"
      /\ UNCHANGED <<inode, work, ls, confused, spoilt, live, durable, made>>
  BY DEF FormatNew
<1>2. PICK a \in allocate_inode(s, "NFS_DIR") :
         super' = a.super /\ disk' = [disk EXCEPT !.cell[INO_OFS(a.ino)] = RootInode(a)]
  BY DEF FormatNew
<1>3. /\ DiskType(disk, made) /\ made \in Nat /\ made \in 0 .. MaxMade
      /\ work \in Seq(Call(inode)) /\ ls \in ListingType(made) /\ confused \in BOOLEAN
      /\ spoilt \subseteq Mishap /\ live \subseteq Path \X FileType
      /\ durable \subseteq Path \X FileType
  BY Parts DEF TypeInv
<1>4. s \in SuperType
  BY <1>3 DEF SuperType, DiskType
<1> HIDE DEF s
<1>5. a.super \in SuperType /\ a.ino \in BlockNo /\ a.block \in BlockNo
  BY <1>4, AllocResult DEF FileType
<1>6. /\ RootInode(a) \in DiskCell /\ RootInode(a).dir_dentry_cnt = 0
  BY <1>5 DEF RootInode, DiskCell
<1>7. /\ DiskType(disk', made) /\ disk'.magic = disk.magic
      /\ disk'.map_inode = disk.map_inode /\ disk'.map_data = disk.map_data
  <2> PICK v : v = RootInode(a)
    OBVIOUS
  <2> PICK o : o = INO_OFS(a.ino)
    OBVIOUS
  <2>1. v \in DiskCell /\ v.dir_dentry_cnt <= made
    BY <1>3, <1>6
  <2>2. disk' = [disk EXCEPT !.cell[o] = v]
    BY <1>2
  <2>3. DiskType(disk', made) /\ CellSet(disk, disk', o, v)
    BY <1>3, <2>1, <2>2, CellWritten
  <2> QED
    BY <2>3 DEF CellSet
<1>8. inode = <<>> /\ disk.map_inode = {} /\ disk.map_data = {}
  BY <1>1 DEF TypeInv, StageOk
<1>9. /\ MemoryType(dentry', inode', made') /\ super' \in SuperType /\ DiskType(disk', made')
      /\ pc' \in Stages
  BY <1>1, <1>2, <1>5, <1>7, <1>8, EmptyMemory DEF Stages
<1>10. TypeOK'
  <2>1. /\ work' \in Seq(Call(inode')) /\ ls' \in ListingType(made') /\ made' \in 0 .. MaxMade
        /\ confused' \in BOOLEAN /\ spoilt' \subseteq Mishap
        /\ live' \subseteq Path \X FileType /\ durable' \subseteq Path \X FileType
    BY <1>1, <1>3
  <2> QED
    BY <1>9, <2>1, PartsNext
<1>11. StageOk'
  BY <1>1, <1>7, <1>8 DEF StageOk
<1> QED
  BY <1>10, <1>11 DEF TypeInv

\* So does the mount of an old one.
LEMMA MountType ==
    ASSUME TypeInv, MountOld
    PROVE  TypeInv'
<1>1. /\ pc = "unmounted" /\ disk.magic /\ dentry' = <<RootDentry>> /\ pc' = "read_root"
      /\ super' = [NoSuper EXCEPT !.map_inode = disk.map_inode, !.map_data = disk.map_data]
      /\ UNCHANGED <<inode, disk, work, ls, confused, spoilt, live, durable, made>>
  BY DEF MountOld
<1>3. /\ DiskType(disk, made) /\ made \in 0 .. MaxMade
      /\ work \in Seq(Call(inode)) /\ ls \in ListingType(made) /\ confused \in BOOLEAN
      /\ spoilt \subseteq Mishap /\ live \subseteq Path \X FileType
      /\ durable \subseteq Path \X FileType
  BY Parts DEF TypeInv
<1>4. super' \in SuperType
  <2>1. disk.map_inode \in SUBSET Bit /\ disk.map_data \in SUBSET Bit
    BY <1>3 DEF DiskType
  <2>2. NoSuper \in SuperType
    BY DEF NoSuper, SuperType
  <2> QED
    BY <1>1, <2>1, <2>2 DEF SuperType
<1>5. inode = <<>>
  BY <1>1 DEF TypeInv, StageOk
<1>6. MemoryType(dentry', inode', made') /\ DiskType(disk', made') /\ pc' \in Stages
  BY <1>1, <1>3, <1>5, EmptyMemory DEF Stages
<1>7. TypeOK'
  <2>1. /\ work' \in Seq(Call(inode')) /\ ls' \in ListingType(made') /\ made' \in 0 .. MaxMade
        /\ confused' \in BOOLEAN /\ spoilt' \subseteq Mishap
        /\ live' \subseteq Path \X FileType /\ durable' \subseteq Path \X FileType
    BY <1>1, <1>3
  <2> QED
    BY <1>4, <1>6, <2>1, PartsNext
<1>8. StageOk'
  BY <1>1, <1>5 DEF StageOk
<1> QED
  BY <1>7, <1>8 DEF TypeInv

\* The first inode read is the root's.
LEMMA ReadRootType ==
    ASSUME TypeInv, ReadRoot
    PROVE  /\ TypeInv'
           /\ ~confused' => RootOk(dentry', inode')
<1> PICK m : m = read_inode(Root)
  OBVIOUS
<1>1. /\ pc = "read_root" /\ ~confused /\ pc' = "mounted"
      /\ dentry' = m.dentry /\ inode' = m.inode /\ confused' = m.confused
      /\ UNCHANGED <<super, disk, work, ls, spoilt, live, durable, made>>
  BY DEF ReadRoot, Remember
<1>2. TypeOK /\ dentry = <<RootDentry>> /\ inode = <<>>
  BY <1>1 DEF TypeInv, StageOk
<1>3. Root \in DOMAIN dentry /\ dentry[Root] = RootDentry
  BY <1>2 DEF Root
<1>4. /\ MemoryType(m.dentry, m.inode, made) /\ m.confused \in BOOLEAN
      /\ DOMAIN dentry \subseteq DOMAIN m.dentry /\ DOMAIN inode \subseteq DOMAIN m.inode
      /\ ~m.confused => m.dentry[Root].inode \in DOMAIN m.inode
  BY <1>2, <1>3, ReadType
<1>5. /\ super \in SuperType /\ DiskType(disk, made) /\ made \in 0 .. MaxMade
      /\ work \in Seq(Call(inode)) /\ ls \in ListingType(made)
      /\ spoilt \subseteq Mishap /\ live \subseteq Path \X FileType
      /\ durable \subseteq Path \X FileType
  BY <1>2, Parts
<1>6. work \in Seq(Call(m.inode))
  BY <1>4, <1>5, StackGrows
<1>7. TypeOK'
  <2>1. /\ MemoryType(dentry', inode', made') /\ super' \in SuperType /\ DiskType(disk', made')
        /\ work' \in Seq(Call(inode')) /\ ls' \in ListingType(made') /\ made' \in 0 .. MaxMade
    BY <1>1, <1>4, <1>5, <1>6
  <2>2. /\ confused' \in BOOLEAN /\ spoilt' \subseteq Mishap /\ pc' \in Stages
        /\ live' \subseteq Path \X FileType /\ durable' \subseteq Path \X FileType
    BY <1>1, <1>4, <1>5 DEF Stages
  <2> QED
    BY <2>1, <2>2, PartsNext
<1>8. ~m.confused => RootOk(m.dentry, m.inode)
  <2> SUFFICES ASSUME ~m.confused PROVE RootOk(m.dentry, m.inode)
    OBVIOUS
  <2>1. Readable(dentry[Root])
    BY DEF read_inode, Memory
  <2> PICK n : n = ChildCount(dentry[Root])
    OBVIOUS
  <2> PICK new : new = Len(inode) + 1
    OBVIOUS
  <2> PICK N : N = Len(dentry)
    OBVIOUS
  <2>2. ReadWell(m, Root, n, new, N)
    BY <1>2, <1>3, <2>1, ReadResult
  <2>3. new = Root
    BY <1>2 DEF Root
  <2>4. m.dentry[Root] = [RootDentry EXCEPT !.inode = Root] /\ m.inode[Root].dentry = Root
    BY <1>3, <2>2, <2>3 DEF ReadWell
  <2>5. /\ m.dentry[Root].inode = Root /\ m.dentry[Root].ino = 0
        /\ m.dentry[Root].file_type = "NFS_DIR"
    BY <2>4 DEF RootDentry
  <2> QED
    BY <1>3, <1>4, <2>4, <2>5 DEF RootOk
<1>9. StageOk'
  <2>1. ~disk.magic => disk.map_inode = {} /\ disk.map_data = {}
    BY DEF TypeInv, StageOk
  <2> QED
    BY <1>1, <1>8, <2>1 DEF StageOk
<1> QED
  BY <1>1, <1>7, <1>8, <1>9 DEF TypeInv

\* sync_inode: a call on the stack, and what it writes.
LEMMA SyncFacts ==
    ASSUME TypeInv, sync_inode, NEW f, f = Head(work)
    PROVE  /\ pc = "sync" /\ work # <<>> /\ work \in Seq(Call(inode))
           /\ f \in Call(inode) /\ Tail(work) \in Seq(Call(inode))
           /\ ToSet(work) = {f} \cup ToSet(Tail(work))
           /\ WriteInode(f) \/ WriteDentry(f) \/ Return(f)
           /\ UNCHANGED <<dentry, inode, super, pc, ls, confused, spoilt, live, durable, made>>
<1>1. /\ pc = "sync" /\ work # <<>>
      /\ WriteInode(f) \/ WriteDentry(f) \/ Return(f)
      /\ UNCHANGED <<dentry, inode, super, pc, ls, confused, spoilt, live, durable, made>>
  BY DEF sync_inode
<1>2. work \in Seq(Call(inode))
  BY Parts DEF TypeInv
<1> QED
  BY <1>1, <1>2, FirstAndRest

OnTop(S, p, g, w, v) == v \in Seq(S) /\ ToSet(v) = ToSet(p) \cup {g} \cup ToSet(w)

\* The stack after the head's frame became g, with the frames p on top.
LEMMA Pushed ==
    ASSUME NEW S, NEW w \in Seq(S), NEW g \in S, NEW p \in Seq(S), NEW v,
           v = p \o <<g>> \o w
    PROVE  OnTop(S, p, g, w, v)
<1> PICK x : x = p \o <<g>>
  OBVIOUS
<1>1. <<g>> \in Seq(S) /\ ToSet(<<g>>) = {g}
  BY Single
<1>2. Joined(S, p, <<g>>, x)
  BY <1>1, InARow
<1>3. x \in Seq(S) /\ ToSet(x) = ToSet(p) \cup {g}
  BY <1>1, <1>2 DEF Joined
<1>4. Joined(S, x, w, v)
  BY <1>3, InARow
<1> QED
  BY <1>3, <1>4 DEF Joined, OnTop

\* What is below an inode.
LEMMA BelowType ==
    ASSUME TypeOK, NEW i \in DOMAIN inode
    PROVE  /\ Below(i) \in Seq(DOMAIN dentry \ {Root}) /\ Len(Below(i)) \in Nat
           /\ DOMAIN Below(i) = 1 .. Len(Below(i))
           /\ \A k \in DOMAIN Below(i) : Below(i)[k] \in DOMAIN dentry \ {Root}
<1>1. Below(i) \in Seq(DOMAIN dentry \ {Root})
  BY InodeFields DEF Below
<1> QED
  BY <1>1, LenProperties, ElementOfSeq

\* A call takes one of the three steps, as far as it has come.
LEMMA OneStep ==
    ASSUME TypeOK, NEW f \in Call(inode)
    PROVE  /\ f.inode \in DOMAIN inode /\ f.next \in Nat
           /\ WriteInode(f) => f.next = 0 /\ ~WriteDentry(f) /\ ~Return(f)
           /\ WriteDentry(f) => f.next \in DOMAIN Below(f.inode) /\ ~WriteInode(f) /\ ~Return(f)
           /\ Return(f) => /\ f.next = Len(Below(f.inode)) + 1 /\ work' = Tail(work)
                           /\ ~WriteInode(f) /\ ~WriteDentry(f)
<1>1. f.inode \in DOMAIN inode /\ f.next \in Nat
  BY DEF Call
<1> PICK n : n = Len(Below(f.inode))
  OBVIOUS
<1>2. n \in Nat /\ DOMAIN Below(f.inode) = 1 .. n
  BY <1>1, BelowType
<1>3. WriteInode(f) => f.next = 0
  BY DEF WriteInode
<1>4. WriteDentry(f) => f.next \in DOMAIN Below(f.inode)
  BY DEF WriteDentry
<1>5. Return(f) => f.next = Len(Below(f.inode)) + 1 /\ work' = Tail(work)
  BY DEF Return
<1>6. ~(0 \in 1 .. n) /\ 0 # n + 1 /\ ~(n + 1 \in 1 .. n)
  BY <1>2
<1> QED
  BY <1>1, <1>2, <1>3, <1>4, <1>5, <1>6

\* The stack after each of the three steps of sync_inode.
LEMMA SyncStack ==
    ASSUME TypeInv, sync_inode, NEW f, f = Head(work)
    PROVE  /\ work' \in Seq(Call(inode))
           /\ WriteInode(f) => ToSet(work') = {[f EXCEPT !.next = 1]} \cup ToSet(Tail(work))
           /\ WriteDentry(f) =>
                 LET c == dentry[Below(f.inode)[f.next]].inode
                 IN  ToSet(work') = (IF c = NULL THEN {} ELSE {Frame(c)})
                                      \cup {[f EXCEPT !.next = @ + 1]} \cup ToSet(Tail(work))
           /\ Return(f) => work' = Tail(work)
<1> PICK w : w = Tail(work)
  OBVIOUS
<1>1. f \in Call(inode) /\ w \in Seq(Call(inode)) /\ TypeOK
      /\ (WriteInode(f) \/ WriteDentry(f) \/ Return(f))
  BY SyncFacts DEF TypeInv
<1>2. CASE WriteInode(f)
  <2> PICK g : g = [f EXCEPT !.next = 1]
    OBVIOUS
  <2>1. g \in Call(inode)
    BY <1>1 DEF Call
  <2>2. work' = <<g>> \o w
    BY <1>2 DEF WriteInode
  <2>3. <<g>> \in Seq(Call(inode)) /\ ToSet(<<g>>) = {g}
    BY <2>1, Single
  <2>4. Joined(Call(inode), <<g>>, w, work')
    BY <1>1, <2>2, <2>3, InARow
  <2>5. work' \in Seq(Call(inode)) /\ ToSet(work') = {g} \cup ToSet(w)
    BY <2>3, <2>4 DEF Joined
  <2>6. ~WriteDentry(f) /\ ~Return(f)
    BY <1>1, <1>2, OneStep
  <2> QED
    BY <2>5, <2>6
<1>3. CASE WriteDentry(f)
  <2> PICK g : g = [f EXCEPT !.next = @ + 1]
    OBVIOUS
  <2> PICK c : c = dentry[Below(f.inode)[f.next]].inode
    OBVIOUS
  <2> PICK p : p = IF c = NULL THEN <<>> ELSE <<Frame(c)>>
    OBVIOUS
  <2>0. f.next \in DOMAIN Below(f.inode) /\ work' = p \o <<g>> \o w
    BY <1>3 DEF WriteDentry
  <2>1. f.inode \in DOMAIN inode /\ f.next \in Nat
    BY <1>1 DEF Call
  <2>2. /\ Below(f.inode)[f.next] \in DOMAIN dentry
        /\ DOMAIN Below(f.inode) = 1 .. Len(Below(f.inode)) /\ Len(Below(f.inode)) \in Nat
    BY <1>1, <2>0, <2>1, BelowType
  <2>3. c \in {NULL} \cup DOMAIN inode
    BY <1>1, <2>2, DentryFields
  <2>4. g \in Call(inode)
    <3>1. f \in Call(inode) /\ f.next + 1 \in Nat
      BY <1>1, <2>1
    <3> QED
      BY <3>1 DEF Call
  <2>5. p \in Seq(Call(inode)) /\ ToSet(p) = IF c = NULL THEN {} ELSE {Frame(c)}
    <3>1. CASE c = NULL
      BY <3>1 DEF ToSet
    <3>2. CASE c # NULL
      <4>1. Frame(c) \in Call(inode)
        BY <2>3, <3>2 DEF Frame, Call
      <4> QED
        BY <3>2, <4>1, Single
    <3> QED
      BY <3>1, <3>2
  <2>6. work' \in Seq(Call(inode)) /\ ToSet(work') = ToSet(p) \cup {g} \cup ToSet(w)
    <3> PICK v : v = work'
      OBVIOUS
    <3>1. w \in Seq(Call(inode)) /\ p \in Seq(Call(inode)) /\ v = p \o <<g>> \o w
      BY <1>1, <2>0, <2>5
    <3>2. OnTop(Call(inode), p, g, w, v)
      BY <2>4, <3>1, Pushed
    <3> QED
      BY <3>2 DEF OnTop
  <2>7. ~WriteInode(f) /\ ~Return(f)
    BY <1>1, <1>3, OneStep
  <2> QED
    BY <2>5, <2>6, <2>7
<1>4. CASE Return(f)
  BY <1>1, <1>4, OneStep
<1> QED
  BY <1>1, <1>2, <1>3, <1>4

\* One step of sync_inode keeps type and stage.
LEMMA SyncType ==
    ASSUME TypeInv, sync_inode
    PROVE  TypeInv'
<1> PICK f : f = Head(work)
  OBVIOUS
<1>1. /\ pc = "sync" /\ f \in Call(inode)
      /\ WriteInode(f) \/ WriteDentry(f) \/ Return(f)
      /\ UNCHANGED <<dentry, inode, super, pc, ls, confused, spoilt, live, durable, made>>
  BY SyncFacts
<1>2. TypeOK /\ DiskType(disk, made) /\ made \in Nat /\ f.inode \in DOMAIN inode
  BY <1>1, Parts DEF TypeInv, Call
<1>3. DiskType(disk', made) /\ disk'.magic = disk.magic /\ disk'.map_inode = disk.map_inode
      /\ disk'.map_data = disk.map_data
  <2>1. CASE WriteInode(f)
    <3>1. disk' = [disk EXCEPT !.cell[INO_OFS(inode[f.inode].ino)] = InodeD(inode[f.inode])]
      BY <2>1 DEF WriteInode
    <3> PICK v : v = InodeD(inode[f.inode])
      OBVIOUS
    <3> PICK o : o = INO_OFS(inode[f.inode].ino)
      OBVIOUS
    <3>2. v \in DiskCell /\ v.dir_dentry_cnt <= made /\ disk' = [disk EXCEPT !.cell[o] = v]
      BY <1>2, <3>1, InodeCell
    <3>3. DiskType(disk', made) /\ CellSet(disk, disk', o, v)
      BY <1>2, <3>2, CellWritten
    <3> QED
      BY <3>3 DEF CellSet
  <2>2. CASE WriteDentry(f)
    <3> PICK d : d = Below(f.inode)[f.next]
      OBVIOUS
    <3>1. /\ f.next \in DOMAIN Below(f.inode)
          /\ disk' = [disk EXCEPT !.cell[ChildAt(f.inode, f.next)] = DentryD(dentry[d])]
      BY <2>2 DEF WriteDentry
    <3>2. d \in DOMAIN dentry \ {Root}
      BY <1>2, <3>1, BelowType
    <3>3. DentryD(dentry[d]) \in DiskCell /\ DentryD(dentry[d]).type # "inode"
      <4>1. DentryD(dentry[d]) \in DiskCell /\ DentryD(dentry[d]).type = "dentry"
        BY <1>2, <3>2, DentryCell
      <4> QED
        BY <4>1
    <3> PICK v : v = DentryD(dentry[d])
      OBVIOUS
    <3> PICK o : o = ChildAt(f.inode, f.next)
      OBVIOUS
    <3>4. v \in DiskCell /\ v.type # "inode" /\ disk' = [disk EXCEPT !.cell[o] = v]
      BY <3>1, <3>3
    <3>5. DiskType(disk', made) /\ CellSet(disk, disk', o, v)
      BY <1>2, <3>4, CellWritten
    <3> QED
      BY <3>5 DEF CellSet
  <2>3. CASE Return(f)
    BY <1>2, <2>3 DEF Return
  <2> QED
    BY <1>1, <2>1, <2>2, <2>3
<1>4. work' \in Seq(Call(inode))
  BY SyncStack
<1>5. TypeOK'
  <2>1. pc' \in Stages
    BY <1>1 DEF Stages, Destroying
  <2> QED
    BY <1>1, <1>3, <1>4, <2>1, DiskStep
<1>6. StageOk'
  <2>1. /\ ~disk.magic => disk.map_inode = {} /\ disk.map_data = {}
        /\ ~confused => RootOk(dentry, inode)
    BY <1>1 DEF TypeInv, StageOk
  <2> QED
    BY <1>1, <1>3, <2>1 DEF StageOk
<1> QED
  BY <1>5, <1>6 DEF TypeInv

\* newfs_destroy starts with the root on the stack.
LEMMA DestroyType ==
    ASSUME TypeInv, newfs_destroy
    PROVE  TypeInv'
<1>1. /\ pc = "mounted" /\ ~confused /\ pc' = "sync" /\ ls' = NoListing
      /\ work' = <<Frame(dentry[Root].inode)>>
      /\ UNCHANGED <<dentry, inode, super, disk, confused, spoilt, live, durable, made>>
  BY DEF newfs_destroy
<1>2. TypeOK /\ RootOk(dentry, inode)
  BY <1>1 DEF TypeInv, StageOk
<1>3. /\ MemoryType(dentry, inode, made) /\ super \in SuperType /\ DiskType(disk, made)
      /\ confused \in BOOLEAN /\ spoilt \subseteq Mishap
      /\ live \subseteq Path \X FileType /\ durable \subseteq Path \X FileType
      /\ made \in 0 .. MaxMade
  BY <1>2, Parts
<1>4. work' \in Seq(Call(inode'))
  <2>1. Frame(Root) \in Call(inode)
    BY <1>2 DEF RootOk, Frame, Call
  <2>2. <<Frame(Root)>> \in Seq(Call(inode))
    BY <2>1, Single
  <2> QED
    BY <1>1, <1>2, <2>2 DEF RootOk
<1>5. ls' \in ListingType(made')
  BY <1>1, <1>3 DEF NoListing, ListingType
<1>6. TypeOK'
  <2>1. MemoryType(dentry', inode', made') /\ super' \in SuperType /\ DiskType(disk', made')
    BY <1>1, <1>3
  <2>2. /\ confused' \in BOOLEAN /\ spoilt' \subseteq Mishap /\ pc' \in Stages
        /\ live' \subseteq Path \X FileType /\ durable' \subseteq Path \X FileType
        /\ made' \in 0 .. MaxMade
    BY <1>1, <1>3 DEF Stages, Destroying
  <2> QED
    BY <1>4, <1>5, <2>1, <2>2, PartsNext
<1>7. StageOk'
  <2>1. ~disk.magic => disk.map_inode = {} /\ disk.map_data = {}
    BY DEF TypeInv, StageOk
  <2> QED
    BY <1>1, <1>2, <2>1 DEF StageOk
<1> QED
  BY <1>6, <1>7 DEF TypeInv

\* With the stack empty the super block is next.
LEMMA EndSyncType ==
    ASSUME TypeInv, EndSync
    PROVE  TypeInv'
<1>1. /\ pc = "sync" /\ pc' = "super"
      /\ UNCHANGED <<dentry, inode, super, disk, work, ls, confused, spoilt, live, durable, made>>
  BY DEF EndSync
<1>2. DiskType(disk', made) /\ pc' \in Stages /\ work' \in Seq(Call(inode))
  BY <1>1, Parts DEF TypeInv, Stages, Destroying
<1>3. TypeOK'
  BY <1>1, <1>2, DiskStep
<1>4. /\ ~disk.magic => disk.map_inode = {} /\ disk.map_data = {}
      /\ ~confused => RootOk(dentry, inode)
  BY <1>1 DEF TypeInv, StageOk
<1>5. StageOk'
  BY <1>1, <1>4 DEF StageOk
<1> QED
  BY <1>3, <1>5 DEF TypeInv

\* The super block goes to the disk with its magic number.
LEMMA WriteSuperType ==
    ASSUME TypeInv, WriteSuper
    PROVE  TypeInv'
<1>1. /\ pc = "super" /\ pc' = "map_inode" /\ disk' = [disk EXCEPT !.magic = TRUE]
      /\ UNCHANGED <<dentry, inode, super, work, ls, confused, spoilt, live, durable, made>>
  BY DEF WriteSuper
<1>2. DiskType(disk, made) /\ work \in Seq(Call(inode))
  BY Parts DEF TypeInv
<1>3. DiskType(disk', made) /\ disk'.magic = TRUE
  BY <1>1, <1>2 DEF DiskType
<1>4. TypeOK'
  <2>1. pc' \in Stages /\ work' \in Seq(Call(inode))
    BY <1>1, <1>2 DEF Stages, Destroying
  <2> QED
    BY <1>1, <1>3, <2>1, DiskStep
<1>5. ~confused => RootOk(dentry, inode)
  BY <1>1 DEF TypeInv, StageOk
<1>6. StageOk'
  BY <1>1, <1>3, <1>5 DEF StageOk
<1> QED
  BY <1>4, <1>6 DEF TypeInv

\* The magic number is on the disk when the bitmaps are written.
LEMMA WriteMapInodeType ==
    ASSUME TypeInv, WriteMapInode
    PROVE  TypeInv'
<1>1. /\ pc = "map_inode" /\ pc' = "map_data"
      /\ disk' = [disk EXCEPT !.map_inode = super.map_inode]
      /\ UNCHANGED <<dentry, inode, super, work, ls, confused, spoilt, live, durable, made>>
  BY DEF WriteMapInode
<1>2. DiskType(disk, made) /\ work \in Seq(Call(inode)) /\ super \in SuperType
  BY Parts DEF TypeInv
<1>3. super.map_inode \in SUBSET Bit
  BY <1>2 DEF SuperType
<1>4. DiskType(disk', made) /\ disk'.magic = disk.magic /\ disk'.map_inode = super.map_inode
  BY <1>1, <1>2, <1>3 DEF DiskType
<1>5. TypeOK'
  <2>1. pc' \in Stages /\ work' \in Seq(Call(inode))
    BY <1>1, <1>2 DEF Stages, Destroying
  <2> QED
    BY <1>1, <1>4, <2>1, DiskStep
<1>6. disk.magic /\ (~confused => RootOk(dentry, inode))
  BY <1>1 DEF TypeInv, StageOk
<1>7. StageOk'
  BY <1>1, <1>4, <1>6 DEF StageOk
<1> QED
  BY <1>5, <1>7 DEF TypeInv

\* The last write of newfs_destroy, and the end of the process.
LEMMA WriteMapDataType ==
    ASSUME TypeInv, WriteMapData
    PROVE  TypeInv'
<1>1. /\ pc = "map_data" /\ disk' = [disk EXCEPT !.map_data = super.map_data]
      /\ durable' = live /\ Exit /\ UNCHANGED <<spoilt, live, made>>
  BY DEF WriteMapData
<1>2. /\ DiskType(disk, made) /\ super \in SuperType /\ spoilt \subseteq Mishap
      /\ live \subseteq Path \X FileType
  BY Parts DEF TypeInv
<1>3. super.map_data \in SUBSET Bit
  BY <1>2 DEF SuperType
<1>4. DiskType(disk', made) /\ disk'.magic = disk.magic
  BY <1>1, <1>2, <1>3 DEF DiskType
<1>5. disk.magic
  BY <1>1 DEF TypeInv, StageOk
<1> QED
  BY <1>1, <1>2, <1>4, <1>5, ExitType

\* A crash leaves the disk alone.
LEMMA CrashType ==
    ASSUME TypeInv, Crash
    PROVE  TypeInv'
<1>1. /\ Exit /\ live' = durable /\ UNCHANGED <<disk, durable, made>>
      /\ spoilt' \subseteq spoilt \cup {"torn"}
  BY DEF Crash
<1>2. /\ DiskType(disk, made) /\ spoilt \subseteq Mishap /\ durable \subseteq Path \X FileType
      /\ ~disk.magic => disk.map_inode = {} /\ disk.map_data = {}
  BY Parts DEF TypeInv, StageOk
<1>3. spoilt' \subseteq Mishap
  BY <1>1, <1>2 DEF Mishap
<1>4. /\ DiskType(disk', made) /\ live' \subseteq Path \X FileType /\ durable' \subseteq Path \X FileType
      /\ made' = made /\ (~disk'.magic => disk'.map_inode = {} /\ disk'.map_data = {})
  BY <1>1, <1>2
<1> QED
  BY <1>1, <1>3, <1>4, ExitType

\* The file system starts unmounted over an empty disk.
LEMMA TypeStart == Init => TypeInv
<1> SUFFICES ASSUME Init PROVE TypeInv
  OBVIOUS
<1>1. /\ dentry = <<>> /\ inode = <<>> /\ super = NoSuper
      /\ disk = [magic |-> FALSE, map_inode |-> {}, map_data |-> {},
                 cell |-> [a \in Address |-> Zero]]
      /\ pc = "unmounted" /\ work = <<>> /\ ls = NoListing
      /\ confused = FALSE /\ spoilt = {} /\ live = {} /\ durable = {} /\ made = 0
  BY DEF Init
<1>2. MemoryType(dentry, inode, made)
  BY <1>1, EmptyMemory
<1>3. super \in SuperType
  BY <1>1 DEF NoSuper, SuperType
<1>4. DiskType(disk, made)
  BY <1>1 DEF DiskType, DiskCell, Zero
<1>5. ls \in ListingType(made) /\ work \in Seq(Call(inode)) /\ pc \in Stages
  BY <1>1 DEF ListingType, NoListing, Stages
<1>6. TypeOK
  <2>1. \A a \in Address : Holds(a, "inode") => disk.cell[a].dir_dentry_cnt <= made
    BY <1>4 DEF Holds, DiskType
  <2>2. disk \in [magic : BOOLEAN, map_inode : SUBSET Bit, map_data : SUBSET Bit,
                  cell : [Address -> DiskCell]]
    BY <1>4 DEF DiskType
  <2>4. made \in 0 .. MaxMade
    BY <1>1
  <2>5. /\ confused \in BOOLEAN /\ spoilt \subseteq Mishap
        /\ live \subseteq Path \X FileType /\ durable \subseteq Path \X FileType
    BY <1>1
  <2>3. /\ pc \in {"unmounted", "read_root", "mounted"} \cup Destroying
        /\ work \in Seq([inode : DOMAIN inode, next : Nat])
        /\ ls \in [on : BOOLEAN, path : Path \cup {<<>>}, offset : 0 .. made,
                   had : SUBSET Name, seen : SUBSET Name]
    BY <1>5 DEF ListingType, Stages, Call
  <2> QED
    BY <1>2, <1>3, <2>1, <2>2, <2>3, <2>4, <2>5, MemoryIsTyped
<1>7. StageOk
  BY <1>1 DEF StageOk
<1> QED
  BY <1>6, <1>7 DEF TypeInv

\* Every step keeps type and stage.
LEMMA TypeStep == TypeInv /\ [Next]_vars => TypeInv'
<1> SUFFICES ASSUME TypeInv, [Next]_vars PROVE TypeInv'
  OBVIOUS
<1>1. ASSUME NEW path \in Path, newfs_mkdir(path) PROVE TypeInv'
  BY <1>1, CreateType DEF newfs_mkdir, FileType
<1>2. ASSUME NEW path \in Path, newfs_mknod(path) PROVE TypeInv'
  BY <1>2, CreateType DEF newfs_mknod, FileType
<1>3. ASSUME NEW path \in Path, newfs_getattr(path) PROVE TypeInv'
  BY <1>3, GetattrType
<1>4. ASSUME NEW path \in Path \cup {<<>>}, newfs_readdir(path) PROVE TypeInv'
  BY <1>4, ReaddirType
<1>5. CASE FormatNew
  BY <1>5, FormatType
<1>6. CASE MountOld
  BY <1>6, MountType
<1>7. CASE ReadRoot
  BY <1>7, ReadRootType
<1>8. CASE newfs_destroy
  BY <1>8, DestroyType
<1>9. CASE sync_inode
  BY <1>9, SyncType
<1>10. CASE EndSync
  BY <1>10, EndSyncType
<1>11. CASE WriteSuper
  BY <1>11, WriteSuperType
<1>12. CASE WriteMapInode
  BY <1>12, WriteMapInodeType
<1>13. CASE WriteMapData
  BY <1>13, WriteMapDataType
<1>14. CASE Crash
  BY <1>14, CrashType
<1>15. CASE UNCHANGED vars
  <2>1. /\ dentry' = dentry /\ inode' = inode /\ super' = super /\ disk' = disk /\ pc' = pc
        /\ work' = work /\ ls' = ls /\ confused' = confused /\ spoilt' = spoilt
        /\ live' = live /\ durable' = durable /\ made' = made
    BY <1>15 DEF vars
  <2>2. DiskType(disk', made) /\ pc' \in Stages /\ work' \in Seq(Call(inode))
    BY <2>1, Parts DEF TypeInv
  <2>3. TypeOK'
    BY <2>1, <2>2, DiskStep
  <2>4. StageOk'
    BY <2>1 DEF TypeInv, StageOk
  <2> QED
    BY <2>3, <2>4 DEF TypeInv
<1> QED
  BY <1>1, <1>2, <1>3, <1>4, <1>5, <1>6, <1>7, <1>8, <1>9, <1>10, <1>11, <1>12, <1>13, <1>14,
     <1>15 DEF Next

\* Type and stage are right in every reachable state.
LEMMA TypeAlways == Spec => []TypeInv
<1>1. Init => TypeInv
  BY TypeStart
<1>2. TypeInv /\ [Next]_vars => TypeInv'
  BY TypeStep
<1> QED
  BY <1>1, <1>2, PTL DEF Spec

(***************************************************************************)
(* Every variable stays in its range, mishaps and bytes taken for what     *)
(* they are not included: nothing points past the ends of the lists of     *)
(* dentries and inodes, dir_dentry_cnt is the length of its list, and each *)
(* cell of the disk holds zeros, an inode or a dentry in range.            *)
(***************************************************************************)
THEOREM NamespaceTypes == Spec => []TypeOK
<1>1. TypeInv => TypeOK
  BY DEF TypeInv
<1> QED
  BY <1>1, TypeAlways, PTL
-------------------------------------------------------------------------------
(***************************************************************************)
(* ConfusedNeedsMishap.  The invariant behind it says how the memory and   *)
(* the disk fit together: what is loaded, what is still on the disk alone, *)
(* and how far newfs_destroy has come.                                     *)
(***************************************************************************)

\* The dentries an inode on the disk has, counted from 0.
Kids(C, u) ==
    IF C[INO_OFS(u)].data_block_no = None THEN {} ELSE 0 .. C[INO_OFS(u)].dir_dentry_cnt - 1

Kid(C, u, k) == C[DENTRY_OFS(C[INO_OFS(u)].data_block_no) + k]

\* A directory has a block, a file none.
Fits(r, C) == r.file_type = "NFS_DIR" <=> C[INO_OFS(r.ino)].data_block_no # None

(***************************************************************************)
(* The inodes with the numbers U are on the disk with all that is below    *)
(* them: each number in its area, marked and referred to at most once,     *)
(* each block the block of one inode.                                      *)
(***************************************************************************)
Typed(C, U, mi, md) ==
    /\ U \subseteq Ino \cap mi
    /\ \A u \in U : /\ C[INO_OFS(u)].type = "inode" /\ C[INO_OFS(u)].ino = u
                    /\ C[INO_OFS(u)].dir_dentry_cnt \in 0 .. Cells
                    /\ C[INO_OFS(u)].data_block_no \in {None} \cup (Block \cap md)

BlocksOnce(C, U) ==
    \A u, v \in U : /\ C[INO_OFS(u)].data_block_no = C[INO_OFS(v)].data_block_no
                    /\ C[INO_OFS(u)].data_block_no # None
                    => u = v

KidsStored(C, U) ==
    \A u \in U : \A k \in Kids(C, u) :
        Kid(C, u, k).type = "dentry" /\ Kid(C, u, k).ino \in U /\ Fits(Kid(C, u, k), C)

KidsOnce(C, U) ==
    \A u, v \in U : \A k \in Kids(C, u), l \in Kids(C, v) :
        Kid(C, u, k).ino = Kid(C, v, l).ino => u = v /\ k = l

Stored(C, U, mi, md) ==
    Typed(C, U, mi, md) /\ BlocksOnce(C, U) /\ KidsStored(C, U) /\ KidsOnce(C, U)

(***************************************************************************)
(* The dentries D and inodes I of the memory hang together, and what is    *)
(* not loaded is among the stored inodes U, which hold nothing that is.    *)
(***************************************************************************)
Placed(D, C, U, mi) ==
    \A d \in DOMAIN D : /\ D[d].ino \in Ino \cap mi
                        /\ D[d].inode = NULL => D[d].ino \in U /\ Fits(D[d], C)
                        /\ D[d].inode # NULL => D[d].ino \notin U

NumbersOnce(D) == \A d, e \in DOMAIN D : D[d].ino = D[e].ino => d = e

NotBelow(D, C, U) == \A d \in DOMAIN D, u \in U : \A k \in Kids(C, u) : Kid(C, u, k).ino # D[d].ino

Paired(D, I, md) ==
    /\ \A i \in DOMAIN I :
          /\ D[I[i].dentry].inode = i /\ D[I[i].dentry].ino = I[i].ino
          /\ I[i].dir_dentry_cnt <= Cells
          /\ D[I[i].dentry].file_type = "NFS_DIR" => I[i].data_block_no \in Block \cap md
          /\ D[I[i].dentry].file_type # "NFS_DIR" => I[i].data_block_no = None
    /\ \A d \in DOMAIN D : D[d].inode # NULL => I[D[d].inode].dentry = d

OwnBlocks(I, C, U) ==
    /\ \A i, j \in DOMAIN I :
          I[i].data_block_no = I[j].data_block_no /\ I[i].data_block_no # None => i = j
    /\ \A i \in DOMAIN I, u \in U :
          I[i].data_block_no # None => C[INO_OFS(u)].data_block_no # I[i].data_block_no

ListedOnce(I) ==
    \A i, j \in DOMAIN I : \A k \in DOMAIN I[i].dentries, l \in DOMAIN I[j].dentries :
        I[i].dentries[k] = I[j].dentries[l] => i = j /\ k = l

Linked(D, I, C, U, mi, md) ==
    /\ Placed(D, C, U, mi) /\ NumbersOnce(D) /\ NotBelow(D, C, U)
    /\ Paired(D, I, md) /\ OwnBlocks(I, C, U) /\ ListedOnce(I)

\* The disk alone: everything is stored, and nothing but the mount refers to the root.
Whole(C, mi, md) ==
    \E U \in SUBSET Bit : Stored(C, U, mi, md) /\ Linked(<<RootDentry>>, <<>>, C, U, mi, md)

(***************************************************************************)
(* How far sync_inode has come.  Inode i has been written with its first n *)
(* dentries; the inodes in E are written with all that is below them, but  *)
(* for what the calls W on the stack still have to write.                  *)
(***************************************************************************)
Written(C, i, n) ==
    /\ C[INO_OFS(inode[i].ino)] = InodeD(inode[i])
    /\ \A k \in DOMAIN Below(i) : k <= n => C[ChildAt(i, k)] = DentryD(dentry[Below(i)[k]])

OnStack(W, i) == \E f \in W : f.inode = i

Followed(W, E, i, n) ==
    \A k \in DOMAIN Below(i) : k <= n =>
        LET c == dentry[Below(i)[k]].inode IN c = NULL \/ c \in E \/ OnStack(W, c)

Synced(C, W, E) ==
    /\ \A i \in E : Written(C, i, Len(Below(i))) /\ Followed(W, E, i, Len(Below(i)))
    /\ \A f \in W : f.next > 0 =>
          /\ f.next <= Len(Below(f.inode)) + 1
          /\ Written(C, f.inode, f.next - 1)
          /\ Followed(W, E, f.inode, f.next - 1)
    /\ Root \in E \/ OnStack(W, Root)

MemoryOk ==
    pc \in {"read_root", "mounted", "sync"} /\ spoilt = {} =>
        /\ ~confused
        /\ \E U \in SUBSET Bit :
              /\ Stored(disk.cell, U, super.map_inode, super.map_data)
              /\ Linked(dentry, inode, disk.cell, U, super.map_inode, super.map_data)

SyncOk ==
    pc = "sync" /\ spoilt = {} =>
        \E E \in SUBSET DOMAIN inode : Synced(disk.cell, ToSet(work), E)

DiskOk ==
    spoilt = {} =>
        /\ pc \notin Destroying /\ disk.magic => Whole(disk.cell, disk.map_inode, disk.map_data)
        /\ pc \in Destroying \ {"sync"} =>
              ~confused /\ Whole(disk.cell, super.map_inode, super.map_data)

ShapeInv == TypeInv /\ MemoryOk /\ SyncOk /\ DiskOk
-------------------------------------------------------------------------------
\* Nothing that belongs to the inodes U has changed from C to C2.
Same(C, C2, U) ==
    \A u \in U : /\ C2[INO_OFS(u)] = C[INO_OFS(u)]
                 /\ \A k \in Kids(C, u) : Kid(C2, u, k) = Kid(C, u, k)

\* Then the inodes U are as well stored as they were, and the memory as well linked.
LEMMA Unread ==
    ASSUME NEW C, NEW C2, NEW U, NEW mi, NEW md, NEW D, NEW I, Same(C, C2, U),
           Stored(C, U, mi, md), Linked(D, I, C, U, mi, md)
    PROVE  Stored(C2, U, mi, md) /\ Linked(D, I, C2, U, mi, md)
<1>1. \A u \in U : C2[INO_OFS(u)] = C[INO_OFS(u)] /\ Kids(C2, u) = Kids(C, u)
  BY DEF Same, Kids
<1>2. \A u \in U : \A k \in Kids(C, u) : Kid(C2, u, k) = Kid(C, u, k)
  BY DEF Same
<1>3. Typed(C2, U, mi, md) /\ BlocksOnce(C2, U)
  BY <1>1 DEF Stored, Typed, BlocksOnce
<1>4. KidsStored(C2, U)
  <2>1. KidsStored(C, U)
    BY DEF Stored
  <2> SUFFICES ASSUME NEW u \in U, NEW k \in Kids(C, u)
               PROVE  LET x == Kid(C, u, k)
                      IN  x.type = "dentry" /\ x.ino \in U /\ Fits(x, C2)
    BY <1>1, <1>2 DEF KidsStored
  <2> QED
    BY <1>1, <2>1 DEF KidsStored, Fits
<1>5. KidsOnce(C2, U)
  BY <1>1, <1>2 DEF Stored, KidsOnce
<1>6. Placed(D, C2, U, mi)
  BY <1>1 DEF Linked, Placed, Fits
<1>7. NotBelow(D, C2, U)
  BY <1>1, <1>2 DEF Linked, NotBelow
<1>8. OwnBlocks(I, C2, U)
  BY <1>1 DEF Linked, OwnBlocks
<1> QED
  BY <1>3, <1>4, <1>5, <1>6, <1>7, <1>8 DEF Stored, Linked

\* Where the dentries of the stored inodes are.
LEMMA KidPlace ==
    ASSUME NEW C, NEW U, NEW mi, NEW md, Typed(C, U, mi, md), NEW u \in U, NEW k \in Kids(C, u)
    PROVE  /\ C[INO_OFS(u)].data_block_no \in Block \cap md
           /\ C[INO_OFS(u)].dir_dentry_cnt \in 0 .. Cells
           /\ k \in 0 .. C[INO_OFS(u)].dir_dentry_cnt - 1
           /\ k \in 0 .. Cells - 1
  BY DEF Kids, Typed
-------------------------------------------------------------------------------
(***************************************************************************)
(* What read_inode finds at the number x of a dentry that is not loaded: n *)
(* dentries, the ones below x.                                             *)
(***************************************************************************)
Source(r, C, U, x, n) ==
    /\ Readable(r) /\ OnDisk(r) = C[INO_OFS(x)]
    /\ r.ino = x /\ x \in U
    /\ n \in 0 .. Cells /\ Kids(C, x) = 0 .. n - 1
    /\ \A k \in 1 .. n : /\ k - 1 \in Kids(C, x)
                         /\ ReadDentry(r, k).ino = Kid(C, x, k - 1).ino
                         /\ ReadDentry(r, k).name = Kid(C, x, k - 1).name
                         /\ ReadDentry(r, k).file_type = Kid(C, x, k - 1).file_type
                         /\ ReadDentry(r, k).inode = NULL

\* A stored inode is there, and it is what read_inode takes it for.
LEMMA FetchSource ==
    ASSUME NEW U, NEW mi, NEW md, Stored(disk.cell, U, mi, md),
           NEW r, r.ino \in U, Fits(r, disk.cell), NEW n, n = ChildCount(r)
    PROVE  Source(r, disk.cell, U, r.ino, n)
<1> PICK x : x = r.ino
  OBVIOUS
<1> PICK C : C = disk.cell
  OBVIOUS
<1> PICK c : c = C[INO_OFS(x)]
  OBVIOUS
<1>1. x \in U /\ Fits(r, C) /\ Typed(C, U, mi, md) /\ KidsStored(C, U)
  BY DEF Stored
<1>2. /\ x \in Ino /\ c.type = "inode" /\ c.dir_dentry_cnt \in 0 .. Cells
      /\ c.data_block_no \in {None} \cup (Block \cap md)
      /\ r.file_type = "NFS_DIR" <=> c.data_block_no # None
  BY <1>1 DEF Typed, Fits
<1>3. OnDisk(r) = c
  BY DEF OnDisk
<1>4. Ino \subseteq Bit /\ Block \subseteq Bit /\ None \notin Bit
  BY DEF Ino, Block, Bit, None
<1>5. x # None /\ Holds(INO_OFS(x), "inode")
  BY <1>2, <1>4, Addresses DEF Holds
<1>6. n \in 0 .. Cells /\ Kids(C, x) = 0 .. n - 1
  <2>1. CASE c.data_block_no = None
    <3>1. n = 0
      BY <1>2, <1>3, <2>1 DEF ChildCount
    <3> QED
      BY <2>1, <3>1 DEF Kids
  <2>2. CASE c.data_block_no # None
    <3>1. n = c.dir_dentry_cnt
      BY <1>2, <1>3, <2>2 DEF ChildCount
    <3> QED
      BY <1>2, <2>2, <3>1 DEF Kids
  <2> QED
    BY <2>1, <2>2
<1>7. ASSUME NEW k \in Kids(C, x)
      PROVE  /\ c.data_block_no \in Block /\ k \in 0 .. Cells - 1
             /\ DENTRY_OFS(c.data_block_no) + k \in Address /\ Kid(C, x, k).type = "dentry"
             /\ Kid(C, x, k) = C[DENTRY_OFS(c.data_block_no) + k]
  <2>1. c.data_block_no \in Block /\ k \in 0 .. Cells - 1
    BY <1>1, KidPlace
  <2>2. DENTRY_OFS(c.data_block_no) + k \in Address
    BY <1>4, <2>1, Addresses
  <2> QED
    BY <1>1, <2>1, <2>2 DEF KidsStored, Kid
<1>8. Readable(r)
  <2>1. ASSUME r.file_type = "NFS_DIR", NEW a \in ChildCells(c) PROVE Holds(a, "dentry")
    <3>1. c.data_block_no # None
      BY <1>2, <2>1
    <3>2. PICK k \in 0 .. c.dir_dentry_cnt - 1 : a = DENTRY_OFS(c.data_block_no) + k
      BY <2>1, <3>1 DEF ChildCells
    <3>3. k \in Kids(C, x)
      BY <3>1, <3>2 DEF Kids
    <3> QED
      BY <1>7, <3>2, <3>3 DEF Holds
  <2> QED
    BY <1>5, <2>1 DEF Readable
<1>9. ASSUME NEW k \in 1 .. n
      PROVE  /\ k - 1 \in Kids(C, x)
             /\ ReadDentry(r, k).ino = Kid(C, x, k - 1).ino
             /\ ReadDentry(r, k).name = Kid(C, x, k - 1).name
             /\ ReadDentry(r, k).file_type = Kid(C, x, k - 1).file_type
             /\ ReadDentry(r, k).inode = NULL
  <2>1. k - 1 \in Kids(C, x) /\ k \in Int
    BY <1>6
  <2> PICK b : b = c.data_block_no
    OBVIOUS
  <2>2. b \in Block /\ Kid(C, x, k - 1) = C[DENTRY_OFS(b) + (k - 1)]
    BY <1>7, <2>1
  <2>3. DENTRY_OFS(b) \in Int
    BY <2>2 DEF DENTRY_OFS, Block
  <2>4. DENTRY_OFS(b) + (k - 1) = DENTRY_OFS(b) + k - 1
    BY <2>1, <2>3
  <2>5. Kid(C, x, k - 1) = disk.cell[DENTRY_OFS(OnDisk(r).data_block_no) + k - 1]
    BY <1>3, <2>2, <2>4
  <2> QED
    BY <2>1, <2>5 DEF ReadDentry
<1> QED
  BY <1>1, <1>3, <1>6, <1>8, <1>9 DEF Source

(***************************************************************************)
(* One more inode loaded: x leaves the stored ones, and the dentries below *)
(* it are in the memory now.                                               *)
(***************************************************************************)
LEMMA FetchLinked ==
    ASSUME TypeOK, NEW U, NEW mi, NEW md, Stored(disk.cell, U, mi, md),
           Linked(dentry, inode, disk.cell, U, mi, md),
           NEW d \in DOMAIN dentry, dentry[d].inode = NULL,
           NEW x, NEW n, Source(dentry[d], disk.cell, U, x, n),
           NEW new, new = Len(inode) + 1, NEW N, N = Len(dentry),
           NEW m, ReadWell(m, d, n, new, N)
    PROVE  /\ Stored(disk.cell, U \ {x}, mi, md)
           /\ Linked(m.dentry, m.inode, disk.cell, U \ {x}, mi, md)
<1> PICK C : C = disk.cell
  OBVIOUS
<1> PICK D : D = m.dentry
  OBVIOUS
<1> PICK I : I = m.inode
  OBVIOUS
<1> PICK V : V = U \ {x}
  OBVIOUS
<1>1. /\ Typed(C, U, mi, md) /\ BlocksOnce(C, U) /\ KidsStored(C, U) /\ KidsOnce(C, U)
      /\ Placed(dentry, C, U, mi) /\ NumbersOnce(dentry) /\ NotBelow(dentry, C, U)
      /\ Paired(dentry, inode, md) /\ OwnBlocks(inode, C, U) /\ ListedOnce(inode)
  BY DEF Stored, Linked
<1>2. /\ dentry[d].ino = x /\ x \in U /\ n \in 0 .. Cells /\ Kids(C, x) = 0 .. n - 1
      /\ \A k \in 1 .. n : /\ k - 1 \in Kids(C, x)
                           /\ ReadDentry(dentry[d], k).ino = Kid(C, x, k - 1).ino
                           /\ ReadDentry(dentry[d], k).file_type = Kid(C, x, k - 1).file_type
                           /\ ReadDentry(dentry[d], k).inode = NULL
      /\ OnDisk(dentry[d]) = C[INO_OFS(x)]
  BY DEF Source
<1>3. /\ N \in Nat /\ DOMAIN dentry = 1 .. N /\ new \in Nat \ {0} /\ DOMAIN inode = 1 .. new - 1
      /\ NULL \notin DOMAIN inode
  BY Domains DEF NULL
<1>4. /\ DOMAIN D = 1 .. N + n /\ DOMAIN I = 1 .. new
  <2>1. D \in Seq(Dentry) /\ Len(D) = N + n /\ I \in Seq(Inode) /\ Len(I) = new
    BY DEF ReadWell
  <2> QED
    BY <2>1, LenProperties
<1>5. /\ D[d].ino = x /\ D[d].inode = new /\ D[d].file_type = dentry[d].file_type
  <2>1. D[d] = [dentry[d] EXCEPT !.inode = new] /\ dentry[d] \in Dentry
    BY DentryFields DEF ReadWell
  <2> QED
    BY <1>2, <2>1 DEF Dentry
<1>6. \A e \in 1 .. N : e # d => D[e] = dentry[e]
  BY <1>3 DEF ReadWell
<1>7. \A k \in 1 .. n : /\ D[N + k].ino = Kid(C, x, k - 1).ino
                        /\ D[N + k].file_type = Kid(C, x, k - 1).file_type
                        /\ D[N + k].inode = NULL
  <2> SUFFICES ASSUME NEW k \in 1 .. n
               PROVE  /\ D[N + k].ino = Kid(C, x, k - 1).ino
                      /\ D[N + k].file_type = Kid(C, x, k - 1).file_type
                      /\ D[N + k].inode = NULL
    OBVIOUS
  <2>1. D[N + k] = ReadDentry(dentry[d], k)
    BY DEF ReadWell
  <2> QED
    BY <1>2, <2>1
<1>8. \A e \in DOMAIN D : e \in 1 .. N \/ \E k \in 1 .. n : e = N + k
  <2> SUFFICES ASSUME NEW e \in 1 .. N + n, e \notin 1 .. N
               PROVE  \E k \in 1 .. n : e = N + k
    BY <1>4
  <2>1. e - N \in 1 .. n /\ e = N + (e - N)
    BY <1>2, <1>3
  <2> QED
    BY <2>1
<1>9. \A i \in DOMAIN inode : I[i] = inode[i]
  BY DEF ReadWell
<1>10. /\ I[new].ino = x /\ I[new].dentry = d /\ I[new].data_block_no = C[INO_OFS(x)].data_block_no
       /\ I[new].dir_dentry_cnt = n /\ DOMAIN I[new].dentries = 1 .. n
       /\ \A k \in 1 .. n : I[new].dentries[k] = N + n + 1 - k
  <2>1. C[INO_OFS(x)].ino = x
    BY <1>1, <1>2 DEF Typed
  <2> QED
    BY <1>2, <2>1 DEF ReadWell
<1>11. \A i \in DOMAIN I : i \in DOMAIN inode \/ i = new
  BY <1>3, <1>4
<1>12. Stored(C, V, mi, md)
  <2>1. ASSUME NEW u \in V, NEW k \in Kids(C, u)
        PROVE  Kid(C, u, k).type = "dentry" /\ Kid(C, u, k).ino \in V /\ Fits(Kid(C, u, k), C)
    <3>1. Kid(C, u, k).ino # x
      BY <1>1, <1>2 DEF NotBelow
    <3> QED
      BY <1>1, <3>1 DEF KidsStored
  <2>2. Typed(C, V, mi, md) /\ BlocksOnce(C, V) /\ KidsOnce(C, V)
    BY <1>1 DEF Typed, BlocksOnce, KidsOnce
  <2> QED
    BY <2>1, <2>2 DEF Stored, KidsStored
<1>13. Placed(D, C, V, mi)
  <2> SUFFICES ASSUME NEW e \in DOMAIN D
               PROVE  /\ D[e].ino \in Ino \cap mi
                      /\ D[e].inode = NULL => D[e].ino \in V /\ Fits(D[e], C)
                      /\ D[e].inode # NULL => D[e].ino \notin V
    BY DEF Placed
  <2>1. CASE e = d
    <3>1. x \in Ino \cap mi /\ new # NULL
      BY <1>1, <1>2, <1>3 DEF Typed, NULL
    <3> QED
      BY <1>5, <2>1, <3>1
  <2>2. CASE e \in 1 .. N /\ e # d
    <3>1. D[e] = dentry[e] /\ dentry[e].ino # x
      BY <1>1, <1>2, <1>3, <1>6, <2>2 DEF NumbersOnce
    <3> QED
      BY <1>1, <1>3, <2>2, <3>1 DEF Placed
  <2>3. ASSUME NEW k \in 1 .. n, e = N + k
        PROVE  D[e].ino \in Ino \cap mi /\ D[e].inode = NULL /\ D[e].ino \in V /\ Fits(D[e], C)
    <3> PICK y : y = Kid(C, x, k - 1)
      OBVIOUS
    <3>1. D[e].ino = y.ino /\ D[e].file_type = y.file_type /\ D[e].inode = NULL
      BY <1>7, <2>3
    <3>2. y.ino \in U /\ Fits(y, C)
      BY <1>1, <1>2 DEF KidsStored
    <3>3. y.ino # x
      BY <1>1, <1>2 DEF NotBelow
    <3> QED
      BY <1>1, <3>1, <3>2, <3>3 DEF Fits, Typed
  <2> QED
    BY <1>8, <2>1, <2>2, <2>3
<1>14. ASSUME NEW e \in 1 .. N, NEW k \in 1 .. n PROVE D[e].ino # D[N + k].ino
  <2>1. D[e].ino = dentry[e].ino
    BY <1>2, <1>5, <1>6
  <2>2. k - 1 \in Kids(C, x)
    BY <1>2
  <2>3. Kid(C, x, k - 1).ino # dentry[e].ino
    BY <1>1, <1>2, <1>3, <2>2 DEF NotBelow
  <2> QED
    BY <1>7, <2>1, <2>3
<1>15. NumbersOnce(D)
  <2> SUFFICES ASSUME NEW e \in DOMAIN D, NEW f \in DOMAIN D, D[e].ino = D[f].ino PROVE e = f
    BY DEF NumbersOnce
  <2>1. CASE e \in 1 .. N /\ f \in 1 .. N
    <3>1. D[e].ino = dentry[e].ino /\ D[f].ino = dentry[f].ino
      BY <1>2, <1>5, <1>6, <2>1
    <3> QED
      BY <1>1, <1>3, <2>1, <3>1 DEF NumbersOnce
  <2>2. ASSUME NEW k \in 1 .. n, NEW l \in 1 .. n, e = N + k, f = N + l PROVE e = f
    <3>1. Kid(C, x, k - 1).ino = Kid(C, x, l - 1).ino
      BY <1>7, <2>2
    <3>2. k - 1 \in Kids(C, x) /\ l - 1 \in Kids(C, x)
      BY <1>2
    <3>3. ASSUME NEW p \in Kids(C, x), NEW q \in Kids(C, x),
                 Kid(C, x, p).ino = Kid(C, x, q).ino
          PROVE  p = q
      <4>1. KidsOnce(C, U) /\ x \in U
        BY <1>1, <1>2
      <4> QED
        BY <3>3, <4>1 DEF KidsOnce
    <3>4. k - 1 = l - 1
      BY <3>1, <3>2, <3>3
    <3> QED
      BY <2>2, <3>4
  <2> QED
    BY <1>8, <1>14, <2>1, <2>2
<1>16. NotBelow(D, C, V)
  <2> SUFFICES ASSUME NEW e \in DOMAIN D, NEW u \in V, NEW k \in Kids(C, u)
               PROVE  Kid(C, u, k).ino # D[e].ino
    BY DEF NotBelow
  <2>1. CASE e \in 1 .. N
    <3>1. D[e].ino = dentry[e].ino
      BY <1>2, <1>5, <1>6, <2>1
    <3> QED
      BY <1>1, <1>3, <2>1, <3>1 DEF NotBelow
  <2>2. ASSUME NEW l \in 1 .. n, e = N + l PROVE Kid(C, u, k).ino # D[e].ino
    <3>1. l - 1 \in Kids(C, x) /\ D[e].ino = Kid(C, x, l - 1).ino
      BY <1>2, <1>7, <2>2
    <3>2. u # x /\ u \in U
      OBVIOUS
    <3>3. Kid(C, u, k).ino # Kid(C, x, l - 1).ino
      BY <1>1, <1>2, <3>1, <3>2 DEF KidsOnce
    <3> QED
      BY <3>1, <3>3
  <2> QED
    BY <1>8, <2>1, <2>2
<1>17. Paired(D, I, md)
  <2>1. ASSUME NEW i \in DOMAIN inode
        PROVE  /\ D[I[i].dentry].inode = i /\ D[I[i].dentry].ino = I[i].ino
               /\ I[i].dir_dentry_cnt <= Cells
               /\ D[I[i].dentry].file_type = "NFS_DIR" => I[i].data_block_no \in Block \cap md
               /\ D[I[i].dentry].file_type # "NFS_DIR" => I[i].data_block_no = None
    <3>1. inode[i].dentry \in 1 .. N
      BY <1>3, InodeFields
    <3>2. inode[i].dentry # d
      BY <1>1, <1>3 DEF Paired
    <3>3. D[inode[i].dentry] = dentry[inode[i].dentry]
      BY <1>6, <3>1, <3>2
    <3> QED
      BY <1>1, <1>9, <3>3 DEF Paired
  <2>2. /\ D[I[new].dentry].inode = new /\ D[I[new].dentry].ino = I[new].ino
        /\ I[new].dir_dentry_cnt <= Cells
        /\ D[I[new].dentry].file_type = "NFS_DIR" => I[new].data_block_no \in Block \cap md
        /\ D[I[new].dentry].file_type # "NFS_DIR" => I[new].data_block_no = None
    <3>1. C[INO_OFS(x)].data_block_no \in {None} \cup (Block \cap md)
      BY <1>1, <1>2 DEF Typed
    <3>2. dentry[d].file_type = "NFS_DIR" <=> C[INO_OFS(x)].data_block_no # None
      BY <1>1, <1>2 DEF Placed, Fits
    <3> QED
      BY <1>2, <1>5, <1>10, <3>1, <3>2
  <2>3. ASSUME NEW e \in DOMAIN D, D[e].inode # NULL PROVE I[D[e].inode].dentry = e
    <3>1. CASE e = d
      BY <1>5, <1>10, <3>1
    <3>2. CASE e \in 1 .. N /\ e # d
      <4>1. D[e] = dentry[e] /\ dentry[e].inode \in DOMAIN inode
        BY <1>3, <1>6, <2>3, <3>2, DentryFields
      <4> QED
        BY <1>1, <1>3, <1>9, <2>3, <3>2, <4>1 DEF Paired
    <3> QED
      BY <1>7, <1>8, <2>3, <3>1, <3>2
  <2> QED
    BY <1>11, <2>1, <2>2, <2>3 DEF Paired
<1>18. OwnBlocks(I, C, V)
  <2>1. ASSUME NEW i \in DOMAIN inode, I[i].data_block_no # None
        PROVE  I[i].data_block_no # I[new].data_block_no
    BY <1>1, <1>2, <1>9, <1>10, <2>1 DEF OwnBlocks
  <2>2. ASSUME NEW i \in DOMAIN I, NEW j \in DOMAIN I, I[i].data_block_no = I[j].data_block_no,
               I[i].data_block_no # None
        PROVE  i = j
    BY <1>1, <1>9, <1>11, <2>1, <2>2 DEF OwnBlocks
  <2>3. ASSUME NEW i \in DOMAIN I, NEW u \in V, I[i].data_block_no # None
        PROVE  C[INO_OFS(u)].data_block_no # I[i].data_block_no
    <3>1. CASE i \in DOMAIN inode
      BY <1>1, <1>9, <2>3, <3>1 DEF OwnBlocks
    <3>2. CASE i = new
      BY <1>1, <1>2, <1>10, <2>3, <3>2 DEF BlocksOnce
    <3> QED
      BY <1>11, <3>1, <3>2
  <2> QED
    BY <2>2, <2>3 DEF OwnBlocks
<1>19. ListedOnce(I)
  <2>1. ASSUME NEW i \in DOMAIN inode, NEW k \in DOMAIN inode[i].dentries
        PROVE  inode[i].dentries[k] \in 1 .. N
    <3>1. inode[i].dentries \in Seq(DOMAIN dentry \ {Root})
      BY InodeFields
    <3>2. inode[i].dentries[k] \in DOMAIN dentry
      BY <3>1, LenProperties, ElementOfSeq
    <3> QED
      BY <1>3, <3>2
  <2>2. \A k \in 1 .. n : I[new].dentries[k] \notin 1 .. N
    BY <1>2, <1>3, <1>10
  <2> SUFFICES ASSUME NEW i \in DOMAIN I, NEW j \in DOMAIN I, NEW k \in DOMAIN I[i].dentries,
                      NEW l \in DOMAIN I[j].dentries, I[i].dentries[k] = I[j].dentries[l]
               PROVE  i = j /\ k = l
    BY DEF ListedOnce
  <2>3. CASE i \in DOMAIN inode /\ j \in DOMAIN inode
    BY <1>1, <1>9, <2>3 DEF ListedOnce
  <2>4. CASE i = new /\ j = new
    <3>1. k \in 1 .. n /\ l \in 1 .. n /\ N + n + 1 - k = N + n + 1 - l
      BY <1>10, <2>4
    <3> QED
      BY <1>2, <1>3, <2>4, <3>1
  <2>5. CASE i \in DOMAIN inode /\ j = new
    <3>1. I[i].dentries[k] \in 1 .. N
      BY <1>9, <2>1, <2>5
    <3>2. I[j].dentries[l] \notin 1 .. N
      BY <1>10, <2>2, <2>5
    <3> QED
      BY <3>1, <3>2
  <2>6. CASE i = new /\ j \in DOMAIN inode
    <3>1. I[i].dentries[k] \notin 1 .. N
      BY <1>10, <2>2, <2>6
    <3>2. I[j].dentries[l] \in 1 .. N
      BY <1>9, <2>1, <2>6
    <3> QED
      BY <3>1, <3>2
  <2> QED
    BY <1>11, <2>3, <2>4, <2>5, <2>6
<1> QED
  BY <1>12, <1>13, <1>15, <1>16, <1>17, <1>18, <1>19 DEF Linked

\* The memory m and the disk C fit each other.
Fitting(m, C, mi, md) ==
    \E U \in SUBSET Bit : Stored(C, U, mi, md) /\ Linked(m.dentry, m.inode, C, U, mi, md)

\* What a handler has in memory after its lookup: nothing was taken for what it is not.
LEMMA FetchOk ==
    ASSUME TypeOK, NEW d \in DOMAIN dentry, NEW mi, NEW md,
           \E U \in SUBSET Bit : Stored(disk.cell, U, mi, md)
                                 /\ Linked(dentry, inode, disk.cell, U, mi, md)
    PROVE  ~Fetch(d).confused /\ Fitting(Fetch(d), disk.cell, mi, md)
<1>1. PICK U \in SUBSET Bit : Stored(disk.cell, U, mi, md)
                              /\ Linked(dentry, inode, disk.cell, U, mi, md)
  OBVIOUS
<1> PICK m : m = Fetch(d)
  OBVIOUS
<1>2. CASE dentry[d].inode # NULL
  <2>1. m.dentry = dentry /\ m.inode = inode /\ ~m.confused
    BY <1>2 DEF Fetch, Memory
  <2> QED
    BY <1>1, <2>1 DEF Fitting
<1>3. CASE dentry[d].inode = NULL
  <2> PICK n : n = ChildCount(dentry[d])
    OBVIOUS
  <2> PICK x : x = dentry[d].ino
    OBVIOUS
  <2> PICK new : new = Len(inode) + 1
    OBVIOUS
  <2> PICK N : N = Len(dentry)
    OBVIOUS
  <2>1. Source(dentry[d], disk.cell, U, x, n)
    <3>1. dentry[d].ino \in U /\ Fits(dentry[d], disk.cell)
      BY <1>1, <1>3 DEF Linked, Placed
    <3> QED
      BY <1>1, <3>1, FetchSource
  <2>2. m = read_inode(d) /\ Readable(dentry[d])
    BY <1>3, <2>1 DEF Fetch, Source
  <2>3. ReadWell(m, d, n, new, N)
    BY <2>2, ReadResult
  <2>4. ~m.confused
    BY <2>3 DEF ReadWell
  <2>5. /\ Stored(disk.cell, U \ {x}, mi, md)
        /\ Linked(m.dentry, m.inode, disk.cell, U \ {x}, mi, md)
    BY <1>1, <1>3, <2>1, <2>3, FetchLinked
  <2>6. U \ {x} \in SUBSET Bit
    OBVIOUS
  <2> QED
    BY <2>4, <2>5, <2>6 DEF Fitting
<1> QED
  BY <1>2, <1>3

(***************************************************************************)
(* A new dentry with a number and a block inside their areas, in a         *)
(* directory with room for it, fits in with the rest.                      *)
(***************************************************************************)
LEMMA MakeLinked ==
    ASSUME NEW m \in MemoryRecord, NEW c \in Nat, MemoryType(m.dentry, m.inode, c), c < MaxMade,
           NEW C, NEW U, NEW mi, NEW md, Stored(C, U, mi, md),
           Linked(m.dentry, m.inode, C, U, mi, md),
           NEW p \in DOMAIN m.inode, m.inode[p].dir_dentry_cnt < Cells,
           NEW name \in Name, NEW ft \in FileType,
           NEW a, NEW mi2, NEW md2, mi \subseteq mi2, md \subseteq md2,
           a.ino \in Ino, a.ino \notin mi, a.ino \in mi2,
           ft = "NFS_DIR" => a.block \in Block /\ a.block \notin md /\ a.block \in md2,
           ft # "NFS_DIR" => a.block = None,
           NEW d, d = Len(m.dentry) + 1, NEW new, new = Len(m.inode) + 1,
           NEW m2, MadeWell(m, m2, p, name, ft, a, d, new)
    PROVE  Stored(C, U, mi2, md2) /\ Linked(m2.dentry, m2.inode, C, U, mi2, md2)
<1> PICK D : D = m.dentry
  OBVIOUS
<1> PICK I : I = m.inode
  OBVIOUS
<1> PICK E : E = m2.dentry
  OBVIOUS
<1> PICK J : J = m2.inode
  OBVIOUS
<1>1. /\ Typed(C, U, mi, md) /\ BlocksOnce(C, U) /\ KidsStored(C, U) /\ KidsOnce(C, U)
      /\ Placed(D, C, U, mi) /\ NumbersOnce(D) /\ NotBelow(D, C, U)
      /\ Paired(D, I, md) /\ OwnBlocks(I, C, U) /\ ListedOnce(I)
  BY DEF Stored, Linked
<1>2. /\ d \in Nat \ {0} /\ DOMAIN D = 1 .. d - 1 /\ new \in Nat \ {0} /\ DOMAIN I = 1 .. new - 1
      /\ D \in Seq(Dentry) /\ I \in Seq(Inode)
  BY LenProperties DEF MemoryType
<1>3. Ino \subseteq Bit /\ None \notin Ino /\ None \notin Block /\ a.ino # None
  BY DEF Ino, Block, Bit, None
<1>4. /\ E \in Seq(Dentry) /\ Len(E) = d /\ J \in Seq(Inode) /\ Len(J) = new
      /\ \A e \in DOMAIN D : E[e] = D[e]
      /\ E[d] = [name |-> name, ino |-> a.ino, file_type |-> ft, inode |-> new]
      /\ \A i \in DOMAIN I \ {p} : J[i] = I[i]
      /\ J[p] = [I[p] EXCEPT !.dentries = <<d>> \o @, !.dir_dentry_cnt = @ + 1]
      /\ J[new] = [ino |-> a.ino, dentry |-> d, dir_dentry_cnt |-> 0,
                   dentries |-> <<>>, data_block_no |-> a.block]
  BY <1>3 DEF MadeWell
<1>5. DOMAIN E = 1 .. d /\ DOMAIN J = 1 .. new
  BY <1>4, LenProperties
<1>6. \A e \in DOMAIN E : e \in DOMAIN D \/ e = d
  BY <1>2, <1>5
<1>7. \A i \in DOMAIN J : i \in DOMAIN I \/ i = new
  BY <1>2, <1>5
<1>8. E[d].ino = a.ino /\ E[d].inode = new /\ E[d].file_type = ft
  BY <1>4
<1>9. /\ J[new].ino = a.ino /\ J[new].dentry = d /\ J[new].dir_dentry_cnt = 0
      /\ J[new].data_block_no = a.block /\ DOMAIN J[new].dentries = {}
  BY <1>4
<1>10. I[p] \in Inode /\ I[p].dir_dentry_cnt < MaxMade
  <2>1. I[p] \in Inode
    BY <1>2, LenProperties, ElementOfSeq
  <2>2. I[p].dir_dentry_cnt <= c /\ I[p].dir_dentry_cnt \in 0 .. MaxMade
    BY <2>1 DEF MemoryType, Inode
  <2> QED
    BY <2>1, <2>2
<1>11. Grown(I[p], d, J[p])
  BY <1>2, <1>4, <1>10, GrownInode
<1>12. /\ J[p].ino = I[p].ino /\ J[p].dentry = I[p].dentry
       /\ J[p].data_block_no = I[p].data_block_no
       /\ J[p].dir_dentry_cnt = I[p].dir_dentry_cnt + 1
       /\ DOMAIN J[p].dentries = 1 .. Len(I[p].dentries) + 1
       /\ J[p].dentries[1] = d
       /\ \A k \in DOMAIN I[p].dentries : J[p].dentries[1 + k] = I[p].dentries[k]
  BY <1>11 DEF Grown
<1>13. \A i \in DOMAIN I : /\ J[i].ino = I[i].ino /\ J[i].dentry = I[i].dentry
                           /\ J[i].data_block_no = I[i].data_block_no
  BY <1>4, <1>12
<1>14. \A i \in DOMAIN I : I[i].data_block_no \in {None} \cup md
  BY <1>1 DEF Paired
<1>15. a.block # None => a.block \notin md
  OBVIOUS
<1>16. Stored(C, U, mi2, md2)
  BY <1>1 DEF Stored, Typed
<1>17. Placed(E, C, U, mi2)
  <2>1. a.ino \notin U /\ new # NULL
    BY <1>1, <1>2 DEF Typed, NULL
  <2> SUFFICES ASSUME NEW e \in DOMAIN E
               PROVE  /\ E[e].ino \in Ino \cap mi2
                      /\ E[e].inode = NULL => E[e].ino \in U /\ Fits(E[e], C)
                      /\ E[e].inode # NULL => E[e].ino \notin U
    BY DEF Placed
  <2>2. CASE e = d
    BY <1>8, <2>1, <2>2
  <2>3. CASE e \in DOMAIN D
    BY <1>1, <1>4, <2>3 DEF Placed
  <2> QED
    BY <1>6, <2>2, <2>3
<1>18. \A e \in DOMAIN D : E[e].ino # a.ino /\ E[e].ino = D[e].ino
  BY <1>1, <1>4 DEF Placed
<1>19. NumbersOnce(E)
  BY <1>1, <1>6, <1>8, <1>18 DEF NumbersOnce
<1>20. NotBelow(E, C, U)
  <2> SUFFICES ASSUME NEW e \in DOMAIN E, NEW u \in U, NEW k \in Kids(C, u)
               PROVE  Kid(C, u, k).ino # E[e].ino
    BY DEF NotBelow
  <2>1. Kid(C, u, k).ino \in mi
    BY <1>1 DEF KidsStored, Typed
  <2>2. CASE e = d
    BY <1>8, <2>1, <2>2
  <2>3. CASE e \in DOMAIN D
    BY <1>1, <1>18, <2>3 DEF NotBelow
  <2> QED
    BY <1>6, <2>2, <2>3
<1>21. Paired(E, J, md2)
  <2>1. ASSUME NEW i \in DOMAIN I
        PROVE  /\ E[J[i].dentry].inode = i /\ E[J[i].dentry].ino = J[i].ino
               /\ J[i].dir_dentry_cnt <= Cells
               /\ E[J[i].dentry].file_type = "NFS_DIR" => J[i].data_block_no \in Block \cap md2
               /\ E[J[i].dentry].file_type # "NFS_DIR" => J[i].data_block_no = None
    <3>1. I[i].dentry \in DOMAIN D
      BY DEF MemoryType
    <3>2. E[I[i].dentry] = D[I[i].dentry]
      BY <1>4, <3>1
    <3>3. J[i].dir_dentry_cnt <= Cells
      <4>1. CASE i = p
        <5>1. I[p].dir_dentry_cnt \in Nat /\ I[p].dir_dentry_cnt < Cells
          BY <1>10 DEF Inode
        <5> QED
          BY <1>12, <4>1, <5>1
      <4>2. CASE i # p
        BY <1>1, <1>4, <4>2 DEF Paired
      <4> QED
        BY <4>1, <4>2
    <3>4. Paired(D, I, md)
      BY <1>1
    <3>5. /\ D[I[i].dentry].inode = i /\ D[I[i].dentry].ino = I[i].ino
          /\ D[I[i].dentry].file_type = "NFS_DIR" => I[i].data_block_no \in Block \cap md
          /\ D[I[i].dentry].file_type # "NFS_DIR" => I[i].data_block_no = None
      BY <3>4 DEF Paired
    <3>6. /\ J[i].ino = I[i].ino /\ J[i].dentry = I[i].dentry
          /\ J[i].data_block_no = I[i].data_block_no
      BY <1>13
    <3> QED
      BY <3>2, <3>3, <3>5, <3>6
  <2>2. /\ E[J[new].dentry].inode = new /\ E[J[new].dentry].ino = J[new].ino
        /\ J[new].dir_dentry_cnt <= Cells
        /\ E[J[new].dentry].file_type = "NFS_DIR" => J[new].data_block_no \in Block \cap md2
        /\ E[J[new].dentry].file_type # "NFS_DIR" => J[new].data_block_no = None
    BY <1>8, <1>9
  <2>3. ASSUME NEW e \in DOMAIN E, E[e].inode # NULL PROVE J[E[e].inode].dentry = e
    <3>1. CASE e = d
      BY <1>8, <1>9, <3>1
    <3>2. CASE e \in DOMAIN D
      <4>1. E[e] = D[e] /\ D[e].inode \in DOMAIN I
        BY <1>4, <2>3, <3>2 DEF MemoryType
      <4> QED
        BY <1>1, <1>13, <2>3, <3>2, <4>1 DEF Paired
    <3> QED
      BY <1>6, <3>1, <3>2
  <2> QED
    BY <1>7, <2>1, <2>2, <2>3 DEF Paired
<1>22. OwnBlocks(J, C, U)
  <2>1. ASSUME NEW i \in DOMAIN J, NEW j \in DOMAIN J, J[i].data_block_no = J[j].data_block_no,
               J[i].data_block_no # None
        PROVE  i = j
    <3>1. CASE i \in DOMAIN I /\ j \in DOMAIN I
      BY <1>1, <1>13, <2>1, <3>1 DEF OwnBlocks
    <3> QED
      BY <1>7, <1>9, <1>13, <1>14, <1>15, <2>1, <3>1
  <2>2. ASSUME NEW i \in DOMAIN J, NEW u \in U, J[i].data_block_no # None
        PROVE  C[INO_OFS(u)].data_block_no # J[i].data_block_no
    <3>1. CASE i \in DOMAIN I
      BY <1>1, <1>13, <2>2, <3>1 DEF OwnBlocks
    <3>2. CASE i = new
      BY <1>1, <1>9, <1>15, <2>2, <3>2 DEF Typed
    <3> QED
      BY <1>7, <3>1, <3>2
  <2> QED
    BY <2>1, <2>2 DEF OwnBlocks
<1>23. ASSUME NEW i \in DOMAIN I, NEW k \in DOMAIN J[i].dentries
       PROVE  \/ i = p /\ k = 1 /\ J[i].dentries[k] = d
              \/ i = p /\ k - 1 \in DOMAIN I[i].dentries /\ J[i].dentries[k] = I[i].dentries[k - 1]
              \/ i # p /\ k \in DOMAIN I[i].dentries /\ J[i].dentries[k] = I[i].dentries[k]
  <2>1. CASE i # p
    BY <1>4, <2>1
  <2>2. CASE i = p /\ k = 1
    BY <1>12, <2>2
  <2>3. CASE i = p /\ k # 1
    <3>1. I[p].dentries \in Seq(Nat \ {0})
      BY <1>10 DEF Inode
    <3>2. Len(I[p].dentries) \in Nat /\ DOMAIN I[p].dentries = 1 .. Len(I[p].dentries)
      BY <3>1, LenProperties
    <3>3. k \in 1 .. Len(I[p].dentries) + 1
      BY <1>12, <2>3
    <3>4. k - 1 \in DOMAIN I[p].dentries /\ k = 1 + (k - 1)
      BY <2>3, <3>2, <3>3
    <3> QED
      BY <1>12, <2>3, <3>4
  <2> QED
    BY <2>1, <2>2, <2>3
<1>24. \A i \in DOMAIN I : \A k \in DOMAIN I[i].dentries : I[i].dentries[k] # d
  <2> SUFFICES ASSUME NEW i \in DOMAIN I, NEW k \in DOMAIN I[i].dentries
               PROVE  I[i].dentries[k] \in DOMAIN D
    BY <1>2
  <2>1. ToSet(I[i].dentries) \subseteq DOMAIN D
    BY DEF MemoryType
  <2>2. I[i].dentries[k] \in ToSet(I[i].dentries)
    BY DEF ToSet
  <2> QED
    BY <2>1, <2>2
<1>25. ListedOnce(J)
  <2> SUFFICES ASSUME NEW i \in DOMAIN J, NEW j \in DOMAIN J, NEW k \in DOMAIN J[i].dentries,
                      NEW l \in DOMAIN J[j].dentries, J[i].dentries[k] = J[j].dentries[l]
               PROVE  i = j /\ k = l
    BY DEF ListedOnce
  <2>1. i \in DOMAIN I /\ j \in DOMAIN I
    BY <1>7, <1>9
  <2>2. k \in Int /\ l \in Int
    <3>1. J[i] \in Inode /\ J[j] \in Inode
      BY <1>4, <1>5, LenProperties, ElementOfSeq
    <3>2. J[i].dentries \in Seq(Nat \ {0}) /\ J[j].dentries \in Seq(Nat \ {0})
      BY <3>1 DEF Inode
    <3>3. /\ DOMAIN J[i].dentries = 1 .. Len(J[i].dentries) /\ Len(J[i].dentries) \in Nat
          /\ DOMAIN J[j].dentries = 1 .. Len(J[j].dentries) /\ Len(J[j].dentries) \in Nat
      BY <3>2, LenProperties
    <3>4. k \in 1 .. Len(J[i].dentries) /\ l \in 1 .. Len(J[j].dentries)
      BY <3>3
    <3> QED
      BY <3>4
  <2>3. \A q \in DOMAIN I[i].dentries, r \in DOMAIN I[j].dentries :
           I[i].dentries[q] = I[j].dentries[r] => i = j /\ q = r
    BY <1>1, <2>1 DEF ListedOnce
  <2>4. \/ i = p /\ k = 1 /\ J[i].dentries[k] = d
        \/ i = p /\ k - 1 \in DOMAIN I[i].dentries /\ J[i].dentries[k] = I[i].dentries[k - 1]
        \/ i # p /\ k \in DOMAIN I[i].dentries /\ J[i].dentries[k] = I[i].dentries[k]
    BY <1>23, <2>1
  <2>5. \/ j = p /\ l = 1 /\ J[j].dentries[l] = d
        \/ j = p /\ l - 1 \in DOMAIN I[j].dentries /\ J[j].dentries[l] = I[j].dentries[l - 1]
        \/ j # p /\ l \in DOMAIN I[j].dentries /\ J[j].dentries[l] = I[j].dentries[l]
    BY <1>23, <2>1
  <2>6. k - 1 = l - 1 => k = l
    BY <2>2
  <2> QED
    BY <1>24, <2>1, <2>3, <2>4, <2>5, <2>6
<1> QED
  BY <1>16, <1>17, <1>19, <1>20, <1>21, <1>22, <1>25 DEF Linked
-------------------------------------------------------------------------------
\* The memory as a handler finds it.
LEMMA MountedFits ==
    ASSUME ShapeInv, pc \in {"read_root", "mounted", "sync"}, spoilt = {}
    PROVE  /\ ~confused
           /\ \E U \in SUBSET Bit :
                 /\ Stored(disk.cell, U, super.map_inode, super.map_data)
                 /\ Linked(dentry, inode, disk.cell, U, super.map_inode, super.map_data)
  BY DEF ShapeInv, MemoryOk

\* A step of a mounted file system that leaves the disk alone.
LEMMA ServedShape ==
    ASSUME ShapeInv, TypeInv', pc = "mounted", disk' = disk, pc' = pc, spoilt' = {} => spoilt = {},
           NEW m, Remember(m),
           spoilt' = {} => /\ ~m.confused
                           /\ Fitting(m, disk.cell, super'.map_inode, super'.map_data)
    PROVE  ShapeInv'
<1>1. dentry' = m.dentry /\ inode' = m.inode /\ confused' = m.confused
  BY DEF Remember
<1>2. MemoryOk'
  BY <1>1 DEF MemoryOk, Fitting
<1>3. SyncOk'
  BY DEF SyncOk
<1>4. DiskOk'
  <2>1. pc \notin Destroying
    BY DEF Destroying
  <2> QED
    BY <2>1 DEF ShapeInv, DiskOk
<1> QED
  BY <1>2, <1>3, <1>4 DEF ShapeInv

\* getattr keeps the shape.
LEMMA GetattrShape ==
    ASSUME ShapeInv, TypeInv', NEW path \in Path, newfs_getattr(path)
    PROVE  ShapeInv'
<1> PICK d : d = lookup(path).ret
  OBVIOUS
<1> PICK m : m = Fetch(d)
  OBVIOUS
<1>1. /\ Serving(path) /\ Remember(m)
      /\ UNCHANGED <<super, disk, pc, work, ls, spoilt, live, durable, made>>
  BY DEF newfs_getattr
<1>2. TypeOK /\ pc = "mounted" /\ d \in DOMAIN dentry
  BY <1>1, ServingFacts DEF ShapeInv
<1>3. ASSUME spoilt = {}
      PROVE  ~m.confused /\ Fitting(m, disk.cell, super.map_inode, super.map_data)
  <2>1. \E U \in SUBSET Bit :
           /\ Stored(disk.cell, U, super.map_inode, super.map_data)
           /\ Linked(dentry, inode, disk.cell, U, super.map_inode, super.map_data)
    BY <1>2, <1>3, MountedFits
  <2> QED
    BY <1>2, <2>1, FetchOk
<1> QED
  BY <1>1, <1>2, <1>3, ServedShape

\* So does one call of readdir.
LEMMA ReaddirShape ==
    ASSUME ShapeInv, TypeInv', NEW path \in Path \cup {<<>>}, newfs_readdir(path)
    PROVE  ShapeInv'
<1> PICK d : d = lookup(path).ret
  OBVIOUS
<1> PICK m : m = Fetch(d)
  OBVIOUS
<1>1. /\ Serving(path) /\ Remember(m)
      /\ UNCHANGED <<super, disk, pc, work, spoilt, live, durable, made>>
  BY DEF newfs_readdir
<1>2. TypeOK /\ pc = "mounted" /\ d \in DOMAIN dentry
  BY <1>1, ServingFacts DEF ShapeInv
<1>3. ASSUME spoilt = {}
      PROVE  ~m.confused /\ Fitting(m, disk.cell, super.map_inode, super.map_data)
  <2>1. \E U \in SUBSET Bit :
           /\ Stored(disk.cell, U, super.map_inode, super.map_data)
           /\ Linked(dentry, inode, disk.cell, U, super.map_inode, super.map_data)
    BY <1>2, <1>3, MountedFits
  <2> QED
    BY <1>2, <2>1, FetchOk
<1> QED
  BY <1>1, <1>2, <1>3, ServedShape

\* What allocate_inode returns when neither number lies outside its area.
LEMMA Inside ==
    ASSUME NEW s \in SuperType, NEW ft \in FileType, NEW a \in allocate_inode(s, ft), ~Outside(a, ft)
    PROVE  /\ a.ino \in Ino /\ a.ino \notin s.map_inode /\ a.ino \in a.super.map_inode
           /\ ft = "NFS_DIR" => /\ a.block \in Block /\ a.block \notin s.map_data
                                /\ a.block \in a.super.map_data
           /\ ft # "NFS_DIR" => a.block = None
           /\ s.map_inode \subseteq a.super.map_inode /\ s.map_data \subseteq a.super.map_data
<1>1. a.ino \in Ino /\ (ft = "NFS_DIR" => a.block \in Block)
  BY DEF Outside, Ino, Block
<1>2. None \notin Ino /\ None \notin Block
  BY DEF None, Ino, Block
<1> QED
  BY <1>1, <1>2, AllocResult

\* mkdir and mknod: without a mishap the new dentry fits in.
LEMMA CreateShape ==
    ASSUME ShapeInv, TypeInv', NEW path \in Path, NEW ft \in FileType, Create(path, ft)
    PROVE  ShapeInv'
<1> PICK d : d = lookup(path).ret
  OBVIOUS
<1> PICK m : m = Fetch(d)
  OBVIOUS
<1> PICK p : p = m.dentry[d].inode
  OBVIOUS
<1>1. Serving(path) /\ made < MaxMade /\ UNCHANGED <<disk, pc, work, ls, durable>>
  BY DEF Create
<1>2. IF m.confused THEN Remember(m) /\ UNCHANGED <<super, live, made, spoilt>>
      ELSE Make(path, m, p, ft)
  BY DEF Create
<1>3. TypeOK /\ pc = "mounted" /\ d \in DOMAIN dentry /\ Fetched(d, m)
  BY <1>1, ServingFacts DEF ShapeInv
<1>4. ASSUME spoilt = {}
      PROVE  ~m.confused /\ Fitting(m, disk.cell, super.map_inode, super.map_data)
  <2>1. \E U \in SUBSET Bit :
           /\ Stored(disk.cell, U, super.map_inode, super.map_data)
           /\ Linked(dentry, inode, disk.cell, U, super.map_inode, super.map_data)
    BY <1>3, <1>4, MountedFits
  <2> QED
    BY <1>3, <2>1, FetchOk
<1>5. CASE m.confused
  BY <1>1, <1>2, <1>3, <1>4, <1>5, ServedShape
<1>6. CASE ~m.confused
  <2>1. PICK a \in allocate_inode(super, ft) :
           /\ super' = a.super
           /\ Remember(allocate_dentry(m, p, Last(path), ft, a))
           /\ spoilt' = spoilt \cup (IF Outside(a, ft) THEN {"outside"} ELSE {})
                               \cup (IF m.inode[p].dir_dentry_cnt >= Cells THEN {"overfull"} ELSE {})
    BY <1>2, <1>6 DEF Make
  <2> PICK name : name = Last(path)
    OBVIOUS
  <2> PICK m2 : m2 = allocate_dentry(m, p, name, ft, a)
    OBVIOUS
  <2> PICK e : e = Len(m.dentry) + 1
    OBVIOUS
  <2> PICK new : new = Len(m.inode) + 1
    OBVIOUS
  <2>2. /\ m \in MemoryRecord /\ MemoryType(m.dentry, m.inode, made)
        /\ p \in DOMAIN m.inode /\ name \in Name
    BY <1>3, <1>6, PathType DEF Fetched
  <2>3. super \in SuperType /\ made \in Nat
    BY <1>3, Parts
  <2>4. a.ino \in BlockNo /\ a.block \in BlockNo
    BY <2>3, AllocResult
  <2>5. MadeWell(m, m2, p, name, ft, a, e, new)
    BY <1>1, <2>2, <2>3, <2>4, MadeResult
  <2>6. Remember(m2) /\ m2.confused = m.confused
    BY <2>1, <2>5 DEF MadeWell
  <2>7. ASSUME spoilt' = {}
        PROVE  Fitting(m2, disk.cell, super'.map_inode, super'.map_data)
    <3>1. spoilt = {} /\ ~Outside(a, ft) /\ ~(m.inode[p].dir_dentry_cnt >= Cells)
      BY <2>1, <2>7
    <3>2. m.inode[p].dir_dentry_cnt < Cells
      <4>1. m.inode \in Seq(Inode)
        BY <2>2 DEF MemoryType
      <4>2. m.inode[p] \in Inode
        BY <2>2, <4>1, LenProperties, ElementOfSeq
      <4>3. m.inode[p].dir_dentry_cnt \in Nat
        BY <4>2 DEF Inode
      <4> QED
        BY <3>1, <4>3
    <3> PICK mi : mi = super.map_inode
      OBVIOUS
    <3> PICK md : md = super.map_data
      OBVIOUS
    <3> PICK mi2 : mi2 = a.super.map_inode
      OBVIOUS
    <3> PICK md2 : md2 = a.super.map_data
      OBVIOUS
    <3>3. /\ a.ino \in Ino /\ a.ino \notin mi /\ a.ino \in mi2
          /\ ft = "NFS_DIR" => a.block \in Block /\ a.block \notin md /\ a.block \in md2
          /\ ft # "NFS_DIR" => a.block = None
          /\ mi \subseteq mi2 /\ md \subseteq md2
      BY <2>3, <3>1, Inside
    <3>4. PICK U \in SUBSET Bit : /\ Stored(disk.cell, U, mi, md)
                                  /\ Linked(m.dentry, m.inode, disk.cell, U, mi, md)
      BY <1>4, <3>1 DEF Fitting
    <3> PICK C : C = disk.cell
      OBVIOUS
    <3>5. Stored(C, U, mi2, md2) /\ Linked(m2.dentry, m2.inode, C, U, mi2, md2)
      BY <1>1, <2>2, <2>3, <2>5, <3>2, <3>3, <3>4, MakeLinked
    <3> QED
      BY <2>1, <3>5 DEF Fitting
  <2>8. spoilt' = {} => spoilt = {}
    BY <2>1
  <2> QED
    BY <1>1, <1>3, <1>6, <2>6, <2>7, <2>8, ServedShape
<1> QED
  BY <1>5, <1>6

\* A step after which newfs_destroy is not running.
LEMMA QuietShape ==
    ASSUME ShapeInv, TypeInv', pc' \notin Destroying, MemoryOk',
           spoilt' = {} /\ disk'.magic => Whole(disk'.cell, disk'.map_inode, disk'.map_data)
    PROVE  ShapeInv'
<1>1. SyncOk'
  BY DEF SyncOk, Destroying
<1>2. DiskOk'
  BY DEF DiskOk
<1> QED
  BY <1>1, <1>2 DEF ShapeInv

\* The first number of an empty bitmap is 0.
LEMMA FirstIsZero ==
    ASSUME NEW max \in Nat \ {0}, NEW r \in Scan({}, max)
    PROVE  r.no = 0 /\ r.map = {0}
<1>1. ~(Bit \subseteq {}) /\ 0 \in Bit
  BY DEF Bit
<1>2. PICK b \in {c \in Bit : IsFirstZero({}, c)} :
         r = [map |-> {} \cup {b}, no |-> IF b = max THEN None ELSE b]
  BY <1>1 DEF Scan
<1>3. b \in Nat /\ 0 .. b - 1 \subseteq {}
  BY <1>2 DEF IsFirstZero, Bit
<1>4. b = 0
  <2>1. b # 0 => 0 \in 0 .. b - 1
    BY <1>3
  <2> QED
    BY <1>3, <2>1
<1> QED
  BY <1>2, <1>4

\* The numbers the root of a new disk gets.
LEMMA FormatNumbers ==
    ASSUME NEW s, s.map_inode = {}, s.map_data = {}, s.max_ino = MaxIno, s.max_data = MaxData,
           s \in SuperType, NEW a \in allocate_inode(s, "NFS_DIR")
    PROVE  a.ino = 0 /\ a.block = 0 /\ a.super.map_inode = {0} /\ a.super.map_data = {0}
<1>1. MaxIno \in Nat \ {0} /\ MaxData \in Nat \ {0} /\ 0 # None
  BY DEF None
<1>2. PICK r \in Scan(s.map_inode, s.max_ino) :
         a \in IF "NFS_DIR" = "NFS_DIR" /\ r.no # None
               THEN {[ino |-> r.no, block |-> b.no,
                      super |-> [s EXCEPT !.map_inode = r.map, !.map_data = b.map]] :
                        b \in Scan(s.map_data, s.max_data)}
               ELSE {[ino |-> r.no, block |-> None, super |-> [s EXCEPT !.map_inode = r.map]]}
  BY DEF allocate_inode
<1>3. r.no = 0 /\ r.map = {0}
  BY <1>1, <1>2, FirstIsZero
<1>4. PICK b \in Scan(s.map_data, s.max_data) :
         a = [ino |-> r.no, block |-> b.no,
              super |-> [s EXCEPT !.map_inode = r.map, !.map_data = b.map]]
  BY <1>1, <1>2, <1>3
<1>5. b.no = 0 /\ b.map = {0}
  BY <1>1, <1>4, FirstIsZero
<1>6. a.ino = 0 /\ a.block = 0 /\ a.super = [s EXCEPT !.map_inode = r.map, !.map_data = b.map]
  BY <1>3, <1>4, <1>5
<1>7. a.super.map_inode = r.map /\ a.super.map_data = b.map
  BY <1>6 DEF SuperType
<1> QED
  BY <1>3, <1>5, <1>6, <1>7

\* The root's dentry alone, with the stored inodes {0}: an empty directory with block 0.
LEMMA NewRoot ==
    ASSUME NEW C, C[INO_OFS(0)] = [type |-> "inode", ino |-> 0, dir_dentry_cnt |-> 0,
                                   data_block_no |-> 0]
    PROVE  Stored(C, {0}, {0}, {0}) /\ Linked(<<RootDentry>>, <<>>, C, {0}, {0}, {0})
<1> PICK c : c = C[INO_OFS(0)]
  OBVIOUS
<1>1. c.type = "inode" /\ c.ino = 0 /\ c.dir_dentry_cnt = 0 /\ c.data_block_no = 0
  OBVIOUS
<1>2. 0 \in Ino /\ 0 \in Block /\ 0 # None /\ 0 \in 0 .. Cells
  BY DEF Ino, Block, None
<1>3. Kids(C, 0) = {}
  BY <1>1 DEF Kids
<1>4. Stored(C, {0}, {0}, {0})
  BY <1>1, <1>2, <1>3 DEF Stored, Typed, BlocksOnce, KidsStored, KidsOnce
<1>5. /\ DOMAIN <<RootDentry>> = {1} /\ <<RootDentry>>[1].ino = 0
      /\ <<RootDentry>>[1].inode = NULL /\ <<RootDentry>>[1].file_type = "NFS_DIR"
  BY DEF RootDentry
<1>6. Fits(<<RootDentry>>[1], C)
  BY <1>1, <1>2, <1>5 DEF Fits
<1>7. Placed(<<RootDentry>>, C, {0}, {0})
  BY <1>2, <1>5, <1>6 DEF Placed
<1>8. NumbersOnce(<<RootDentry>>) /\ NotBelow(<<RootDentry>>, C, {0})
  BY <1>3, <1>5 DEF NumbersOnce, NotBelow
<1>9. DOMAIN <<>> = {}
  OBVIOUS
<1>10. Paired(<<RootDentry>>, <<>>, {0}) /\ OwnBlocks(<<>>, C, {0}) /\ ListedOnce(<<>>)
  BY <1>5, <1>9 DEF Paired, OwnBlocks, ListedOnce
<1> QED
  BY <1>4, <1>7, <1>8, <1>10 DEF Linked

\* newfs_init on a new disk: the root's inode is written, and nothing is loaded.
LEMMA FormatFacts ==
    ASSUME TypeInv, FormatNew
    PROVE  /\ disk'.cell[INO_OFS(0)] = [type |-> "inode", ino |-> 0, dir_dentry_cnt |-> 0,
                                        data_block_no |-> 0]
           /\ ~disk'.magic /\ super'.map_inode = {0} /\ super'.map_data = {0}
           /\ dentry' = <<RootDentry>> /\ inode' = <<>> /\ ~confused' /\ pc' = "read_root"
<1> DEFINE s == [max_ino |-> MaxIno, max_data |-> MaxData,
                 map_inode |-> disk.map_inode, map_data |-> disk.map_data]
<1>1. /\ pc = "unmounted" /\ ~disk.magic /\ dentry' = <<RootDentry>> /\ pc' = "read_root"
      /\ UNCHANGED <<inode, work, ls, confused, spoilt, live, durable, made>>
  BY DEF FormatNew
<1>2. PICK a \in allocate_inode(s, "NFS_DIR") :
         super' = a.super /\ disk' = [disk EXCEPT !.cell[INO_OFS(a.ino)] = RootInode(a)]
  BY DEF FormatNew
<1>3. DiskType(disk, made) /\ made \in Nat
  BY Parts DEF TypeInv
<1>4. disk.map_inode = {} /\ disk.map_data = {} /\ inode = <<>> /\ ~confused
  BY <1>1 DEF TypeInv, StageOk
<1>5. s \in SuperType
  BY <1>3 DEF SuperType, DiskType
<1>6. s.map_inode = {} /\ s.map_data = {} /\ s.max_ino = MaxIno /\ s.max_data = MaxData
  BY <1>4
<1> HIDE DEF s
<1>7. a.ino = 0 /\ a.block = 0 /\ a.super.map_inode = {0} /\ a.super.map_data = {0}
  BY <1>5, <1>6, FormatNumbers
<1> PICK v : v = RootInode(a)
  OBVIOUS
<1> PICK o : o = INO_OFS(a.ino)
  OBVIOUS
<1>8. v = [type |-> "inode", ino |-> 0, dir_dentry_cnt |-> 0, data_block_no |-> 0]
  BY <1>7 DEF RootInode
<1>9. v \in DiskCell /\ v.dir_dentry_cnt <= made
  <2>1. 0 \in BlockNo /\ 0 \in 0 .. MaxMade
    BY DEF BlockNo, Bit
  <2> QED
    BY <1>3, <1>8, <2>1 DEF DiskCell
<1>10. CellSet(disk, disk', o, v)
  BY <1>2, <1>3, <1>9, CellWritten
<1>11. o \in Address /\ o = INO_OFS(0)
  BY <1>7, Addresses DEF Bit
<1>12. disk'.cell[INO_OFS(0)] = v /\ ~disk'.magic
  BY <1>1, <1>10, <1>11 DEF CellSet
<1> QED
  BY <1>1, <1>2, <1>4, <1>7, <1>8, <1>12

\* The mount of a new disk.
LEMMA FormatShape ==
    ASSUME ShapeInv, TypeInv', FormatNew
    PROVE  ShapeInv'
<1>1. /\ disk'.cell[INO_OFS(0)] = [type |-> "inode", ino |-> 0, dir_dentry_cnt |-> 0,
                                   data_block_no |-> 0]
      /\ ~disk'.magic /\ super'.map_inode = {0} /\ super'.map_data = {0}
      /\ dentry' = <<RootDentry>> /\ inode' = <<>> /\ ~confused' /\ pc' = "read_root"
  BY FormatFacts DEF ShapeInv
<1> PICK C : C = disk'.cell
  OBVIOUS
<1>2. Stored(C, {0}, {0}, {0}) /\ Linked(<<RootDentry>>, <<>>, C, {0}, {0}, {0})
  BY <1>1, NewRoot
<1>3. {0} \in SUBSET Bit
  BY DEF Bit
<1>4. MemoryOk'
  BY <1>1, <1>2, <1>3 DEF MemoryOk
<1>5. pc' \notin Destroying
  BY <1>1 DEF Destroying
<1> QED
  BY <1>1, <1>4, <1>5, QuietShape

\* The mount of an old disk: all of it is stored, none of it loaded.
LEMMA MountShape ==
    ASSUME ShapeInv, TypeInv', MountOld
    PROVE  ShapeInv'
<1>1. /\ pc = "unmounted" /\ disk.magic /\ dentry' = <<RootDentry>> /\ pc' = "read_root"
      /\ super' = [NoSuper EXCEPT !.map_inode = disk.map_inode, !.map_data = disk.map_data]
      /\ UNCHANGED <<inode, disk, work, ls, confused, spoilt, live, durable, made>>
  BY DEF MountOld
<1>2. inode = <<>> /\ ~confused
  BY <1>1 DEF ShapeInv, TypeInv, StageOk
<1>3. pc \notin Destroying /\ pc' \notin Destroying
  BY <1>1 DEF Destroying
<1>4. super'.map_inode = disk.map_inode /\ super'.map_data = disk.map_data
  <2>1. NoSuper \in SuperType
    BY DEF NoSuper, SuperType
  <2> QED
    BY <1>1, <2>1 DEF SuperType
<1>5. spoilt = {} => Whole(disk.cell, disk.map_inode, disk.map_data)
  BY <1>1, <1>3 DEF ShapeInv, DiskOk
<1>6. MemoryOk'
  BY <1>1, <1>2, <1>4, <1>5 DEF MemoryOk, Whole
<1>7. spoilt' = {} => Whole(disk'.cell, disk'.map_inode, disk'.map_data)
  BY <1>1, <1>5
<1> QED
  BY <1>3, <1>6, <1>7, QuietShape

\* The root's inode is read.
LEMMA ReadRootShape ==
    ASSUME ShapeInv, TypeInv', ReadRoot
    PROVE  ShapeInv'
<1> PICK m : m = read_inode(Root)
  OBVIOUS
<1>1. /\ pc = "read_root" /\ pc' = "mounted" /\ Remember(m)
      /\ UNCHANGED <<super, disk, work, ls, spoilt, live, durable, made>>
  BY DEF ReadRoot
<1>2. TypeOK /\ dentry = <<RootDentry>>
  BY <1>1 DEF ShapeInv, TypeInv, StageOk
<1>3. Root \in DOMAIN dentry /\ dentry[Root].inode = NULL
  BY <1>2 DEF Root, RootDentry
<1>4. m = Fetch(Root)
  BY <1>3 DEF Fetch
<1>5. ASSUME spoilt = {}
      PROVE  ~m.confused /\ Fitting(m, disk.cell, super.map_inode, super.map_data)
  <2>1. \E U \in SUBSET Bit :
           /\ Stored(disk.cell, U, super.map_inode, super.map_data)
           /\ Linked(dentry, inode, disk.cell, U, super.map_inode, super.map_data)
    BY <1>1, <1>5, MountedFits
  <2> QED
    BY <1>2, <1>3, <1>4, <2>1, FetchOk
<1>6. MemoryOk'
  BY <1>1, <1>5 DEF MemoryOk, Fitting, Remember
<1>7. pc \notin Destroying /\ pc' \notin Destroying
  BY <1>1 DEF Destroying
<1>8. spoilt' = {} /\ disk'.magic => Whole(disk'.cell, disk'.map_inode, disk'.map_data)
  BY <1>1, <1>7 DEF ShapeInv, DiskOk
<1> QED
  BY <1>6, <1>7, <1>8, QuietShape

\* A crash outside newfs_destroy, or one over a disk without a magic number.
LEMMA CrashShape ==
    ASSUME ShapeInv, TypeInv', Crash
    PROVE  ShapeInv'
<1>1. /\ pc' = "unmounted" /\ disk' = disk
      /\ spoilt' = spoilt \cup (IF pc \in Destroying /\ disk.magic THEN {"torn"} ELSE {})
  BY DEF Crash, Exit
<1>2. pc' \notin Destroying /\ MemoryOk'
  BY <1>1 DEF Destroying, MemoryOk
<1>3. spoilt' = {} /\ disk'.magic => Whole(disk'.cell, disk'.map_inode, disk'.map_data)
  <2> SUFFICES ASSUME spoilt' = {}, disk.magic
               PROVE  Whole(disk.cell, disk.map_inode, disk.map_data)
    BY <1>1
  <2>1. spoilt = {} /\ pc \notin Destroying
    BY <1>1
  <2> QED
    BY <2>1 DEF ShapeInv, DiskOk
<1> QED
  BY <1>2, <1>3, QuietShape

\* The last write of newfs_destroy: the bitmaps on the disk are those of the memory.
LEMMA WriteMapDataShape ==
    ASSUME ShapeInv, TypeInv', WriteMapData
    PROVE  ShapeInv'
<1>1. /\ pc = "map_data" /\ pc' = "unmounted" /\ spoilt' = spoilt
      /\ disk' = [disk EXCEPT !.map_data = super.map_data]
  BY DEF WriteMapData, Exit
<1>2. DiskType(disk, made)
  BY Parts DEF ShapeInv, TypeInv
<1>3. /\ disk'.cell = disk.cell /\ disk'.map_inode = disk.map_inode
      /\ disk'.map_data = super.map_data
  BY <1>1, <1>2 DEF DiskType
<1>4. disk.map_inode = super.map_inode
  BY <1>1 DEF ShapeInv, TypeInv, StageOk
<1>5. pc \in Destroying \ {"sync"} /\ pc' \notin Destroying
  BY <1>1 DEF Destroying
<1>6. MemoryOk'
  BY <1>1 DEF MemoryOk
<1>7. spoilt = {} => Whole(disk.cell, super.map_inode, super.map_data)
  BY <1>5 DEF ShapeInv, DiskOk
<1>8. spoilt' = {} => Whole(disk'.cell, disk'.map_inode, disk'.map_data)
  BY <1>1, <1>3, <1>4, <1>7
<1> QED
  BY <1>5, <1>6, <1>8, QuietShape

\* The writes between the tree and the last bitmap change no cell.
LEMMA LateShape ==
    ASSUME ShapeInv, TypeInv', pc \in Destroying \ {"sync"}, pc' \in Destroying \ {"sync"},
           disk'.cell = disk.cell, UNCHANGED <<super, confused, spoilt>>
    PROVE  ShapeInv'
<1>1. MemoryOk' /\ SyncOk'
  BY DEF MemoryOk, SyncOk, Destroying
<1>2. DiskOk'
  BY DEF ShapeInv, DiskOk
<1> QED
  BY <1>1, <1>2 DEF ShapeInv

\* So the super block and the bitmap of the inodes.
LEMMA WriteSuperShape ==
    ASSUME ShapeInv, TypeInv', WriteSuper \/ WriteMapInode
    PROVE  ShapeInv'
<1>1. DiskType(disk, made)
  BY Parts DEF ShapeInv, TypeInv
<1>2. disk'.cell = disk.cell
  <2>1. CASE WriteSuper
    BY <1>1, <2>1 DEF WriteSuper, DiskType
  <2>2. CASE WriteMapInode
    BY <1>1, <2>2 DEF WriteMapInode, DiskType
  <2> QED
    BY <2>1, <2>2
<1>3. /\ pc \in Destroying \ {"sync"} /\ pc' \in Destroying \ {"sync"}
      /\ UNCHANGED <<super, confused, spoilt>>
  BY DEF WriteSuper, WriteMapInode, Destroying
<1> QED
  BY <1>2, <1>3, LateShape
-------------------------------------------------------------------------------
\* newfs_destroy: the root is on the stack, and nothing is written yet.
LEMMA DestroyShape ==
    ASSUME ShapeInv, TypeInv', newfs_destroy
    PROVE  ShapeInv'
<1>1. /\ pc = "mounted" /\ ~confused /\ pc' = "sync" /\ work' = <<Frame(dentry[Root].inode)>>
      /\ UNCHANGED <<dentry, inode, super, disk, confused, spoilt, live, durable, made>>
  BY DEF newfs_destroy
<1>2. dentry[Root].inode = Root
  BY <1>1 DEF ShapeInv, TypeInv, StageOk, RootOk
<1> PICK f : f = Frame(Root)
  OBVIOUS
<1>3. f.next = 0 /\ f.inode = Root
  BY DEF Frame
<1>4. ToSet(work') = {f}
  BY <1>1, <1>2, Single
<1>5. MemoryOk'
  BY <1>1 DEF ShapeInv, MemoryOk
<1>6. Synced(disk.cell, {f}, {})'
  BY <1>3 DEF Synced, OnStack
<1>7. SyncOk'
  <2>1. {} \in SUBSET DOMAIN inode'
    OBVIOUS
  <2>2. Synced(disk.cell, ToSet(work), {})'
    BY <1>4, <1>6
  <2> QED
    BY <2>1, <2>2 DEF SyncOk
<1>8. DiskOk'
  BY <1>1 DEF DiskOk, Destroying
<1> QED
  BY <1>5, <1>7, <1>8 DEF ShapeInv

\* Where the kth dentry of a directory in memory goes.
LEMMA ChildPlace ==
    ASSUME TypeOK, NEW md, Paired(dentry, inode, md), NEW i \in DOMAIN inode,
           NEW k \in DOMAIN Below(i)
    PROVE  /\ inode[i].data_block_no \in Block \cap md
           /\ Below(i) = inode[i].dentries
           /\ k - 1 \in 0 .. Cells - 1
           /\ ChildAt(i, k) = DENTRY_OFS(inode[i].data_block_no) + (k - 1)
           /\ Below(i)[k] \in DOMAIN dentry \ {Root}
<1>1. dentry[inode[i].dentry].file_type = "NFS_DIR" /\ Below(i) = inode[i].dentries
  BY DEF Below
<1>2. inode[i].data_block_no \in Block \cap md /\ inode[i].dir_dentry_cnt <= Cells
  BY <1>1 DEF Paired
<1>3. inode[i].dir_dentry_cnt = Len(inode[i].dentries) /\ Len(inode[i].dentries) \in Nat
      /\ DOMAIN inode[i].dentries = 1 .. Len(inode[i].dentries)
  BY InodeFields, LenProperties
<1> PICK l : l = Len(inode[i].dentries)
  OBVIOUS
<1>4. k \in 1 .. l /\ l <= Cells /\ l \in Nat
  BY <1>1, <1>2, <1>3
<1>5. k - 1 \in 0 .. Cells - 1 /\ k \in Int
  BY <1>4
<1> PICK b : b = inode[i].data_block_no
  OBVIOUS
<1>6. DENTRY_OFS(b) \in Int
  BY <1>2 DEF DENTRY_OFS, Block
<1>7. ChildAt(i, k) = DENTRY_OFS(b) + k - 1
  BY DEF ChildAt
<1>8. ChildAt(i, k) = DENTRY_OFS(b) + (k - 1)
  BY <1>5, <1>6, <1>7
<1> QED
  BY <1>1, <1>2, <1>5, <1>8, BelowType

\* A write of v to cell a that leaves alone what the stored inodes have there.
Elsewhere(a, C, U) ==
    \A u \in U : /\ a # INO_OFS(u)
                 /\ \A k \in Kids(C, u) : a # DENTRY_OFS(C[INO_OFS(u)].data_block_no) + k

\* Such a write is not seen by the stored inodes.
LEMMA NotRead ==
    ASSUME NEW x, NEW y, NEW a, NEW v, CellSet(x, y, a, v), NEW U, NEW mi, NEW md,
           Typed(x.cell, U, mi, md), Elsewhere(a, x.cell, U)
    PROVE  Same(x.cell, y.cell, U)
<1> SUFFICES ASSUME NEW u \in U
             PROVE  /\ y.cell[INO_OFS(u)] = x.cell[INO_OFS(u)]
                    /\ \A k \in Kids(x.cell, u) : Kid(y.cell, u, k) = Kid(x.cell, u, k)
  BY DEF Same
<1>1. Ino \subseteq Bit /\ Block \subseteq Bit
  BY DEF Ino, Block, Bit
<1>2. u \in Bit
  BY <1>1 DEF Typed
<1>3. INO_OFS(u) \in Address
  BY <1>2, Addresses
<1>4. y.cell[INO_OFS(u)] = x.cell[INO_OFS(u)]
  BY <1>3 DEF CellSet, Elsewhere
<1>5. ASSUME NEW k \in Kids(x.cell, u) PROVE Kid(y.cell, u, k) = Kid(x.cell, u, k)
  <2> PICK b : b = x.cell[INO_OFS(u)].data_block_no
    OBVIOUS
  <2>1. b \in Bit /\ k \in 0 .. Cells - 1
    BY <1>1, KidPlace
  <2>2. DENTRY_OFS(b) + k \in Address /\ a # DENTRY_OFS(b) + k
    BY <2>1, Addresses DEF Elsewhere
  <2>3. y.cell[DENTRY_OFS(b) + k] = x.cell[DENTRY_OFS(b) + k]
    BY <2>2 DEF CellSet
  <2> QED
    BY <1>4, <2>3 DEF Kid
<1> QED
  BY <1>4, <1>5

\* The cell of an inode in memory is not among those of the stored inodes.
LEMMA InodeElsewhere ==
    ASSUME TypeOK, NEW U, NEW mi, NEW md, NEW C, Stored(C, U, mi, md),
           Linked(dentry, inode, C, U, mi, md), NEW i \in DOMAIN inode
    PROVE  inode[i].ino \in Ino /\ Elsewhere(INO_OFS(inode[i].ino), C, U)
<1>1. Typed(C, U, mi, md) /\ Placed(dentry, C, U, mi) /\ Paired(dentry, inode, md)
  BY DEF Stored, Linked
<1> PICK x : x = inode[i].ino
  OBVIOUS
<1>2. inode[i].dentry \in DOMAIN dentry /\ i # NULL
  BY InodeFields, Domains
<1>3. x \in Ino /\ x \notin U
  <2>1. dentry[inode[i].dentry].inode = i /\ dentry[inode[i].dentry].ino = x
    BY <1>1 DEF Paired
  <2> QED
    BY <1>1, <1>2, <2>1 DEF Placed
<1>4. Elsewhere(INO_OFS(x), C, U)
  <2>1. ASSUME NEW u \in U PROVE INO_OFS(x) # INO_OFS(u)
    <3>1. u \in Int /\ x \in Int /\ u # x
      BY <1>1, <1>3 DEF Typed, Ino
    <3> QED
      BY <3>1, InodesApart
  <2>2. ASSUME NEW u \in U, NEW k \in Kids(C, u)
        PROVE  INO_OFS(x) # DENTRY_OFS(C[INO_OFS(u)].data_block_no) + k
    <3> PICK b : b = C[INO_OFS(u)].data_block_no
      OBVIOUS
    <3>1. b \in Nat /\ k \in 0 .. Cells - 1
      BY <1>1, KidPlace DEF Block
    <3> QED
      BY <1>3, <3>1, AreasApart
  <2> QED
    BY <2>1, <2>2 DEF Elsewhere
<1> QED
  BY <1>3, <1>4

\* Nor is the cell of a dentry in memory.
LEMMA ChildElsewhere ==
    ASSUME TypeOK, NEW U, NEW mi, NEW md, NEW C, Stored(C, U, mi, md),
           Linked(dentry, inode, C, U, mi, md), NEW i \in DOMAIN inode, NEW k \in DOMAIN Below(i)
    PROVE  Elsewhere(ChildAt(i, k), C, U)
<1>1. /\ Typed(C, U, mi, md) /\ Paired(dentry, inode, md) /\ OwnBlocks(inode, C, U)
  BY DEF Stored, Linked
<1> PICK b : b = inode[i].data_block_no
  OBVIOUS
<1> PICK l : l = k - 1
  OBVIOUS
<1>2. b \in Block /\ l \in 0 .. Cells - 1 /\ ChildAt(i, k) = DENTRY_OFS(b) + l
  BY <1>1, ChildPlace
<1>3. b \in Int /\ b \in Nat /\ b # None
  BY <1>2 DEF Block, None
<1>4. ASSUME NEW u \in U PROVE ChildAt(i, k) # INO_OFS(u)
  <2>1. u \in Ino
    BY <1>1 DEF Typed
  <2> QED
    BY <1>2, <1>3, <2>1, AreasApart
<1>5. ASSUME NEW u \in U, NEW q \in Kids(C, u)
      PROVE  ChildAt(i, k) # DENTRY_OFS(C[INO_OFS(u)].data_block_no) + q
  <2> PICK c : c = C[INO_OFS(u)].data_block_no
    OBVIOUS
  <2>1. c \in Int /\ q \in 0 .. Cells - 1
    BY <1>1, KidPlace DEF Block
  <2>2. c # b
    BY <1>1, <1>3 DEF OwnBlocks
  <2> QED
    BY <1>2, <1>3, <2>1, <2>2, BlocksApart
<1> QED
  BY <1>4, <1>5 DEF Elsewhere

(***************************************************************************)
(* What is written of the memory stays written: a later write goes to      *)
(* another cell or writes the same.                                        *)
(***************************************************************************)
LEMMA KeepsInode ==
    ASSUME TypeOK, NEW U, NEW mi, NEW md, Linked(dentry, inode, disk.cell, U, mi, md),
           NEW i \in DOMAIN inode, inode[i].ino \in Ino,
           NEW x, NEW y, CellSet(x, y, INO_OFS(inode[i].ino), InodeD(inode[i])),
           NEW j \in DOMAIN inode, inode[j].ino \in Ino, NEW n, Written(x.cell, j, n)
    PROVE  Written(y.cell, j, n)
<1>1. NumbersOnce(dentry) /\ Paired(dentry, inode, md)
  BY DEF Linked
<1>2. INO_OFS(inode[j].ino) \in Address
  BY Addresses DEF Ino, Bit
<1>3. y.cell[INO_OFS(inode[j].ino)] = InodeD(inode[j])
  <2>1. CASE INO_OFS(inode[i].ino) = INO_OFS(inode[j].ino)
    <3>1. inode[i].ino = inode[j].ino
      BY <2>1, InodesApart DEF Ino
    <3>2. i = j
      <4>1. /\ dentry[inode[i].dentry].inode = i /\ dentry[inode[i].dentry].ino = inode[i].ino
            /\ dentry[inode[j].dentry].inode = j /\ dentry[inode[j].dentry].ino = inode[j].ino
        BY <1>1 DEF Paired
      <4>2. inode[i].dentry \in DOMAIN dentry /\ inode[j].dentry \in DOMAIN dentry
        BY InodeFields
      <4>3. inode[i].dentry = inode[j].dentry
        BY <1>1, <3>1, <4>1, <4>2 DEF NumbersOnce
      <4> QED
        BY <4>1, <4>3
    <3> QED
      BY <1>2, <3>2 DEF CellSet
  <2>2. CASE INO_OFS(inode[i].ino) # INO_OFS(inode[j].ino)
    BY <1>2, <2>2 DEF CellSet, Written
  <2> QED
    BY <2>1, <2>2
<1>4. ASSUME NEW k \in DOMAIN Below(j), k <= n
      PROVE  y.cell[ChildAt(j, k)] = DentryD(dentry[Below(j)[k]])
  <2> PICK b : b = inode[j].data_block_no
    OBVIOUS
  <2> PICK l : l = k - 1
    OBVIOUS
  <2>1. b \in Block /\ l \in 0 .. Cells - 1 /\ ChildAt(j, k) = DENTRY_OFS(b) + l
    BY <1>1, ChildPlace
  <2>2. b \in Nat /\ b \in Bit
    BY <2>1 DEF Block, Bit
  <2>3. ChildAt(j, k) # INO_OFS(inode[i].ino) /\ ChildAt(j, k) \in Address
    BY <2>1, <2>2, AreasApart, Addresses
  <2> QED
    BY <1>4, <2>3 DEF CellSet, Written
<1> QED
  BY <1>3, <1>4 DEF Written

\* The same for the write of a dentry.
LEMMA KeepsDentry ==
    ASSUME TypeOK, NEW U, NEW mi, NEW md, Linked(dentry, inode, disk.cell, U, mi, md),
           NEW i \in DOMAIN inode, NEW h \in DOMAIN Below(i),
           NEW x, NEW y, CellSet(x, y, ChildAt(i, h), DentryD(dentry[Below(i)[h]])),
           NEW j \in DOMAIN inode, inode[j].ino \in Ino, NEW n, Written(x.cell, j, n)
    PROVE  Written(y.cell, j, n)
<1>1. Paired(dentry, inode, md) /\ OwnBlocks(inode, disk.cell, U)
  BY DEF Linked
<1> PICK b : b = inode[i].data_block_no
  OBVIOUS
<1> PICK l : l = h - 1
  OBVIOUS
<1>2. b \in Block /\ l \in 0 .. Cells - 1 /\ ChildAt(i, h) = DENTRY_OFS(b) + l
  BY <1>1, ChildPlace
<1>3. b \in Nat /\ b \in Int /\ b # None
  BY <1>2 DEF Block, None
<1>4. y.cell[INO_OFS(inode[j].ino)] = InodeD(inode[j])
  <2>1. INO_OFS(inode[j].ino) \in Address
    BY Addresses DEF Ino, Bit
  <2>2. INO_OFS(inode[j].ino) # ChildAt(i, h)
    BY <1>2, <1>3, AreasApart
  <2> QED
    BY <2>1, <2>2 DEF CellSet, Written
<1>5. ASSUME NEW k \in DOMAIN Below(j), k <= n
      PROVE  y.cell[ChildAt(j, k)] = DentryD(dentry[Below(j)[k]])
  <2> PICK c : c = inode[j].data_block_no
    OBVIOUS
  <2> PICK q : q = k - 1
    OBVIOUS
  <2>1. c \in Block /\ q \in 0 .. Cells - 1 /\ ChildAt(j, k) = DENTRY_OFS(c) + q
    BY <1>1, ChildPlace
  <2>2. c \in Int /\ c \in Bit
    BY <2>1 DEF Block, Bit
  <2>3. ChildAt(j, k) \in Address
    BY <2>1, <2>2, Addresses
  <2>4. CASE ChildAt(j, k) = ChildAt(i, h)
    <3>1. b = c /\ l = q
      BY <1>2, <1>3, <2>1, <2>2, <2>4, BlocksApart
    <3>2. i = j
      BY <1>1, <1>3, <3>1 DEF OwnBlocks
    <3>3. h = k
      <4>1. h \in Int /\ k \in Int
        BY BelowType
      <4> QED
        BY <3>1, <4>1
    <3> QED
      BY <2>3, <3>2, <3>3 DEF CellSet
  <2>5. CASE ChildAt(j, k) # ChildAt(i, h)
    BY <1>5, <2>3, <2>5 DEF CellSet, Written
  <2> QED
    BY <2>4, <2>5
<1> QED
  BY <1>4, <1>5 DEF Written

\* What is written in C is written in C2.
Keeps(C, C2) == \A j \in DOMAIN inode : \A n \in Int : Written(C, j, n) => Written(C2, j, n)

\* Whoever was done or on the stack is so still.
Covers(W, E, W2, E2) == \A c : c \in E \/ OnStack(W, c) => c \in E2 \/ OnStack(W2, c)

\* Then the children that were followed are followed still.
LEMMA StillFollowed ==
    ASSUME NEW W, NEW E, NEW W2, NEW E2, Covers(W, E, W2, E2), NEW i, NEW n, Followed(W, E, i, n)
    PROVE  Followed(W2, E2, i, n)
  BY DEF Followed, Covers

\* The inode of the topmost call is written.
LEMMA SyncedInode ==
    ASSUME NEW C, NEW T \in SUBSET Call(inode), NEW E \in SUBSET DOMAIN inode,
           NEW f \in Call(inode), f.next = 0, Synced(C, {f} \cup T, E), NEW C2, Keeps(C, C2),
           NEW g, g = [f EXCEPT !.next = 1], Written(C2, f.inode, 0), TypeOK
    PROVE  Synced(C2, {g} \cup T, E)
<1> PICK W : W = {f} \cup T
  OBVIOUS
<1> PICK W2 : W2 = {g} \cup T
  OBVIOUS
<1>1. g.inode = f.inode /\ g.next = 1 /\ f.inode \in DOMAIN inode
  BY DEF Call
<1>2. Covers(W, E, W2, E)
  BY <1>1 DEF Covers, OnStack
<1>3. /\ \A i \in E : Written(C, i, Len(Below(i))) /\ Followed(W, E, i, Len(Below(i)))
      /\ \A h \in W : h.next > 0 => /\ h.next <= Len(Below(h.inode)) + 1
                                    /\ Written(C, h.inode, h.next - 1)
                                    /\ Followed(W, E, h.inode, h.next - 1)
      /\ Root \in E \/ OnStack(W, Root)
  BY DEF Synced
<1>4. ASSUME NEW i \in E
      PROVE  Written(C2, i, Len(Below(i))) /\ Followed(W2, E, i, Len(Below(i)))
  <2>1. i \in DOMAIN inode /\ Len(Below(i)) \in Int
    BY BelowType
  <2> QED
    BY <1>2, <1>3, <2>1, StillFollowed DEF Keeps
<1>5. ASSUME NEW h \in W2, h.next > 0
      PROVE  /\ h.next <= Len(Below(h.inode)) + 1
             /\ Written(C2, h.inode, h.next - 1)
             /\ Followed(W2, E, h.inode, h.next - 1)
  <2>1. CASE h \in T
    <3>1. h.inode \in DOMAIN inode /\ h.next - 1 \in Int
      BY <2>1 DEF Call
    <3>2. /\ h.next <= Len(Below(h.inode)) + 1
          /\ Written(C, h.inode, h.next - 1)
          /\ Followed(W, E, h.inode, h.next - 1)
      BY <1>3, <1>5, <2>1
    <3>3. Written(C2, h.inode, h.next - 1)
      BY <3>1, <3>2 DEF Keeps
    <3> QED
      BY <1>2, <3>2, <3>3, StillFollowed
  <2>2. CASE h = g
    <3>1. Len(Below(f.inode)) \in Nat /\ DOMAIN Below(f.inode) = 1 .. Len(Below(f.inode))
      BY <1>1, BelowType
    <3> PICK l : l = Len(Below(f.inode))
      OBVIOUS
    <3>2. 1 <= l + 1 /\ \A k \in 1 .. l : ~(k <= 0)
      BY <3>1
    <3>3. Followed(W2, E, f.inode, 0)
      BY <3>1, <3>2 DEF Followed
    <3> QED
      BY <1>1, <2>2, <3>2, <3>3
  <2> QED
    BY <2>1, <2>2
<1>6. Root \in E \/ OnStack(W2, Root)
  BY <1>2, <1>3 DEF Covers
<1> QED
  BY <1>4, <1>5, <1>6 DEF Synced

\* One of its dentries is written, and the call below it is on the stack if there is one.
LEMMA SyncedDentry ==
    ASSUME NEW C, NEW T \in SUBSET Call(inode), NEW E \in SUBSET DOMAIN inode,
           NEW f \in Call(inode), f.next \in DOMAIN Below(f.inode), Synced(C, {f} \cup T, E),
           NEW C2, Keeps(C, C2), NEW g, g = [f EXCEPT !.next = @ + 1],
           C2[ChildAt(f.inode, f.next)] = DentryD(dentry[Below(f.inode)[f.next]]),
           NEW c, c = dentry[Below(f.inode)[f.next]].inode,
           NEW P, P = IF c = NULL THEN {} ELSE {Frame(c)}, TypeOK
    PROVE  Synced(C2, P \cup {g} \cup T, E)
<1> PICK W : W = {f} \cup T
  OBVIOUS
<1> PICK W2 : W2 = P \cup {g} \cup T
  OBVIOUS
<1> PICK i : i = f.inode
  OBVIOUS
<1> PICK n : n = f.next
  OBVIOUS
<1>1. g.inode = i /\ g.next = n + 1 /\ i \in DOMAIN inode
  BY DEF Call
<1>2. Covers(W, E, W2, E)
  BY <1>1 DEF Covers, OnStack
<1>3. /\ \A j \in E : Written(C, j, Len(Below(j))) /\ Followed(W, E, j, Len(Below(j)))
      /\ \A h \in W : h.next > 0 => /\ h.next <= Len(Below(h.inode)) + 1
                                    /\ Written(C, h.inode, h.next - 1)
                                    /\ Followed(W, E, h.inode, h.next - 1)
      /\ Root \in E \/ OnStack(W, Root)
  BY DEF Synced
<1>4. /\ Len(Below(i)) \in Nat /\ DOMAIN Below(i) = 1 .. Len(Below(i)) /\ n \in DOMAIN Below(i)
  BY <1>1, BelowType
<1>5. ASSUME NEW j \in E
      PROVE  Written(C2, j, Len(Below(j))) /\ Followed(W2, E, j, Len(Below(j)))
  <2>1. j \in DOMAIN inode /\ Len(Below(j)) \in Int
    BY BelowType
  <2> QED
    BY <1>2, <1>3, <2>1, StillFollowed DEF Keeps
<1>6. ASSUME NEW h \in T, h.next > 0
      PROVE  /\ h.next <= Len(Below(h.inode)) + 1
             /\ Written(C2, h.inode, h.next - 1)
             /\ Followed(W2, E, h.inode, h.next - 1)
  <2>1. h.inode \in DOMAIN inode /\ h.next - 1 \in Int
    BY DEF Call
  <2>2. /\ h.next <= Len(Below(h.inode)) + 1
        /\ Written(C, h.inode, h.next - 1)
        /\ Followed(W, E, h.inode, h.next - 1)
    BY <1>3, <1>6
  <2>3. Written(C2, h.inode, h.next - 1)
    BY <2>1, <2>2 DEF Keeps
  <2> QED
    BY <1>2, <2>2, <2>3, StillFollowed
<1> PICK l : l = Len(Below(i))
  OBVIOUS
<1>7. /\ n \in 1 .. l /\ n > 0 /\ n + 1 <= l + 1 /\ n - 1 \in Int /\ n + 1 - 1 = n
      /\ \A k \in 1 .. l : k <= n => k <= n - 1 \/ k = n
  BY <1>4
<1>8. Written(C, i, n - 1) /\ Followed(W, E, i, n - 1)
  <2>1. f \in W
    OBVIOUS
  <2> QED
    BY <1>3, <1>7, <2>1
<1>9. Written(C2, i, n)
  <2>1. Written(C2, i, n - 1)
    BY <1>1, <1>7, <1>8 DEF Keeps
  <2>2. \A k \in DOMAIN Below(i) : k <= n => C2[ChildAt(i, k)] = DentryD(dentry[Below(i)[k]])
    BY <1>4, <1>7, <2>1 DEF Written
  <2> QED
    BY <2>1, <2>2 DEF Written
<1>10. Followed(W2, E, i, n)
  <2>1. Followed(W2, E, i, n - 1)
    BY <1>2, <1>8, StillFollowed
  <2>2. c = NULL \/ OnStack(W2, c)
    <3> SUFFICES ASSUME c # NULL PROVE OnStack(W2, c)
      OBVIOUS
    <3>1. Frame(c) \in W2
      OBVIOUS
    <3>2. Frame(c).inode = c
      BY DEF Frame
    <3> QED
      BY <3>1, <3>2 DEF OnStack
  <2> QED
    BY <1>4, <1>7, <2>1, <2>2 DEF Followed
<1>11. ASSUME NEW h \in W2, h.next > 0
       PROVE  /\ h.next <= Len(Below(h.inode)) + 1
              /\ Written(C2, h.inode, h.next - 1)
              /\ Followed(W2, E, h.inode, h.next - 1)
  <2>1. CASE h \in T
    BY <1>6, <1>11, <2>1
  <2>2. CASE h = g
    <3>1. h.inode = i /\ h.next - 1 = n /\ h.next <= l + 1
      BY <1>1, <1>7, <2>2
    <3> QED
      BY <1>9, <1>10, <3>1
  <2>3. h \notin P
    <3>1. \A q \in P : ~(q.next > 0)
      BY DEF Frame
    <3> QED
      BY <1>11, <3>1
  <2> QED
    BY <2>1, <2>2, <2>3
<1>12. Root \in E \/ OnStack(W2, Root)
  BY <1>2, <1>3 DEF Covers
<1> QED
  BY <1>5, <1>11, <1>12 DEF Synced

\* The topmost call returns: its inode is done.
LEMMA SyncedReturn ==
    ASSUME NEW C, NEW T \in SUBSET Call(inode), NEW E \in SUBSET DOMAIN inode,
           NEW f \in Call(inode), f.next = Len(Below(f.inode)) + 1, Synced(C, {f} \cup T, E), TypeOK
    PROVE  Synced(C, T, E \cup {f.inode})
<1> PICK W : W = {f} \cup T
  OBVIOUS
<1> PICK i : i = f.inode
  OBVIOUS
<1> PICK E2 : E2 = E \cup {i}
  OBVIOUS
<1>1. Covers(W, E, T, E2)
  BY DEF Covers, OnStack
<1>2. /\ \A j \in E : Written(C, j, Len(Below(j))) /\ Followed(W, E, j, Len(Below(j)))
      /\ \A h \in W : h.next > 0 => /\ h.next <= Len(Below(h.inode)) + 1
                                    /\ Written(C, h.inode, h.next - 1)
                                    /\ Followed(W, E, h.inode, h.next - 1)
      /\ Root \in E \/ OnStack(W, Root)
  BY DEF Synced
<1> PICK l : l = Len(Below(i))
  OBVIOUS
<1>3. l \in Nat /\ f.next = l + 1
  <2>1. i \in DOMAIN inode
    BY DEF Call
  <2> QED
    BY <2>1, BelowType
<1>4. Written(C, i, l) /\ Followed(W, E, i, l)
  <2>1. f \in W /\ f.next > 0 /\ f.next - 1 = l
    BY <1>3
  <2> QED
    BY <1>2, <2>1
<1>5. ASSUME NEW j \in E2
      PROVE  Written(C, j, Len(Below(j))) /\ Followed(T, E2, j, Len(Below(j)))
  <2>1. Written(C, j, Len(Below(j))) /\ Followed(W, E, j, Len(Below(j)))
    BY <1>2, <1>4
  <2>2. Followed(T, E2, j, Len(Below(j)))
    BY <1>1, <2>1, StillFollowed
  <2> QED
    BY <2>1, <2>2
<1>6. ASSUME NEW h \in T, h.next > 0
      PROVE  /\ h.next <= Len(Below(h.inode)) + 1
             /\ Written(C, h.inode, h.next - 1)
             /\ Followed(T, E2, h.inode, h.next - 1)
  <2> PICK n : n = h.next - 1
    OBVIOUS
  <2>1. h \in W
    OBVIOUS
  <2>2. /\ h.next <= Len(Below(h.inode)) + 1
        /\ Written(C, h.inode, n)
        /\ Followed(W, E, h.inode, n)
    BY <1>2, <1>6, <2>1
  <2>3. Followed(T, E2, h.inode, n)
    BY <1>1, <2>2, StillFollowed
  <2> QED
    BY <2>2, <2>3
<1>7. Root \in E2 \/ OnStack(T, Root)
  BY <1>1, <1>2 DEF Covers
<1> QED
  BY <1>5, <1>6, <1>7 DEF Synced

\* The progress of sync_inode is told of the next state in terms of this one's memory.
LEMMA SyncedNext ==
    ASSUME UNCHANGED <<dentry, inode>>, NEW E \in SUBSET DOMAIN inode,
           Synced(disk'.cell, ToSet(work'), E)
    PROVE  SyncOk'
<1>1. \A i : Below(i)' = Below(i)
  BY DEF Below
<1>2. \A i, k : ChildAt(i, k)' = ChildAt(i, k)
  BY DEF ChildAt
<1>3. \A i, n : Written(disk.cell, i, n)' <=> Written(disk'.cell, i, n)
  BY <1>1, <1>2 DEF Written
<1>4. \A i, n : Followed(ToSet(work), E, i, n)' <=> Followed(ToSet(work'), E, i, n)
  BY <1>1 DEF Followed
<1>5. Synced(disk.cell, ToSet(work), E)'
  BY <1>1, <1>3, <1>4 DEF Synced
<1> QED
  BY <1>5 DEF SyncOk

\* What a step of sync_inode does to the disk.
LEMMA SyncWrites ==
    ASSUME TypeInv, sync_inode, NEW f, f = Head(work), NEW i, i = f.inode, NEW k, k = f.next
    PROVE  /\ WriteInode(f) => CellSet(disk, disk', INO_OFS(inode[i].ino), InodeD(inode[i]))
           /\ WriteDentry(f) =>
                 /\ k \in DOMAIN Below(i)
                 /\ CellSet(disk, disk', ChildAt(i, k), DentryD(dentry[Below(i)[k]]))
           /\ Return(f) => disk' = disk
<1>1. TypeOK /\ DiskType(disk, made) /\ made \in Nat
  BY Parts DEF TypeInv
<1>2. f \in Call(inode) /\ i \in DOMAIN inode
  BY SyncFacts DEF Call
<1>3. ASSUME WriteInode(f)
      PROVE  CellSet(disk, disk', INO_OFS(inode[i].ino), InodeD(inode[i]))
  <2> PICK v : v = InodeD(inode[i])
    OBVIOUS
  <2> PICK a : a = INO_OFS(inode[i].ino)
    OBVIOUS
  <2>1. disk' = [disk EXCEPT !.cell[a] = v]
    BY <1>3 DEF WriteInode
  <2>2. v \in DiskCell /\ v.dir_dentry_cnt <= made
    BY <1>1, <1>2, InodeCell
  <2> QED
    BY <1>1, <2>1, <2>2, CellWritten
<1>4. ASSUME WriteDentry(f)
      PROVE  /\ k \in DOMAIN Below(i)
             /\ CellSet(disk, disk', ChildAt(i, k), DentryD(dentry[Below(i)[k]]))
  <2> PICK d : d = Below(i)[k]
    OBVIOUS
  <2> PICK v : v = DentryD(dentry[d])
    OBVIOUS
  <2> PICK a : a = ChildAt(i, k)
    OBVIOUS
  <2>1. k \in DOMAIN Below(i) /\ disk' = [disk EXCEPT !.cell[a] = v]
    BY <1>4 DEF WriteDentry
  <2>2. d \in DOMAIN dentry \ {Root}
    BY <1>1, <1>2, <2>1, BelowType
  <2>3. v \in DiskCell /\ v.type # "inode"
    BY <1>1, <2>2, DentryCell
  <2> QED
    BY <1>1, <2>1, <2>3, CellWritten
<1>5. Return(f) => disk' = disk
  BY DEF Return
<1> QED
  BY <1>3, <1>4, <1>5

\* Nothing of the stored inodes is overwritten.
LEMMA SyncSame ==
    ASSUME TypeInv, sync_inode, NEW U, NEW mi, NEW md, Stored(disk.cell, U, mi, md),
           Linked(dentry, inode, disk.cell, U, mi, md)
    PROVE  Same(disk.cell, disk'.cell, U)
<1> PICK f : f = Head(work)
  OBVIOUS
<1> PICK i : i = f.inode
  OBVIOUS
<1> PICK k : k = f.next
  OBVIOUS
<1>1. /\ TypeOK /\ f \in Call(inode) /\ i \in DOMAIN inode
      /\ WriteInode(f) \/ WriteDentry(f) \/ Return(f)
  BY SyncFacts DEF Call, TypeInv
<1>2. Typed(disk.cell, U, mi, md)
  BY DEF Stored
<1>3. CASE WriteInode(f)
  <2>1. CellSet(disk, disk', INO_OFS(inode[i].ino), InodeD(inode[i]))
    BY <1>3, SyncWrites
  <2>2. Elsewhere(INO_OFS(inode[i].ino), disk.cell, U)
    BY <1>1, InodeElsewhere
  <2> QED
    BY <1>2, <2>1, <2>2, NotRead
<1>4. CASE WriteDentry(f)
  <2>1. /\ k \in DOMAIN Below(i)
        /\ CellSet(disk, disk', ChildAt(i, k), DentryD(dentry[Below(i)[k]]))
    BY <1>4, SyncWrites
  <2>2. Elsewhere(ChildAt(i, k), disk.cell, U)
    BY <1>1, <2>1, ChildElsewhere
  <2> QED
    BY <1>2, <2>1, <2>2, NotRead
<1>5. CASE Return(f)
  <2>1. disk' = disk
    BY <1>5, SyncWrites
  <2> QED
    BY <2>1 DEF Same
<1> QED
  BY <1>1, <1>3, <1>4, <1>5

\* One step of sync_inode.
LEMMA SyncShape ==
    ASSUME ShapeInv, TypeInv', sync_inode
    PROVE  ShapeInv'
<1> PICK f : f = Head(work)
  OBVIOUS
<1> PICK T : T = ToSet(Tail(work))
  OBVIOUS
<1>1. TypeInv /\ TypeOK /\ DiskType(disk, made) /\ made \in Nat
  BY Parts DEF ShapeInv, TypeInv
<1>2. /\ pc = "sync" /\ f \in Call(inode) /\ ToSet(work) = {f} \cup T
      /\ Tail(work) \in Seq(Call(inode))
      /\ WriteInode(f) \/ WriteDentry(f) \/ Return(f)
      /\ UNCHANGED <<dentry, inode, super, pc, ls, confused, spoilt, live, durable, made>>
  BY <1>1, SyncFacts
<1>3. T \in SUBSET Call(inode) /\ f.inode \in DOMAIN inode
  <2>1. T \subseteq Call(inode)
    BY <1>2, ElementOfSeq, LenProperties DEF ToSet
  <2> QED
    BY <1>2, <2>1 DEF Call
<1>4. DiskOk'
  BY <1>2 DEF DiskOk, Destroying
<1>5. SUFFICES ASSUME spoilt = {}
               PROVE  MemoryOk' /\ SyncOk'
  <2>1. spoilt # {} => MemoryOk' /\ SyncOk'
    BY <1>2 DEF MemoryOk, SyncOk
  <2> QED
    BY <1>4, <1>5, <2>1 DEF ShapeInv
<1> PICK mi : mi = super.map_inode
  OBVIOUS
<1> PICK md : md = super.map_data
  OBVIOUS
<1> PICK C : C = disk.cell
  OBVIOUS
<1> PICK C2 : C2 = disk'.cell
  OBVIOUS
<1>6. ~confused
  BY <1>2, <1>5, MountedFits
<1>7. PICK U \in SUBSET Bit : Stored(C, U, mi, md) /\ Linked(dentry, inode, C, U, mi, md)
  BY <1>2, <1>5, MountedFits
<1>8. PICK E \in SUBSET DOMAIN inode : Synced(C, {f} \cup T, E)
  BY <1>2, <1>5 DEF ShapeInv, SyncOk
<1>9. Typed(C, U, mi, md) /\ Paired(dentry, inode, md)
  BY <1>7 DEF Stored, Linked
<1>10. \A j \in DOMAIN inode : inode[j].ino \in Ino
  BY <1>1, <1>7, InodeElsewhere
<1>11. MemoryOk'
  <2>0. Same(C, C2, U)
    BY <1>1, <1>7, SyncSame
  <2>1. Stored(C2, U, mi, md) /\ Linked(dentry, inode, C2, U, mi, md)
    BY <1>7, <2>0, Unread
  <2> QED
    BY <1>2, <1>6, <2>1 DEF MemoryOk
<1>12. CASE WriteInode(f)
  <2> PICK i : i = f.inode
    OBVIOUS
  <2> PICK v : v = InodeD(inode[i])
    OBVIOUS
  <2> PICK a : a = INO_OFS(inode[i].ino)
    OBVIOUS
  <2> PICK g : g = [f EXCEPT !.next = 1]
    OBVIOUS
  <2>1. f.next = 0
    BY <1>12 DEF WriteInode
  <2>3. CellSet(disk, disk', a, v)
    BY <1>1, <1>12, SyncWrites
  <2>5. Keeps(C, C2)
    <3> SUFFICES ASSUME NEW j \in DOMAIN inode, NEW n \in Int, Written(C, j, n)
                 PROVE  Written(C2, j, n)
      BY DEF Keeps
    <3> QED
      BY <1>1, <1>3, <1>7, <1>10, <2>3, KeepsInode
  <2>6. Written(C2, i, 0)
    <3>1. a \in Address
      BY <1>3, <1>10, Addresses DEF Ino, Bit
    <3>2. C2[a] = v
      BY <2>3, <3>1 DEF CellSet
    <3>3. \A k \in DOMAIN Below(i) : ~(k <= 0)
      BY <1>1, <1>3, BelowType
    <3> QED
      BY <3>2, <3>3 DEF Written
  <2>7. Synced(C2, {g} \cup T, E)
    <3>1. f \in Call(inode) /\ f.next = 0 /\ Written(C2, f.inode, 0) /\ TypeOK
      BY <1>1, <1>2, <2>1, <2>6
    <3>2. T \in SUBSET Call(inode) /\ Synced(C, {f} \cup T, E)
      BY <1>3, <1>8
    <3> QED
      BY <2>5, <3>1, <3>2, SyncedInode
  <2>8. ToSet(work') = {g} \cup T
    BY <1>1, <1>12, SyncStack
  <2>9. SyncOk'
    BY <1>2, <2>7, <2>8, SyncedNext
  <2> QED
    BY <1>11, <2>9
<1>13. CASE WriteDentry(f)
  <2> PICK i : i = f.inode
    OBVIOUS
  <2> PICK k : k = f.next
    OBVIOUS
  <2> PICK d : d = Below(i)[k]
    OBVIOUS
  <2> PICK v : v = DentryD(dentry[d])
    OBVIOUS
  <2> PICK a : a = ChildAt(i, k)
    OBVIOUS
  <2> PICK g : g = [f EXCEPT !.next = @ + 1]
    OBVIOUS
  <2> PICK c : c = dentry[d].inode
    OBVIOUS
  <2> PICK P : P = IF c = NULL THEN {} ELSE {Frame(c)}
    OBVIOUS
  <2>1. k \in DOMAIN Below(i) /\ CellSet(disk, disk', a, v)
    BY <1>1, <1>13, SyncWrites
  <2>5. Keeps(C, C2)
    <3> SUFFICES ASSUME NEW j \in DOMAIN inode, NEW n \in Int, Written(C, j, n)
                 PROVE  Written(C2, j, n)
      BY DEF Keeps
    <3>1. TypeOK /\ i \in DOMAIN inode /\ k \in DOMAIN Below(i) /\ inode[j].ino \in Ino
      BY <1>1, <1>3, <1>10, <2>1
    <3>2. CellSet(disk, disk', ChildAt(i, k), DentryD(dentry[Below(i)[k]]))
      BY <2>1
    <3>3. Linked(dentry, inode, disk.cell, U, mi, md) /\ Written(disk.cell, j, n)
      BY <1>7
    <3>4. Written(disk'.cell, j, n)
      BY <3>1, <3>2, <3>3, KeepsDentry
    <3> QED
      BY <3>4
  <2>6. C2[a] = v
    <3>1. /\ inode[i].data_block_no \in Block /\ k - 1 \in 0 .. Cells - 1
          /\ a = DENTRY_OFS(inode[i].data_block_no) + (k - 1)
      BY <1>1, <1>3, <1>9, <2>1, ChildPlace
    <3>2. inode[i].data_block_no \in Bit
      BY <3>1 DEF Block, Bit
    <3>3. a \in Address
      BY <3>1, <3>2, Addresses
    <3> QED
      BY <2>1, <3>3 DEF CellSet
  <2>7. Synced(C2, P \cup {g} \cup T, E)
    <3>1. f \in Call(inode) /\ f.next \in DOMAIN Below(f.inode) /\ TypeOK
      BY <1>1, <1>2, <2>1
    <3>2. C2[ChildAt(f.inode, f.next)] = DentryD(dentry[Below(f.inode)[f.next]])
      BY <2>6
    <3>3. c = dentry[Below(f.inode)[f.next]].inode
      OBVIOUS
    <3> QED
      BY <1>3, <1>8, <2>5, <3>1, <3>2, <3>3, SyncedDentry
  <2>8. ToSet(work') = P \cup {g} \cup T
    BY <1>1, <1>13, SyncStack
  <2>9. SyncOk'
    BY <1>2, <2>7, <2>8, SyncedNext
  <2> QED
    BY <1>11, <2>9
<1>14. CASE Return(f)
  <2>1. f.next = Len(Below(f.inode)) + 1 /\ work' = Tail(work) /\ disk' = disk
    BY <1>14 DEF Return
  <2>2. Synced(C, T, E \cup {f.inode})
    BY <1>1, <1>2, <1>3, <1>8, <2>1, SyncedReturn
  <2>3. E \cup {f.inode} \in SUBSET DOMAIN inode
    BY <1>3
  <2>4. SyncOk'
    BY <1>2, <2>1, <2>2, <2>3, SyncedNext
  <2> QED
    BY <1>11, <2>4
<1> QED
  BY <1>2, <1>12, <1>13, <1>14
-------------------------------------------------------------------------------
\* An inode written with all its dentries: what the disk has below it.
LEMMA DoneKid ==
    ASSUME TypeOK, NEW md, Paired(dentry, inode, md), NEW C, NEW i \in DOMAIN inode,
           Written(C, i, Len(Below(i))), NEW k \in Kids(C, inode[i].ino)
    PROVE  /\ k \in Int /\ k + 1 \in DOMAIN inode[i].dentries /\ k + 1 \in DOMAIN Below(i)
           /\ Below(i) = inode[i].dentries /\ inode[i].dentries[k + 1] \in DOMAIN dentry \ {Root}
           /\ Kid(C, inode[i].ino, k) = DentryD(dentry[inode[i].dentries[k + 1]])
<1> PICK b : b = inode[i].data_block_no
  OBVIOUS
<1> PICK x : x = inode[i].ino
  OBVIOUS
<1> PICK l : l = Len(inode[i].dentries)
  OBVIOUS
<1>1. C[INO_OFS(x)] = InodeD(inode[i])
  BY DEF Written
<1>2. C[INO_OFS(x)].data_block_no = b /\ C[INO_OFS(x)].dir_dentry_cnt = inode[i].dir_dentry_cnt
  BY <1>1 DEF InodeD
<1>3. /\ inode[i].dir_dentry_cnt = l /\ l \in Nat /\ DOMAIN inode[i].dentries = 1 .. l
      /\ inode[i].dentry \in DOMAIN dentry
  BY InodeFields, LenProperties
<1>4. b # None /\ k \in 0 .. l - 1
  BY <1>2, <1>3 DEF Kids
<1>5. dentry[inode[i].dentry].file_type = "NFS_DIR" /\ b \in Block
  BY <1>4 DEF Paired
<1>6. Below(i) = inode[i].dentries
  BY <1>5 DEF Below
<1> PICK q : q = k + 1
  OBVIOUS
<1>7. k \in Int /\ q \in 1 .. l /\ q - 1 = k /\ q <= l
  BY <1>3, <1>4
<1>8. q \in DOMAIN Below(i)
  BY <1>3, <1>6, <1>7
<1>9. ChildAt(i, q) = DENTRY_OFS(b) + k /\ Below(i)[q] \in DOMAIN dentry \ {Root}
  BY <1>7, <1>8, ChildPlace
<1>10. C[ChildAt(i, q)] = DentryD(dentry[Below(i)[q]])
  BY <1>6, <1>7, <1>8 DEF Written
<1>11. Kid(C, x, k) = C[DENTRY_OFS(b) + k]
  BY <1>2 DEF Kid
<1>12. Kid(C, x, k) = DentryD(dentry[Below(i)[q]])
  BY <1>9, <1>10, <1>11
<1> QED
  BY <1>3, <1>6, <1>7, <1>8, <1>9, <1>12

\* The inode as it is on the disk then.
LEMMA DoneInode ==
    ASSUME TypeOK, NEW mi, NEW md, NEW U, NEW C, Placed(dentry, C, U, mi), Paired(dentry, inode, md),
           NEW i \in DOMAIN inode, Written(C, i, Len(Below(i)))
    PROVE  /\ inode[i].ino \in Ino \cap mi
           /\ inode[i].ino = dentry[inode[i].dentry].ino
           /\ C[INO_OFS(inode[i].ino)].type = "inode" /\ C[INO_OFS(inode[i].ino)].ino = inode[i].ino
           /\ C[INO_OFS(inode[i].ino)].dir_dentry_cnt \in 0 .. Cells
           /\ C[INO_OFS(inode[i].ino)].data_block_no = inode[i].data_block_no
           /\ inode[i].data_block_no \in {None} \cup (Block \cap md)
           /\ dentry[inode[i].dentry].file_type = "NFS_DIR" <=> inode[i].data_block_no # None
<1>1. C[INO_OFS(inode[i].ino)] = InodeD(inode[i])
  BY DEF Written
<1>2. /\ C[INO_OFS(inode[i].ino)].type = "inode" /\ C[INO_OFS(inode[i].ino)].ino = inode[i].ino
      /\ C[INO_OFS(inode[i].ino)].dir_dentry_cnt = inode[i].dir_dentry_cnt
      /\ C[INO_OFS(inode[i].ino)].data_block_no = inode[i].data_block_no
  BY <1>1 DEF InodeD
<1>3. inode[i].dentry \in DOMAIN dentry /\ inode[i].dir_dentry_cnt \in 0 .. made /\ made \in Nat
  BY InodeFields, Parts
<1>4. /\ dentry[inode[i].dentry].ino = inode[i].ino /\ inode[i].dir_dentry_cnt <= Cells
      /\ dentry[inode[i].dentry].file_type = "NFS_DIR" => inode[i].data_block_no \in Block \cap md
      /\ dentry[inode[i].dentry].file_type # "NFS_DIR" => inode[i].data_block_no = None
  BY DEF Paired
<1>5. inode[i].ino \in Ino \cap mi
  BY <1>3, <1>4 DEF Placed
<1>6. inode[i].dir_dentry_cnt \in 0 .. Cells
  BY <1>3, <1>4
<1>7. None \notin Block
  BY DEF None, Block
<1> QED
  BY <1>2, <1>4, <1>5, <1>6, <1>7

\* With nothing left to write, the stored inodes and those written are stored together.
LEMMA SavedWhole ==
    ASSUME TypeOK, RootOk(dentry, inode), NEW C, NEW mi, NEW md, NEW U \in SUBSET Bit,
           Stored(C, U, mi, md), Linked(dentry, inode, C, U, mi, md),
           NEW E \in SUBSET DOMAIN inode, Synced(C, {}, E),
           NEW V, V = U \cup {inode[i].ino : i \in E}
    PROVE  /\ V \in SUBSET Bit
           /\ Stored(C, V, mi, md) /\ Linked(<<RootDentry>>, <<>>, C, V, mi, md)
<1> PICK N : N = {inode[i].ino : i \in E}
  OBVIOUS
<1>0. V = U \cup N
  OBVIOUS
<1>1. /\ Typed(C, U, mi, md) /\ BlocksOnce(C, U) /\ KidsStored(C, U) /\ KidsOnce(C, U)
      /\ Placed(dentry, C, U, mi) /\ NumbersOnce(dentry) /\ NotBelow(dentry, C, U)
      /\ Paired(dentry, inode, md) /\ OwnBlocks(inode, C, U) /\ ListedOnce(inode)
  BY DEF Stored, Linked
<1>2. \A i \in E : Written(C, i, Len(Below(i))) /\ Followed({}, E, i, Len(Below(i)))
  BY DEF Synced
<1>3. ASSUME NEW i \in E
      PROVE  /\ inode[i].ino \in Ino \cap mi
             /\ inode[i].ino = dentry[inode[i].dentry].ino
             /\ C[INO_OFS(inode[i].ino)].type = "inode" /\ C[INO_OFS(inode[i].ino)].ino = inode[i].ino
             /\ C[INO_OFS(inode[i].ino)].dir_dentry_cnt \in 0 .. Cells
             /\ C[INO_OFS(inode[i].ino)].data_block_no = inode[i].data_block_no
             /\ inode[i].data_block_no \in {None} \cup (Block \cap md)
             /\ dentry[inode[i].dentry].file_type = "NFS_DIR" <=> inode[i].data_block_no # None
  <2>1. i \in DOMAIN inode /\ Written(C, i, Len(Below(i)))
    BY <1>2
  <2> QED
    BY <1>1, <2>1, DoneInode
<1>4. ASSUME NEW i \in E, NEW k \in Kids(C, inode[i].ino)
      PROVE  /\ k \in Int /\ k + 1 \in DOMAIN inode[i].dentries /\ k + 1 \in DOMAIN Below(i)
             /\ Below(i) = inode[i].dentries
             /\ inode[i].dentries[k + 1] \in DOMAIN dentry \ {Root}
             /\ Kid(C, inode[i].ino, k) = DentryD(dentry[inode[i].dentries[k + 1]])
  <2>1. i \in DOMAIN inode /\ Written(C, i, Len(Below(i)))
    BY <1>2
  <2> QED
    BY <1>1, <2>1, DoneKid
<1>5. ASSUME NEW i \in E, NEW k \in Kids(C, inode[i].ino)
      PROVE  Kid(C, inode[i].ino, k).ino = dentry[inode[i].dentries[k + 1]].ino
  <2> PICK e : e = dentry[inode[i].dentries[k + 1]]
    OBVIOUS
  <2>1. Kid(C, inode[i].ino, k) = DentryD(e)
    BY <1>4
  <2>2. DentryD(e).ino = e.ino
    BY DEF DentryD
  <2> QED
    BY <2>1, <2>2
<1>6. Typed(C, V, mi, md)
  <2>1. V \subseteq Ino \cap mi
    BY <1>1, <1>3 DEF Typed
  <2>2. ASSUME NEW v \in V
        PROVE  /\ C[INO_OFS(v)].type = "inode" /\ C[INO_OFS(v)].ino = v
               /\ C[INO_OFS(v)].dir_dentry_cnt \in 0 .. Cells
               /\ C[INO_OFS(v)].data_block_no \in {None} \cup (Block \cap md)
    <3>1. CASE v \in U
      BY <1>1, <3>1 DEF Typed
    <3>2. CASE v \in N
      <4>1. PICK i \in E : v = inode[i].ino
        BY <3>2
      <4> QED
        BY <1>3, <4>1
    <3> QED
      BY <3>1, <3>2
  <2> QED
    BY <2>1, <2>2 DEF Typed
<1>7. BlocksOnce(C, V)
  <2> SUFFICES ASSUME NEW u \in V, NEW v \in V,
                      C[INO_OFS(u)].data_block_no = C[INO_OFS(v)].data_block_no,
                      C[INO_OFS(u)].data_block_no # None
               PROVE  u = v
    BY DEF BlocksOnce
  <2>1. CASE u \in U /\ v \in U
    BY <1>1, <2>1 DEF BlocksOnce
  <2>2. CASE u \in N /\ v \in U
    <3>1. PICK i \in E : u = inode[i].ino
      BY <2>2
    <3>2. i \in DOMAIN inode /\ C[INO_OFS(u)].data_block_no = inode[i].data_block_no
      BY <1>3, <3>1
    <3> QED
      BY <1>1, <2>2, <3>2 DEF OwnBlocks
  <2>3. CASE u \in U /\ v \in N
    <3>1. PICK j \in E : v = inode[j].ino
      BY <2>3
    <3>2. j \in DOMAIN inode /\ C[INO_OFS(v)].data_block_no = inode[j].data_block_no
      BY <1>3, <3>1
    <3> QED
      BY <1>1, <2>3, <3>2 DEF OwnBlocks
  <2>4. CASE u \in N /\ v \in N
    <3>1. PICK i \in E : u = inode[i].ino
      BY <2>4
    <3>2. PICK j \in E : v = inode[j].ino
      BY <2>4
    <3>3. /\ i \in DOMAIN inode /\ C[INO_OFS(u)].data_block_no = inode[i].data_block_no
          /\ j \in DOMAIN inode /\ C[INO_OFS(v)].data_block_no = inode[j].data_block_no
      BY <1>3, <3>1, <3>2
    <3>4. i = j
      BY <1>1, <3>3 DEF OwnBlocks
    <3> QED
      BY <3>1, <3>2, <3>4
  <2> QED
    BY <2>1, <2>2, <2>3, <2>4
<1>8. KidsStored(C, V)
  <2> SUFFICES ASSUME NEW v \in V, NEW k \in Kids(C, v)
               PROVE  Kid(C, v, k).type = "dentry" /\ Kid(C, v, k).ino \in V /\ Fits(Kid(C, v, k), C)
    BY DEF KidsStored
  <2>1. CASE v \in U
    BY <1>1, <2>1 DEF KidsStored
  <2>2. CASE v \in N
    <3>1. PICK i \in E : v = inode[i].ino
      BY <2>2
    <3> PICK e : e = inode[i].dentries[k + 1]
      OBVIOUS
    <3>2. e \in DOMAIN dentry /\ Kid(C, v, k) = DentryD(dentry[e])
      BY <1>4, <3>1
    <3>3. /\ Kid(C, v, k).type = "dentry" /\ Kid(C, v, k).ino = dentry[e].ino
          /\ Kid(C, v, k).file_type = dentry[e].file_type
      BY <3>2 DEF DentryD
    <3>4. CASE dentry[e].inode = NULL
      <4>1. dentry[e].ino \in U /\ Fits(dentry[e], C)
        BY <1>1, <3>2, <3>4 DEF Placed
      <4> QED
        BY <3>3, <4>1 DEF Fits
    <3>5. CASE dentry[e].inode # NULL
      <4> PICK c : c = dentry[e].inode
        OBVIOUS
      <4>1. c \in E
        <5>1. /\ k + 1 \in DOMAIN Below(i) /\ Below(i)[k + 1] = e
              /\ DOMAIN Below(i) = 1 .. Len(Below(i)) /\ Len(Below(i)) \in Nat
          BY <1>4, <3>1, BelowType
        <5> PICK l : l = Len(Below(i))
          OBVIOUS
        <5>2. k + 1 <= l
          BY <5>1
        <5>3. Followed({}, E, i, l)
          BY <1>2
        <5>4. ~OnStack({}, c)
          BY DEF OnStack
        <5>5. \A q \in DOMAIN Below(i) : q <= l =>
                 LET z == dentry[Below(i)[q]].inode IN z = NULL \/ z \in E \/ OnStack({}, z)
          BY <5>3 DEF Followed
        <5>6. LET z == dentry[Below(i)[k + 1]].inode IN z = NULL \/ z \in E \/ OnStack({}, z)
          BY <5>1, <5>2, <5>5
        <5> QED
          BY <3>5, <5>1, <5>4, <5>6
      <4>2. inode[c].dentry = e
        BY <1>1, <3>2, <3>5 DEF Paired
      <4>3. dentry[e].ino = inode[c].ino /\ inode[c].ino \in N
        BY <1>3, <4>1, <4>2
      <4>4. C[INO_OFS(dentry[e].ino)].data_block_no = inode[c].data_block_no
        BY <1>3, <4>1, <4>3
      <4>5. dentry[e].file_type = "NFS_DIR" <=> inode[c].data_block_no # None
        BY <1>3, <4>1, <4>2
      <4> QED
        BY <3>3, <4>3, <4>4, <4>5 DEF Fits
    <3> QED
      BY <3>4, <3>5
  <2> QED
    BY <2>1, <2>2
<1>9. ASSUME NEW u \in U, NEW k \in Kids(C, u), NEW j \in E, NEW l \in Kids(C, inode[j].ino)
      PROVE  Kid(C, u, k).ino # Kid(C, inode[j].ino, l).ino
  <2>1. inode[j].dentries[l + 1] \in DOMAIN dentry
    BY <1>4
  <2> QED
    BY <1>1, <1>5, <2>1 DEF NotBelow
<1>10. KidsOnce(C, V)
  <2> SUFFICES ASSUME NEW u \in V, NEW v \in V, NEW k \in Kids(C, u), NEW l \in Kids(C, v),
                      Kid(C, u, k).ino = Kid(C, v, l).ino
               PROVE  u = v /\ k = l
    BY DEF KidsOnce
  <2>1. CASE u \in U /\ v \in U
    BY <1>1, <2>1 DEF KidsOnce
  <2>2. CASE u \in N /\ v \in U
    <3>1. PICK i \in E : u = inode[i].ino
      BY <2>2
    <3> QED
      BY <1>9, <2>2, <3>1
  <2>3. CASE u \in U /\ v \in N
    <3>1. PICK j \in E : v = inode[j].ino
      BY <2>3
    <3> QED
      BY <1>9, <2>3, <3>1
  <2>4. CASE u \in N /\ v \in N
    <3>1. PICK i \in E : u = inode[i].ino
      BY <2>4
    <3>2. PICK j \in E : v = inode[j].ino
      BY <2>4
    <3> PICK q : q = k + 1
      OBVIOUS
    <3> PICK r : r = l + 1
      OBVIOUS
    <3>3. /\ k \in Int /\ q \in DOMAIN inode[i].dentries /\ inode[i].dentries[q] \in DOMAIN dentry
          /\ Kid(C, u, k).ino = dentry[inode[i].dentries[q]].ino
      BY <1>4, <1>5, <3>1
    <3>4. /\ l \in Int /\ r \in DOMAIN inode[j].dentries /\ inode[j].dentries[r] \in DOMAIN dentry
          /\ Kid(C, v, l).ino = dentry[inode[j].dentries[r]].ino
      BY <1>4, <1>5, <3>2
    <3>5. inode[i].dentries[q] = inode[j].dentries[r]
      BY <1>1, <3>3, <3>4 DEF NumbersOnce
    <3>6. i = j /\ q = r
      BY <1>1, <3>3, <3>4, <3>5 DEF ListedOnce
    <3>7. k = l
      BY <3>3, <3>4, <3>6
    <3> QED
      BY <3>1, <3>2, <3>6, <3>7
  <2> QED
    BY <2>1, <2>2, <2>3, <2>4
<1>11. Root \in E
  BY DEF Synced, OnStack
<1>12. /\ Root \in DOMAIN dentry /\ dentry[Root].ino = 0 /\ dentry[Root].file_type = "NFS_DIR"
       /\ inode[Root].dentry = Root
  BY DEF RootOk
<1>13. 0 \in Ino \cap mi /\ 0 \in V /\ C[INO_OFS(0)].data_block_no # None
  BY <1>3, <1>11, <1>12
<1>14. /\ DOMAIN <<RootDentry>> = {1} /\ <<RootDentry>>[1].ino = 0
       /\ <<RootDentry>>[1].inode = NULL /\ <<RootDentry>>[1].file_type = "NFS_DIR"
  BY DEF RootDentry
<1>15. Placed(<<RootDentry>>, C, V, mi)
  BY <1>13, <1>14 DEF Placed, Fits
<1>16. NotBelow(<<RootDentry>>, C, V)
  <2> SUFFICES ASSUME NEW v \in V, NEW k \in Kids(C, v) PROVE Kid(C, v, k).ino # 0
    BY <1>14 DEF NotBelow
  <2>1. CASE v \in U
    BY <1>1, <1>12, <2>1 DEF NotBelow
  <2>2. CASE v \in N
    <3>1. PICK i \in E : v = inode[i].ino
      BY <2>2
    <3> PICK e : e = inode[i].dentries[k + 1]
      OBVIOUS
    <3>2. e \in DOMAIN dentry \ {Root} /\ Kid(C, v, k).ino = dentry[e].ino
      BY <1>4, <1>5, <3>1
    <3> QED
      BY <1>1, <1>12, <3>2 DEF NumbersOnce
  <2> QED
    BY <2>1, <2>2
<1>17. NumbersOnce(<<RootDentry>>)
  BY <1>14 DEF NumbersOnce
<1>18. DOMAIN <<>> = {}
  OBVIOUS
<1>19. Paired(<<RootDentry>>, <<>>, md) /\ OwnBlocks(<<>>, C, V) /\ ListedOnce(<<>>)
  BY <1>14, <1>18 DEF Paired, OwnBlocks, ListedOnce
<1>20. V \in SUBSET Bit
  <2>1. N \subseteq Ino
    BY <1>3
  <2>2. Ino \subseteq Bit
    BY DEF Ino, Bit
  <2> QED
    BY <2>1, <2>2
<1>21. Stored(C, V, mi, md) /\ Linked(<<RootDentry>>, <<>>, C, V, mi, md)
  BY <1>6, <1>7, <1>8, <1>10, <1>15, <1>16, <1>17, <1>19 DEF Stored, Linked
<1> QED
  BY <1>20, <1>21

\* The end of sync_inode: the whole tree is on the disk.
LEMMA EndSyncShape ==
    ASSUME ShapeInv, TypeInv', EndSync
    PROVE  ShapeInv'
<1>1. /\ pc = "sync" /\ work = <<>> /\ pc' = "super"
      /\ UNCHANGED <<dentry, inode, super, disk, work, ls, confused, spoilt, live, durable, made>>
  BY DEF EndSync
<1>2. MemoryOk' /\ SyncOk'
  BY <1>1 DEF MemoryOk, SyncOk
<1>3. ASSUME spoilt = {}
      PROVE  ~confused /\ Whole(disk.cell, super.map_inode, super.map_data)
  <2>1. ~confused
    BY <1>1, <1>3, MountedFits
  <2>2. PICK U \in SUBSET Bit :
           /\ Stored(disk.cell, U, super.map_inode, super.map_data)
           /\ Linked(dentry, inode, disk.cell, U, super.map_inode, super.map_data)
    BY <1>1, <1>3, MountedFits
  <2>3. PICK E \in SUBSET DOMAIN inode : Synced(disk.cell, ToSet(work), E)
    BY <1>1, <1>3 DEF ShapeInv, SyncOk
  <2>4. ToSet(work) = {}
    BY <1>1 DEF ToSet
  <2>5. TypeOK /\ RootOk(dentry, inode)
    BY <1>1, <2>1 DEF ShapeInv, TypeInv, StageOk
  <2>6. Synced(disk.cell, {}, E)
    BY <2>3, <2>4
  <2>7. \E V \in SUBSET Bit :
           /\ Stored(disk.cell, V, super.map_inode, super.map_data)
           /\ Linked(<<RootDentry>>, <<>>, disk.cell, V, super.map_inode, super.map_data)
    BY <2>2, <2>5, <2>6, SavedWhole
  <2> QED
    BY <2>1, <2>7 DEF Whole
<1>4. DiskOk'
  BY <1>1, <1>3 DEF DiskOk, Destroying
<1> QED
  BY <1>2, <1>4 DEF ShapeInv
-------------------------------------------------------------------------------
\* Over the empty disk there is nothing to fit.
LEMMA ShapeStart == Init => ShapeInv
<1> SUFFICES ASSUME Init PROVE ShapeInv
  OBVIOUS
<1>1. pc = "unmounted" /\ ~disk.magic /\ TypeInv
  BY TypeStart DEF Init
<1>2. MemoryOk /\ SyncOk /\ DiskOk
  BY <1>1 DEF MemoryOk, SyncOk, DiskOk, Destroying
<1> QED
  BY <1>1, <1>2 DEF ShapeInv

\* A step that changes nothing.
LEMMA ShapeStutters ==
    ASSUME ShapeInv, TypeInv', UNCHANGED vars
    PROVE  ShapeInv'
<1>1. UNCHANGED <<dentry, inode, super, disk, pc, work, confused, spoilt>>
  BY DEF vars
<1>2. MemoryOk' /\ DiskOk'
  BY <1>1 DEF ShapeInv, MemoryOk, DiskOk
<1>3. SyncOk'
  <2> SUFFICES ASSUME pc = "sync", spoilt = {} PROVE SyncOk'
    BY <1>1 DEF SyncOk
  <2>1. PICK E \in SUBSET DOMAIN inode : Synced(disk.cell, ToSet(work), E)
    BY DEF ShapeInv, SyncOk
  <2>2. Synced(disk'.cell, ToSet(work'), E)
    BY <1>1, <2>1
  <2> QED
    BY <1>1, <2>2, SyncedNext
<1> QED
  BY <1>2, <1>3 DEF ShapeInv

\* Every step keeps the shape.
LEMMA ShapeStep == ShapeInv /\ [Next]_vars => ShapeInv'
<1> SUFFICES ASSUME ShapeInv, [Next]_vars PROVE ShapeInv'
  OBVIOUS
<1>0. TypeInv'
  BY TypeStep DEF ShapeInv
<1>1. ASSUME NEW path \in Path, newfs_mkdir(path) PROVE ShapeInv'
  BY <1>0, <1>1, CreateShape DEF newfs_mkdir, FileType
<1>2. ASSUME NEW path \in Path, newfs_mknod(path) PROVE ShapeInv'
  BY <1>0, <1>2, CreateShape DEF newfs_mknod, FileType
<1>3. ASSUME NEW path \in Path, newfs_getattr(path) PROVE ShapeInv'
  BY <1>0, <1>3, GetattrShape
<1>4. ASSUME NEW path \in Path \cup {<<>>}, newfs_readdir(path) PROVE ShapeInv'
  BY <1>0, <1>4, ReaddirShape
<1>5. CASE FormatNew
  BY <1>0, <1>5, FormatShape
<1>6. CASE MountOld
  BY <1>0, <1>6, MountShape
<1>7. CASE ReadRoot
  BY <1>0, <1>7, ReadRootShape
<1>8. CASE newfs_destroy
  BY <1>0, <1>8, DestroyShape
<1>9. CASE sync_inode
  BY <1>0, <1>9, SyncShape
<1>10. CASE EndSync
  BY <1>0, <1>10, EndSyncShape
<1>11. CASE WriteSuper
  BY <1>0, <1>11, WriteSuperShape
<1>12. CASE WriteMapInode
  BY <1>0, <1>12, WriteSuperShape
<1>13. CASE WriteMapData
  BY <1>0, <1>13, WriteMapDataShape
<1>14. CASE Crash
  BY <1>0, <1>14, CrashShape
<1>15. CASE UNCHANGED vars
  BY <1>0, <1>15, ShapeStutters
<1> QED
  BY <1>1, <1>2, <1>3, <1>4, <1>5, <1>6, <1>7, <1>8, <1>9, <1>10, <1>11, <1>12, <1>13, <1>14,
     <1>15 DEF Next

\* Memory and disk fit each other in every reachable state without a mishap.
LEMMA ShapeAlways == Spec => []ShapeInv
<1>1. Init => ShapeInv
  BY ShapeStart
<1>2. ShapeInv /\ [Next]_vars => ShapeInv'
  BY ShapeStep
<1> QED
  BY <1>1, <1>2, PTL DEF Spec

(***************************************************************************)
(* read_inode takes bytes for what they are not only after a torn          *)
(* newfs_destroy, a number outside its area or a directory of more         *)
(* dentries than its block holds.  No such read happens otherwise, however *)
(* many files, mounts and crashes there were before (newfs_util.c          *)
(* read_inode, sync_inode).                                                *)
(***************************************************************************)
THEOREM BytesAreTakenRightly == Spec => []ConfusedNeedsMishap
<1>1. ShapeInv => ConfusedNeedsMishap
  <2> SUFFICES ASSUME ShapeInv, spoilt = {} PROVE ~confused
    BY DEF ConfusedNeedsMishap
  <2>1. pc \in Stages
    BY Parts DEF ShapeInv, TypeInv
  <2>2. CASE pc = "unmounted"
    BY <2>2 DEF ShapeInv, TypeInv, StageOk
  <2>3. CASE pc \in {"read_root", "mounted", "sync"}
    BY <2>3, MountedFits
  <2>4. CASE pc \in Destroying \ {"sync"}
    BY <2>4 DEF ShapeInv, DiskOk
  <2> QED
    BY <2>1, <2>2, <2>3, <2>4 DEF Stages, Destroying
<1> QED
  BY <1>1, ShapeAlways, PTL
===============================================================================
