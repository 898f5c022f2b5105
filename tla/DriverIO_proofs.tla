---------------------------- MODULE DriverIO_proofs ----------------------------
(***************************************************************************)
(* With one thread newfs_driver_read and newfs_driver_write implement the  *)
(* disk of bytes, for every size of sectors, of the disk and of requests.  *)
(***************************************************************************)
EXTENDS DriverIO, SequenceTheorems, TLAPS

\* The file system has one thread.
OneCaller == \A t, u \in Thread : t = u

Multiple(n) == \E k \in Nat : n = IO_SZ * k

\* Multiples of a sector: none lies between two neighbours.
LEMMA Multiples ==
    /\ Multiple(0) /\ Multiple(DiskSize)
    /\ \A x, y \in Int : Multiple(x) /\ Multiple(y) => Multiple(x + y)
    /\ \A x \in Int : Multiple(x) /\ x # 0 => x >= IO_SZ /\ Multiple(x - IO_SZ)
    /\ \A x, y \in Int : Multiple(x) /\ Multiple(y) /\ x < y + IO_SZ => x <= y
<1> DEFINE L == IO_SZ
<1>0. L \in Nat /\ L > 0
  BY SectorAssumption
<1> HIDE DEF L
<1>1. \A j, k \in Nat : j + 1 <= k => L * j + L <= L * k
  <2> SUFFICES ASSUME NEW j \in Nat, NEW k \in Nat, j + 1 <= k PROVE L * j + L <= L * k
    OBVIOUS
  <2>1. PICK m \in Nat : k = j + 1 + m
    <3>1. k - (j + 1) \in Nat /\ k = j + 1 + (k - (j + 1))
      OBVIOUS
    <3> QED
      BY <3>1
  <2>2. L * k = L * j + L + L * m /\ L * m >= 0
    BY <1>0, <2>1
  <2> QED
    BY <1>0, <2>2
<1>2. Multiple(0)
  BY <1>0 DEF Multiple, L
<1>3. Multiple(DiskSize)
  <2>1. DiskSize \in Nat /\ DiskSize % L = 0
    BY SectorAssumption DEF L
  <2>2. PICK k \in Nat : DiskSize = L * k
    <3>1. PICK q, r : q = DiskSize \div L /\ r = DiskSize % L
      OBVIOUS
    <3>2. q \in Nat /\ DiskSize = L * q + r /\ r = 0
      BY <1>0, <2>1, <3>1
    <3> QED
      BY <1>0, <3>2
  <2> QED
    BY <2>2 DEF Multiple, L
<1>4. ASSUME NEW x \in Int, NEW y \in Int, Multiple(x), Multiple(y) PROVE Multiple(x + y)
  <2>1. PICK j \in Nat, k \in Nat : x = L * j /\ y = L * k
    BY <1>4 DEF Multiple, L
  <2>2. x + y = L * (j + k) /\ j + k \in Nat
    BY <1>0, <2>1
  <2> QED
    BY <2>2 DEF Multiple, L
<1>5. ASSUME NEW x \in Int, Multiple(x), x # 0 PROVE x >= IO_SZ /\ Multiple(x - IO_SZ)
  <2>1. PICK k \in Nat : x = L * k
    BY <1>5 DEF Multiple, L
  <2>2. k # 0
    BY <1>0, <1>5, <2>1
  <2>3. k - 1 \in Nat /\ x - L = L * (k - 1) /\ L * (k - 1) >= 0
    BY <1>0, <2>1, <2>2
  <2>4. x >= L
    BY <1>0, <2>3
  <2> QED
    BY <2>3, <2>4 DEF Multiple, L
<1>6. ASSUME NEW x \in Int, NEW y \in Int, Multiple(x), Multiple(y), x < y + IO_SZ PROVE x <= y
  <2>1. PICK j \in Nat, k \in Nat : x = L * j /\ y = L * k
    BY <1>6 DEF Multiple, L
  <2>2. CASE j <= k
    <3>1. CASE j = k
      BY <2>1, <3>1
    <3>2. CASE j + 1 <= k
      BY <1>0, <1>1, <2>1, <3>2
    <3> QED
      BY <2>2, <3>1, <3>2
  <2>3. CASE k + 1 <= j
    <3>1. L * k + L <= L * j
      BY <1>1, <2>3
    <3> QED
      BY <1>0, <1>6, <2>1, <3>1 DEF L
  <2> QED
    BY <2>2, <2>3
<1> QED
  BY <1>2, <1>3, <1>4, <1>5, <1>6

\* What the rounding macros yield.
LEMMA Rounding ==
    ASSUME NEW v \in Nat
    PROVE  /\ ROUND_DOWN(v, IO_SZ) \in Nat /\ Multiple(ROUND_DOWN(v, IO_SZ))
           /\ ROUND_DOWN(v, IO_SZ) <= v
           /\ ROUND_UP(v, IO_SZ) \in Nat /\ Multiple(ROUND_UP(v, IO_SZ))
           /\ v <= ROUND_UP(v, IO_SZ) /\ ROUND_UP(v, IO_SZ) < v + IO_SZ
<1> DEFINE L == IO_SZ
           q == v \div L
           r == v % L
<1>0. L \in Nat /\ L > 0
  BY SectorAssumption
<1>1. q \in Nat /\ r \in 0 .. L - 1 /\ v = L * q + r
  BY <1>0
<1>2. ROUND_DOWN(v, L) = IF r = 0 THEN v ELSE q * L
  BY DEF ROUND_DOWN
<1>3. ROUND_UP(v, L) = IF r = 0 THEN v ELSE (q + 1) * L
  BY DEF ROUND_UP
<1> HIDE DEF q, r, L
<1>4. q * L = L * q /\ (q + 1) * L = L * (q + 1) /\ L * (q + 1) = L * q + L
      /\ L * q \in Nat /\ L * (q + 1) \in Nat /\ q + 1 \in Nat
  BY <1>0, <1>1
<1>5. ROUND_DOWN(v, L) = L * q
  BY <1>0, <1>1, <1>2, <1>4
<1>6. ROUND_DOWN(v, L) \in Nat /\ ROUND_DOWN(v, L) <= v
  BY <1>0, <1>1, <1>4, <1>5
<1>7. ROUND_UP(v, L) = IF r = 0 THEN L * q ELSE L * (q + 1)
  BY <1>0, <1>1, <1>3, <1>4
<1>8. ROUND_UP(v, L) \in Nat /\ v <= ROUND_UP(v, L) /\ ROUND_UP(v, L) < v + L
  BY <1>0, <1>1, <1>4, <1>7
<1>9. \E k \in Nat : ROUND_DOWN(v, L) = L * k
  BY <1>1, <1>5
<1>10. \E k \in Nat : ROUND_UP(v, L) = L * k
  BY <1>1, <1>4, <1>7
<1> QED
  BY <1>6, <1>8, <1>9, <1>10 DEF Multiple, L

\* The sectors of a request: they cover it, and lie on the disk.
LEMMA Aligned ==
    ASSUME NEW c, c.offset \in Nat, c.size \in Nat, c.offset + c.size <= DiskSize
    PROVE  /\ OffsetAligned(c) \in Nat /\ SizeAligned(c) \in Nat
           /\ Multiple(SizeAligned(c))
           /\ Bias(c) = c.offset - OffsetAligned(c)
           /\ OffsetAligned(c) <= c.offset
           /\ c.offset + c.size <= OffsetAligned(c) + SizeAligned(c)
           /\ OffsetAligned(c) + SizeAligned(c) <= DiskSize
<1> DEFINE o == c.offset
           n == c.size
           a == OffsetAligned(c)
           s == SizeAligned(c)
<1>1. o \in Nat /\ n \in Nat /\ o + n <= DiskSize /\ DiskSize \in Nat /\ IO_SZ \in Nat
  BY SectorAssumption
<1>2. a \in Nat /\ Multiple(a) /\ a <= o
  BY Rounding DEF OffsetAligned
<1>3. Bias(c) = o - a
  BY DEF Bias
<1> HIDE DEF o, n, a
<1>4. n + (o - a) \in Nat
  BY <1>1, <1>2
<1>5. s = ROUND_UP(n + (o - a), IO_SZ)
  BY <1>3 DEF SizeAligned, n
<1> HIDE DEF s
<1>6. s \in Nat /\ Multiple(s) /\ n + (o - a) <= s /\ s < n + (o - a) + IO_SZ
  BY <1>4, <1>5, Rounding
<1>7. Multiple(a + s) /\ Multiple(DiskSize)
  BY <1>2, <1>6, Multiples
<1>8. a + s \in Int /\ a + s < DiskSize + IO_SZ /\ o + n <= a + s
  BY <1>1, <1>2, <1>6
<1>9. a + s <= DiskSize
  BY <1>1, <1>7, <1>8, Multiples
<1> QED
  BY <1>2, <1>3, <1>6, <1>8, <1>9 DEF o, n, a, s
-------------------------------------------------------------------------------
(***************************************************************************)
(* The inductive invariant, of a call c, the position h of the descriptor  *)
(* and the bytes b of the medium.  NewByte is what the write puts at a.    *)
(***************************************************************************)
CallState ==
    [pc : {"seek", "read", "reseek", "write", "return"}, op : {"read", "write"},
     offset : Address, size : 0 .. MaxSize, content : Seq(Byte),
     left : 0 .. DiskSize, temp : Seq(Byte)]

RequestOf(c) == [op |-> c.op, offset |-> c.offset, size |-> c.size, content |-> c.content]

NewByte(c, a, b) ==
    IF a \in c.offset .. c.offset + c.size - 1 THEN c.content[a - c.offset + 1] ELSE b[a]

Done(c) == SizeAligned(c) - c.left

CallInv(c, h, b) ==
    /\ c \in CallState /\ RequestOf(c) \in Request /\ c.offset + c.size <= DiskSize
    /\ Multiple(c.left) /\ c.left <= SizeAligned(c)
    /\ c.pc = "seek" => c.left = SizeAligned(c) /\ c.temp = <<>>
    /\ c.pc = "read" =>
          /\ h = OffsetAligned(c) + Done(c) /\ Len(c.temp) = Done(c)
          /\ \A k \in 1 .. Done(c) : c.temp[k] = b[OffsetAligned(c) + k - 1]
    /\ c.pc \in {"reseek", "write"} =>
          /\ c.op = "write" /\ Len(c.temp) = SizeAligned(c)
          /\ \A k \in Done(c) + 1 .. SizeAligned(c) :
                c.temp[k] = NewByte(c, OffsetAligned(c) + k - 1, b)
    /\ c.pc = "reseek" => c.left = SizeAligned(c)
    /\ c.pc = "write" => h = OffsetAligned(c) + Done(c)
    /\ c.pc = "return" /\ c.op = "read" => Len(c.temp) = c.size

IInv ==
    /\ bytes \in [Address -> Byte] /\ head \in 0 .. DiskSize
    /\ io \in [Thread -> {Idle} \cup CallState]
    /\ \A t \in Thread : io[t] # Idle => CallInv(io[t], head, bytes)

\* The numbers of a request.
LEMMA RequestFields ==
    ASSUME NEW r \in Request
    PROVE  /\ r.op \in {"read", "write"} /\ r.offset \in Address /\ r.size \in 0 .. MaxSize
           /\ r.content \in Seq(Byte) /\ r \in Disk!Request /\ r = RequestOf(r)
           /\ r.op = "write" => r.content \in [1 .. r.size -> Byte]
           /\ r.op = "read" => r.content = <<>>
<1>1. CASE r \in [op : {"read"}, offset : Address, size : 0 .. MaxSize, content : {<<>>}]
  <2>1. /\ r.op = "read" /\ r.offset \in Address /\ r.size \in 0 .. MaxSize
        /\ r.content = <<>>
    BY <1>1
  <2>2. r.content \in Seq(Byte)
    BY <2>1
  <2>3. r \in Disk!Request
    BY <1>1 DEF Disk!Request, Disk!Address, Address
  <2>4. r = RequestOf(r)
    BY <1>1 DEF RequestOf
  <2> QED
    BY <2>1, <2>2, <2>3, <2>4
<1>2. ASSUME NEW n \in 0 .. MaxSize,
             r \in [op : {"write"}, offset : Address, size : {n}, content : [1 .. n -> Byte]]
      PROVE  /\ r.op = "write" /\ r.offset \in Address /\ r.size = n
             /\ r.content \in [1 .. n -> Byte] /\ r.content \in Seq(Byte)
             /\ r \in Disk!Request /\ r = RequestOf(r)
  <2>1. n \in Nat
    BY BoundAssumption
  <2>2. r.content \in [1 .. n -> Byte]
    BY <1>2
  <2>3. r.content \in Seq(Byte)
    BY <2>1, <2>2
  <2>4. r \in Disk!Request
    BY <1>2 DEF Disk!Request, Disk!Address, Address
  <2>5. r = RequestOf(r)
    BY <1>2 DEF RequestOf
  <2> QED
    BY <1>2, <2>2, <2>3, <2>4, <2>5
<1>3. \/ r \in [op : {"read"}, offset : Address, size : 0 .. MaxSize, content : {<<>>}]
      \/ \E n \in 0 .. MaxSize :
            r \in [op : {"write"}, offset : Address, size : {n}, content : [1 .. n -> Byte]]
  BY DEF Request
<1>4. CASE \E n \in 0 .. MaxSize :
            r \in [op : {"write"}, offset : Address, size : {n}, content : [1 .. n -> Byte]]
  BY <1>2, <1>4
<1> QED
  BY <1>1, <1>3, <1>4

\* What every call knows of its numbers.
LEMMA Numbers ==
    ASSUME NEW c, NEW h, NEW b, CallInv(c, h, b)
    PROVE  /\ c \in CallState
           /\ c.offset \in Nat /\ c.size \in Nat /\ c.left \in Nat
           /\ OffsetAligned(c) \in Nat /\ SizeAligned(c) \in Nat
           /\ Multiple(SizeAligned(c)) /\ Bias(c) = c.offset - OffsetAligned(c)
           /\ OffsetAligned(c) <= c.offset
           /\ c.offset + c.size <= OffsetAligned(c) + SizeAligned(c)
           /\ OffsetAligned(c) + SizeAligned(c) <= DiskSize
           /\ Done(c) \in Nat /\ Done(c) + c.left = SizeAligned(c)
           /\ Idle # c
<1>1. c \in CallState /\ c.offset \in Nat /\ c.size \in Nat /\ c.left \in Nat
      /\ c.offset + c.size <= DiskSize /\ c.left <= SizeAligned(c)
  BY SectorAssumption, BoundAssumption DEF CallInv, CallState, Address
<1>2. Idle # c
  <2>1. c.pc # "idle" /\ Idle.pc = "idle"
    BY <1>1 DEF CallState, Idle
  <2> QED
    BY <2>1
<1>3. SizeAligned(c) \in Nat
  BY <1>1, Aligned
<1>4. Done(c) \in Nat /\ Done(c) + c.left = SizeAligned(c)
  BY <1>1, <1>3 DEF Done
<1> QED
  BY <1>1, <1>2, <1>4, Aligned

\* The aligned range belongs to the request alone.
LEMMA SameRange ==
    ASSUME NEW c, NEW d, d.offset = c.offset, d.size = c.size
    PROVE  /\ OffsetAligned(d) = OffsetAligned(c) /\ SizeAligned(d) = SizeAligned(c)
           /\ Bias(d) = Bias(c)
BY DEF OffsetAligned, SizeAligned, Bias
-------------------------------------------------------------------------------
\* A call begins.
LEMMA StartCall ==
    ASSUME NEW r \in Request, r.offset + r.size <= DiskSize, NEW h, NEW b, NEW d,
           d = [pc |-> "seek", op |-> r.op, offset |-> r.offset, size |-> r.size,
                content |-> r.content, left |-> SizeAligned(r), temp |-> <<>>]
    PROVE  /\ d \in CallState /\ CallInv(d, h, b)
           /\ CallOf(d) = Disk!Pending(r, IF r.op = "write" THEN Disk!RangeOf(r) ELSE {}, <<>>)
<1>1. /\ r.op \in {"read", "write"} /\ r.offset \in Address /\ r.size \in 0 .. MaxSize
      /\ r.content \in Seq(Byte) /\ r = RequestOf(r)
  BY RequestFields
<1>2. r.offset \in Nat /\ r.size \in Nat
  BY <1>1, BoundAssumption, SectorAssumption DEF Address
<1>3. /\ OffsetAligned(r) \in Nat /\ SizeAligned(r) \in Nat /\ Multiple(SizeAligned(r))
      /\ OffsetAligned(r) <= r.offset /\ SizeAligned(r) <= DiskSize
  <2>1. /\ OffsetAligned(r) \in Nat /\ SizeAligned(r) \in Nat /\ Multiple(SizeAligned(r))
        /\ OffsetAligned(r) <= r.offset /\ OffsetAligned(r) + SizeAligned(r) <= DiskSize
    BY <1>2, Aligned
  <2> QED
    BY <2>1, SectorAssumption
<1>4. /\ d.pc = "seek" /\ d.op = r.op /\ d.offset = r.offset /\ d.size = r.size
      /\ d.content = r.content /\ d.left = SizeAligned(r) /\ d.temp = <<>>
  OBVIOUS
<1>5. SizeAligned(d) = SizeAligned(r) /\ OffsetAligned(d) = OffsetAligned(r)
  BY <1>4, SameRange
<1>6. d \in CallState
  <2>1. SizeAligned(r) \in 0 .. DiskSize
    BY <1>3, SectorAssumption
  <2> QED
    BY <1>1, <2>1 DEF CallState
<1>7. RequestOf(d) \in Request
  BY <1>1, <1>4 DEF RequestOf
<1>8. CallInv(d, h, b)
  BY <1>3, <1>4, <1>5, <1>6, <1>7 DEF CallInv
<1>9. Todo(d) = IF r.op = "write" THEN Disk!RangeOf(r) ELSE {}
  <2>1. Todo(d) = IF r.op = "read" THEN {}
                  ELSE {a \in r.offset .. r.offset + r.size - 1 : a >= OffsetAligned(r)}
    BY <1>4, <1>5 DEF Todo
  <2>2. PICK o, n, z : o = r.offset /\ n = r.size /\ z = OffsetAligned(r)
    OBVIOUS
  <2>3. {a \in o .. o + n - 1 : a >= z} = o .. o + n - 1
    BY <1>2, <1>3, <2>2
  <2> QED
    BY <1>1, <2>1, <2>2, <2>3, Zenon DEF Disk!RangeOf
<1>10. d # Idle
  BY <1>8, Numbers
<1> QED
  BY <1>4, <1>6, <1>8, <1>9, <1>10 DEF CallOf, Disk!Pending

\* The first seek.
LEMMA SeekCall ==
    ASSUME NEW c, NEW h, NEW b, CallInv(c, h, b), c.pc = "seek",
           NEW d, d = [c EXCEPT !.pc = "read"]
    PROVE  /\ CallInv(d, OffsetAligned(c), b) /\ OffsetAligned(c) \in 0 .. DiskSize
           /\ CallOf(d) = CallOf(c)
<1>1. c \in CallState /\ OffsetAligned(c) \in Nat /\ SizeAligned(c) \in Nat
      /\ OffsetAligned(c) + SizeAligned(c) <= DiskSize
  BY Numbers
<1>2. /\ d.pc = "read" /\ d.op = c.op /\ d.offset = c.offset /\ d.size = c.size
      /\ d.content = c.content /\ d.left = c.left /\ d.temp = c.temp /\ d \in CallState
  BY <1>1 DEF CallState
<1>3. SizeAligned(d) = SizeAligned(c) /\ OffsetAligned(d) = OffsetAligned(c)
  BY <1>2, SameRange
<1>4. c.left = SizeAligned(c) /\ c.temp = <<>>
  BY DEF CallInv
<1>5. Done(d) = 0
  BY <1>1, <1>2, <1>3, <1>4 DEF Done
<1>6. RequestOf(d) = RequestOf(c)
  BY <1>2 DEF RequestOf
<1>7. CallInv(d, OffsetAligned(c), b)
  BY <1>1, <1>2, <1>3, <1>4, <1>5, <1>6 DEF CallInv
<1>8. Todo(d) = Todo(c)
  BY <1>2, <1>3 DEF Todo
<1>9. c # Idle /\ d # Idle
  BY <1>7, Numbers
<1> QED
  BY <1>1, <1>2, <1>7, <1>8, <1>9, SectorAssumption DEF CallOf

\* Two sequences in a row.
LEMMA Concatenation ==
    ASSUME NEW S, NEW s \in Seq(S), NEW u \in Seq(S)
    PROVE  /\ s \o u \in Seq(S) /\ Len(s \o u) = Len(s) + Len(u)
           /\ \A k \in 1 .. Len(s) : (s \o u)[k] = s[k]
           /\ \A k \in Len(s) + 1 .. Len(s) + Len(u) : (s \o u)[k] = u[k - Len(s)]
OBVIOUS

\* The sequence t holds the n bytes of b from a on.
Holds(t, n, b, a) == t \in Seq(Byte) /\ Len(t) = n /\ \A k \in 1 .. n : t[k] = b[a + k - 1]

\* The bytes of one sector on the disk.
SectorAt(b, h) == [k \in 1 .. IO_SZ |-> b[h + k - 1]]

\* What is read of one sector is what the disk holds there.
LEMMA SectorRead ==
    ASSUME NEW b \in [Address -> Byte], NEW h \in Nat, h + IO_SZ <= DiskSize
    PROVE  Holds(SectorAt(b, h), IO_SZ, b, h)
<1> PICK s : s = [k \in 1 .. IO_SZ |-> b[h + k - 1]]
  OBVIOUS
<1>1. IO_SZ \in Nat /\ DiskSize \in Nat
  BY SectorAssumption
<1>2. \A k \in 1 .. IO_SZ : h + k - 1 \in Address
  BY <1>1 DEF Address
<1>3. \A k \in 1 .. IO_SZ : b[h + k - 1] \in Byte
  BY <1>2
<1>4. s \in Seq(Byte) /\ Len(s) = IO_SZ /\ \A k \in 1 .. IO_SZ : s[k] = b[h + k - 1]
  BY <1>1, <1>3
<1> QED
  BY <1>4 DEF Holds, SectorAt

\* Sectors read one behind the other hold the bytes of the disk.
LEMMA SectorsRead ==
    ASSUME NEW b, NEW a \in Nat, NEW m \in Nat, NEW n \in Nat,
           NEW old, Holds(old, m, b, a), NEW s, Holds(s, n, b, a + m)
    PROVE  Holds(old \o s, m + n, b, a)
<1> PICK all : all = old \o s
  OBVIOUS
<1>1. /\ old \in Seq(Byte) /\ Len(old) = m /\ \A k \in 1 .. m : old[k] = b[a + k - 1]
      /\ s \in Seq(Byte) /\ Len(s) = n /\ \A k \in 1 .. n : s[k] = b[(a + m) + k - 1]
  BY DEF Holds
<1>2. /\ all \in Seq(Byte) /\ Len(all) = m + n
      /\ \A k \in 1 .. m : all[k] = old[k]
      /\ \A k \in m + 1 .. m + n : all[k] = s[k - m]
  <2>1. /\ old \o s \in Seq(Byte) /\ Len(old \o s) = Len(old) + Len(s)
        /\ \A k \in 1 .. Len(old) : (old \o s)[k] = old[k]
        /\ \A k \in Len(old) + 1 .. Len(old) + Len(s) : (old \o s)[k] = s[k - Len(old)]
    BY <1>1, Concatenation, ZenonT(30)
  <2> QED
    BY <1>1, <2>1, Zenon
<1>3. ASSUME NEW k \in 1 .. m + n PROVE all[k] = b[a + k - 1]
  <2>1. CASE k \in 1 .. m
    BY <1>1, <1>2, <2>1
  <2>2. CASE k \in m + 1 .. m + n
    <3>1. PICK j : j = k - m
      OBVIOUS
    <3>2. j \in 1 .. n /\ (a + m) + j - 1 = a + k - 1
      BY <2>2, <3>1
    <3> QED
      BY <1>1, <1>2, <2>2, <3>1, <3>2, Zenon
  <2>3. k \in 1 .. m \/ k \in m + 1 .. m + n
    OBVIOUS
  <2> QED
    BY <2>1, <2>2, <2>3
<1> QED
  BY <1>2, <1>3 DEF Holds

\* The position h in an aligned range of z bytes from a: e are done, f are left.
Progress(a, z, e, f, h) ==
    /\ a \in Nat /\ z \in Nat /\ e \in Nat /\ f \in Nat /\ Multiple(f)
    /\ e + f = z /\ a + z <= DiskSize /\ h = a + e

\* The next sector of the range lies on the disk.
LEMMA NextSector ==
    ASSUME NEW a, NEW z, NEW e, NEW f, NEW h, Progress(a, z, e, f, h), f # 0
    PROVE  /\ Progress(a, z, e + IO_SZ, f - IO_SZ, h + IO_SZ)
           /\ h + IO_SZ \in 0 .. DiskSize /\ h \in Nat /\ h < DiskSize
<1>1. /\ a \in Nat /\ z \in Nat /\ e \in Nat /\ f \in Nat /\ Multiple(f)
      /\ e + f = z /\ a + z <= DiskSize /\ h = a + e
  BY DEF Progress
<1>2. f >= IO_SZ /\ Multiple(f - IO_SZ) /\ IO_SZ \in Nat \ {0} /\ DiskSize \in Nat
  BY <1>1, Multiples, SectorAssumption
<1>3. /\ f - IO_SZ \in Nat /\ e + IO_SZ \in Nat /\ (e + IO_SZ) + (f - IO_SZ) = z
      /\ h + IO_SZ = a + (e + IO_SZ)
      /\ h + IO_SZ \in 0 .. DiskSize /\ h \in Nat /\ h < DiskSize
  BY <1>1, <1>2
<1> QED
  BY <1>1, <1>2, <1>3 DEF Progress

\* The call c once it has read the sector s.
WithMore(c, s) == [c EXCEPT !.temp = c.temp \o s, !.left = c.left - IO_SZ]

\* One sector is read: it lies on the disk, and goes behind those before it.
LEMMA ReadSectorCall ==
    ASSUME NEW c, NEW h \in 0 .. DiskSize, NEW b \in [Address -> Byte], CallInv(c, h, b),
           c.pc = "read", c.left # 0, NEW d, d = WithMore(c, SectorAt(b, h))
    PROVE  /\ h + IO_SZ \in 0 .. DiskSize /\ h < DiskSize
           /\ CallInv(d, h + IO_SZ, b) /\ CallOf(d) = CallOf(c)
<1> PICK s, all, l : s = SectorAt(b, h) /\ all = c.temp \o s /\ l = c.left - IO_SZ
  OBVIOUS
<1>1. /\ c \in CallState /\ Progress(OffsetAligned(c), SizeAligned(c), Done(c), c.left, h)
      /\ Holds(c.temp, Done(c), b, OffsetAligned(c))
  <2>1. /\ c \in CallState /\ OffsetAligned(c) \in Nat /\ SizeAligned(c) \in Nat
        /\ c.left \in Nat /\ OffsetAligned(c) + SizeAligned(c) <= DiskSize
        /\ Done(c) \in Nat /\ Done(c) + c.left = SizeAligned(c)
    BY Numbers
  <2>2. /\ h = OffsetAligned(c) + Done(c) /\ Multiple(c.left)
        /\ Len(c.temp) = Done(c)
        /\ \A k \in 1 .. Done(c) : c.temp[k] = b[OffsetAligned(c) + k - 1]
    BY DEF CallInv
  <2>3. c.temp \in Seq(Byte)
    BY <2>1 DEF CallState
  <2> QED
    BY <2>1, <2>2, <2>3 DEF Holds, Progress
<1>2. /\ Progress(OffsetAligned(c), SizeAligned(c), Done(c) + IO_SZ, l, h + IO_SZ)
      /\ h + IO_SZ \in 0 .. DiskSize /\ h \in Nat /\ h < DiskSize
  BY <1>1, NextSector
<1>3. Holds(s, IO_SZ, b, h)
  <2>1. h + IO_SZ <= DiskSize
    BY <1>2, SectorAssumption
  <2> QED
    BY <1>2, <2>1, SectorRead
<1>4. Holds(all, Done(c) + IO_SZ, b, OffsetAligned(c))
  <2>1. IO_SZ \in Nat /\ OffsetAligned(c) \in Nat /\ Done(c) \in Nat
        /\ h = OffsetAligned(c) + Done(c)
    BY <1>1, SectorAssumption DEF Progress
  <2>2. Holds(s, IO_SZ, b, OffsetAligned(c) + Done(c))
    BY <1>3, <2>1
  <2> QED
    BY <1>1, <2>1, <2>2, SectorsRead
<1>5. /\ d.pc = "read" /\ d.op = c.op /\ d.offset = c.offset /\ d.size = c.size
      /\ d.content = c.content /\ d.left = l /\ d.temp = all /\ d \in CallState
  <2>1. all \in Seq(Byte)
    BY <1>4 DEF Holds
  <2>2. l \in 0 .. DiskSize
    BY <1>2, SectorAssumption DEF Progress
  <2>3. d = [c EXCEPT !.temp = all, !.left = l]
    BY DEF WithMore
  <2> QED
    BY <1>1, <2>1, <2>2, <2>3 DEF CallState
<1>6. SizeAligned(d) = SizeAligned(c) /\ OffsetAligned(d) = OffsetAligned(c)
  BY <1>5, SameRange
<1>7. Done(d) = Done(c) + IO_SZ
  <2>1. Done(d) = SizeAligned(c) - l
    BY <1>5, <1>6, Zenon DEF Done
  <2> QED
    BY <1>2, <2>1 DEF Progress
<1>8. RequestOf(d) = RequestOf(c) /\ RequestOf(c) \in Request /\ c.offset + c.size <= DiskSize
  BY <1>5 DEF RequestOf, CallInv
<1>9. CallInv(d, h + IO_SZ, b)
  <2>1. Progress(OffsetAligned(d), SizeAligned(d), Done(d), d.left, h + IO_SZ)
    BY <1>2, <1>5, <1>6, <1>7, Zenon
  <2>3. d.left <= SizeAligned(d) /\ Multiple(d.left) /\ h + IO_SZ = OffsetAligned(d) + Done(d)
    BY <2>1 DEF Progress
  <2>2. /\ Len(d.temp) = Done(d)
        /\ \A k \in 1 .. Done(d) : d.temp[k] = b[OffsetAligned(d) + k - 1]
    <3>1. Holds(d.temp, Done(d), b, OffsetAligned(d))
      BY <1>4, <1>5, <1>6, <1>7, Zenon
    <3> QED
      BY <3>1 DEF Holds
  <2> QED
    BY <1>5, <1>8, <2>2, <2>3 DEF CallInv
<1>10. Todo(d) = Todo(c)
  BY <1>5, <1>6 DEF Todo
<1>11. c # Idle /\ d # Idle
  BY <1>9, Numbers
<1> QED
  BY <1>2, <1>5, <1>9, <1>10, <1>11 DEF CallOf
-------------------------------------------------------------------------------
\* memcpy of n bytes out of t at p, and of x into t at p.
TakenOut(t, p, n)  == SubSeq(t, p + 1, p + n)
PutInto(t, p, n, x) ==
    [k \in DOMAIN t |-> IF k \in p + 1 .. p + n THEN x[k - p] ELSE t[k]]

\* A part of a sequence.
LEMMA Part ==
    ASSUME NEW S, NEW s \in Seq(S), NEW p \in Nat, NEW n \in Nat, p + n <= Len(s)
    PROVE  /\ TakenOut(s, p, n) \in Seq(S) /\ Len(TakenOut(s, p, n)) = n
           /\ \A k \in 1 .. n : TakenOut(s, p, n)[k] = s[p + k]
<1> PICK i \in Int, j \in Int : i = p + 1 /\ j = p + n
  OBVIOUS
<1>1. \A k \in i .. j : s[k] \in S
  OBVIOUS
<1>2. /\ SubSeq(s, i, j) \in Seq(S) /\ Len(SubSeq(s, i, j)) = (IF i <= j THEN j - i + 1 ELSE 0)
      /\ \A k \in 1 .. j - i + 1 : SubSeq(s, i, j)[k] = s[i + k - 1]
  BY <1>1, SubSeqProperties
<1>3. j - i + 1 = n /\ (IF i <= j THEN j - i + 1 ELSE 0) = n
      /\ \A k \in 1 .. n : i + k - 1 = p + k
  OBVIOUS
<1>4. /\ SubSeq(s, i, j) \in Seq(S) /\ Len(SubSeq(s, i, j)) = n
      /\ \A k \in 1 .. n : SubSeq(s, i, j)[k] = s[p + k]
  BY <1>2, <1>3, Zenon
<1> QED
  BY <1>4, Zenon DEF TakenOut

\* A function is a sequence.
LEMMA FunctionIsSequence ==
    ASSUME NEW S, NEW n \in Nat, NEW s \in [1 .. n -> S]
    PROVE  s \in Seq(S) /\ Len(s) = n
OBVIOUS

\* The n bytes from o on lie in the z bytes from a on, behind the first p.
Inside(o, n, a, z, p) ==
    /\ o \in Nat /\ n \in Nat /\ a \in Nat /\ z \in Nat
    /\ a <= o /\ o + n <= a + z /\ p = o - a

\* memcpy of the n bytes at o out of the sectors from a on.
LEMMA CopyOut ==
    ASSUME NEW b, NEW a, NEW z, NEW o, NEW n, NEW p, Inside(o, n, a, z, p),
           NEW t, Holds(t, z, b, a)
    PROVE  Holds(TakenOut(t, p, n), n, b, o)
<1> PICK out : out = TakenOut(t, p, n)
  OBVIOUS
<1>1. /\ o \in Nat /\ n \in Nat /\ a \in Nat /\ z \in Nat /\ a <= o /\ o + n <= a + z
      /\ p = o - a /\ p \in Nat /\ p + n <= z
  BY DEF Inside
<1>2. t \in Seq(Byte) /\ Len(t) = z /\ \A k \in 1 .. z : t[k] = b[a + k - 1]
  BY DEF Holds
<1>3. out \in Seq(Byte) /\ Len(out) = n /\ \A k \in 1 .. n : out[k] = t[p + k]
  <2>1. p + n <= Len(t)
    BY <1>1, <1>2
  <2>2. /\ TakenOut(t, p, n) \in Seq(Byte) /\ Len(TakenOut(t, p, n)) = n
        /\ \A k \in 1 .. n : TakenOut(t, p, n)[k] = t[p + k]
    BY <1>1, <1>2, <2>1, Part, SMTT(30)
  <2> QED
    BY <2>2, Zenon
<1>4. ASSUME NEW k \in 1 .. n PROVE out[k] = b[o + k - 1]
  <2>1. p + k \in 1 .. z /\ a + (p + k) - 1 = o + k - 1
    BY <1>1
  <2>2. t[p + k] = b[a + (p + k) - 1]
    BY <1>2, <2>1
  <2> QED
    BY <1>3, <2>1, <2>2
<1> QED
  BY <1>3, <1>4 DEF Holds

\* u holds the z bytes of b from a on, but x in the n bytes at o.
Merged(u, z, b, a, o, n, x) ==
    /\ u \in Seq(Byte) /\ Len(u) = z
    /\ \A k \in 1 .. z : u[k] = IF a + k - 1 \in o .. o + n - 1
                                THEN x[(a + k - 1) - o + 1] ELSE b[a + k - 1]

\* memcpy of the n bytes at o into the sectors from a on.
LEMMA CopyIn ==
    ASSUME NEW b, NEW a, NEW z, NEW o, NEW n, NEW p, Inside(o, n, a, z, p),
           NEW t, Holds(t, z, b, a), NEW x \in [1 .. n -> Byte], NEW u, u = PutInto(t, p, n, x)
    PROVE  Merged(u, z, b, a, o, n, x)
<1>1. /\ o \in Nat /\ n \in Nat /\ a \in Nat /\ z \in Nat /\ a <= o /\ o + n <= a + z
      /\ p = o - a /\ p \in Nat /\ p + n <= z
  BY DEF Inside
<1>2. t \in Seq(Byte) /\ Len(t) = z /\ DOMAIN t = 1 .. z /\ \A k \in 1 .. z : t[k] = b[a + k - 1]
  BY DEF Holds
<1>3. u = [k \in 1 .. z |-> IF k \in p + 1 .. p + n THEN x[k - p] ELSE t[k]]
  BY <1>2 DEF PutInto
<1>4. ASSUME NEW k \in 1 .. z, k \in p + 1 .. p + n
      PROVE  /\ u[k] = x[(a + k - 1) - o + 1] /\ u[k] \in Byte
             /\ a + k - 1 \in o .. o + n - 1
  <2>2. /\ k - p \in 1 .. n /\ (a + k - 1) - o + 1 = k - p
        /\ a + k - 1 \in o .. o + n - 1
    BY <1>1, <1>4
  <2>3. u[k] = x[k - p]
    BY <1>3, <1>4
  <2> QED
    BY <2>2, <2>3
<1>5. ASSUME NEW k \in 1 .. z, k \notin p + 1 .. p + n
      PROVE  /\ u[k] = b[a + k - 1] /\ u[k] \in Byte
             /\ a + k - 1 \notin o .. o + n - 1
  <2>1. a + k - 1 \notin o .. o + n - 1
    BY <1>1, <1>5
  <2>2. u[k] = t[k]
    BY <1>3, <1>5
  <2>3. t[k] \in Byte
    BY <1>2
  <2> QED
    BY <1>2, <2>1, <2>2, <2>3
<1>6. \A k \in 1 .. z : u[k] \in Byte
  BY <1>4, <1>5
<1>7. u \in Seq(Byte) /\ Len(u) = z
  <2>1. u \in [1 .. z -> Byte]
    BY <1>3, <1>6
  <2> QED
    BY <1>1, <2>1, FunctionIsSequence, Zenon
<1>8. ASSUME NEW k \in 1 .. z
      PROVE  u[k] = IF a + k - 1 \in o .. o + n - 1
                    THEN x[(a + k - 1) - o + 1] ELSE b[a + k - 1]
  <2>1. CASE k \in p + 1 .. p + n
    BY <1>4, <2>1
  <2>2. CASE k \notin p + 1 .. p + n
    BY <1>5, <2>2
  <2> QED
    BY <2>1, <2>2
<1> QED
  BY <1>7, <1>8 DEF Merged

\* What a thread that has all its sectors holds.
LEMMA AllRead ==
    ASSUME NEW c, NEW h, NEW b, CallInv(c, h, b), c.pc = "read", c.left = 0
    PROVE  Holds(c.temp, SizeAligned(c), b, OffsetAligned(c))
<1>1. c \in CallState /\ Done(c) \in Nat /\ Done(c) + c.left = SizeAligned(c)
  BY Numbers
<1>2. c.temp \in Seq(Byte) /\ Done(c) = SizeAligned(c)
  BY <1>1 DEF CallState
<1>3. Len(c.temp) = Done(c) /\ \A k \in 1 .. Done(c) : c.temp[k] = b[OffsetAligned(c) + k - 1]
  BY DEF CallInv
<1> QED
  BY <1>2, <1>3 DEF Holds

\* The fields of a pending call.
LEMMA PendingFields ==
    ASSUME NEW r, NEW todo, NEW out
    PROVE  /\ Disk!Pending(r, todo, out).op = r.op
           /\ Disk!Pending(r, todo, out).offset = r.offset
           /\ Disk!Pending(r, todo, out).size = r.size
           /\ Disk!Pending(r, todo, out).content = r.content
           /\ Disk!Pending(r, todo, out).todo = todo
           /\ Disk!Pending(r, todo, out).out = out
BY DEF Disk!Pending

\* The call with another result.
WithOut(p, x)  == [p EXCEPT !.out = x]

\* A pending call with another result is the pending call of that result.
LEMMA PendingWithOut ==
    ASSUME NEW r, NEW todo, NEW out, NEW x
    PROVE  WithOut(Disk!Pending(r, todo, out), x) = Disk!Pending(r, todo, x)
BY DEF Disk!Pending, WithOut

\* The call with other bytes to write.
LEMMA PendingWithTodo ==
    ASSUME NEW r, NEW todo, NEW out, NEW x
    PROVE  [Disk!Pending(r, todo, out) EXCEPT !.todo = x] = Disk!Pending(r, x, out)
BY DEF Disk!Pending

\* What a caller sees of a call.
LEMMA CallSeen ==
    ASSUME NEW c, c # Idle
    PROVE  CallOf(c) = Disk!Pending(c, Todo(c), IF c.op = "read" /\ c.pc = "return"
                                                THEN c.temp ELSE <<>>)
BY DEF CallOf, Disk!Pending

\* The n bytes of b from o on.
BytesAt(b, o, n) == [k \in 1 .. n |-> b[o + k - 1]]

\* The call c once the memcpy is done.
CopiedOut(c) == [c EXCEPT !.pc = "return", !.temp = TakenOut(c.temp, Bias(c), c.size)]
CopiedIn(c)  == [c EXCEPT !.pc = "reseek", !.left = SizeAligned(c),
                          !.temp = PutInto(c.temp, Bias(c), c.size, c.content)]

\* The memcpy of a read yields the bytes of its range.
LEMMA CopyRead ==
    ASSUME NEW c, NEW h, NEW b, CallInv(c, h, b), c.pc = "read", c.left = 0, c.op = "read",
           NEW d, d = CopiedOut(c)
    PROVE  /\ CallInv(d, h, b) /\ CallOf(c) = Disk!Pending(c, {}, <<>>)
           /\ CallOf(d) = Disk!Pending(c, {}, BytesAt(b, c.offset, c.size))
<1> PICK out : out = TakenOut(c.temp, Bias(c), c.size)
  OBVIOUS
<1>1. /\ c \in CallState /\ c.offset \in Nat /\ c.size \in Nat
      /\ OffsetAligned(c) \in Nat /\ SizeAligned(c) \in Nat
      /\ Bias(c) = c.offset - OffsetAligned(c) /\ OffsetAligned(c) <= c.offset
      /\ c.offset + c.size <= OffsetAligned(c) + SizeAligned(c) /\ Idle # c
  BY Numbers
<1>2. Holds(out, c.size, b, c.offset)
  <2>1. Holds(c.temp, SizeAligned(c), b, OffsetAligned(c))
    BY AllRead
  <2>2. Inside(c.offset, c.size, OffsetAligned(c), SizeAligned(c), Bias(c))
    BY <1>1 DEF Inside
  <2> QED
    BY <2>1, <2>2, CopyOut
<1>3. out \in Seq(Byte) /\ Len(out) = c.size /\ out = BytesAt(b, c.offset, c.size)
  <2>1. out \in Seq(Byte) /\ Len(out) = c.size
        /\ \A k \in 1 .. c.size : out[k] = b[c.offset + k - 1]
    BY <1>2 DEF Holds
  <2>2. out \in [1 .. c.size -> Byte]
    BY <2>1, LenProperties
  <2>3. out = [k \in 1 .. c.size |-> b[c.offset + k - 1]]
    BY <2>1, <2>2
  <2> QED
    BY <2>1, <2>3, Zenon DEF BytesAt
<1>4. /\ d.pc = "return" /\ d.op = c.op /\ d.offset = c.offset /\ d.size = c.size
      /\ d.content = c.content /\ d.left = c.left /\ d.temp = out /\ d \in CallState
  <2>1. d = [c EXCEPT !.pc = "return", !.temp = out]
    BY DEF CopiedOut
  <2> QED
    BY <1>1, <1>3, <2>1 DEF CallState
<1>5. SizeAligned(d) = SizeAligned(c) /\ OffsetAligned(d) = OffsetAligned(c)
  BY <1>4, SameRange
<1>6. /\ RequestOf(d) = RequestOf(c) /\ RequestOf(c) \in Request
      /\ c.offset + c.size <= DiskSize /\ Multiple(c.left) /\ c.left <= SizeAligned(c)
  BY <1>4 DEF RequestOf, CallInv
<1>7. CallInv(d, h, b)
  BY <1>3, <1>4, <1>5, <1>6 DEF CallInv
<1>8. Todo(d) = {} /\ Todo(c) = {} /\ d # Idle
  BY <1>4, <1>7, Numbers DEF Todo
<1>9. CallOf(c) = Disk!Pending(c, {}, <<>>)
  BY <1>1, <1>8, CallSeen
<1>10. CallOf(d) = Disk!Pending(d, {}, out)
  BY <1>4, <1>8, CallSeen
<1>11. Disk!Pending(d, {}, out) = Disk!Pending(c, {}, out)
  BY <1>4 DEF Disk!Pending
<1> QED
  BY <1>3, <1>7, <1>9, <1>10, <1>11, Zenon

\* The memcpy of a write puts its bytes into the sectors that were read.
LEMMA CopyWrite ==
    ASSUME NEW c, NEW h, NEW b, CallInv(c, h, b), c.pc = "read", c.left = 0, c.op = "write",
           NEW d, d = CopiedIn(c)
    PROVE  CallInv(d, h, b) /\ CallOf(d) = CallOf(c)
<1> PICK u : u = PutInto(c.temp, Bias(c), c.size, c.content)
  OBVIOUS
<1>1. /\ c \in CallState /\ c.offset \in Nat /\ c.size \in Nat
      /\ OffsetAligned(c) \in Nat /\ SizeAligned(c) \in Nat /\ Multiple(SizeAligned(c))
      /\ Bias(c) = c.offset - OffsetAligned(c) /\ OffsetAligned(c) <= c.offset
      /\ OffsetAligned(c) + SizeAligned(c) <= DiskSize
      /\ c.offset + c.size <= OffsetAligned(c) + SizeAligned(c) /\ Idle # c
  BY Numbers
<1>2. RequestOf(c) \in Request /\ c.offset + c.size <= DiskSize
  BY DEF CallInv
<1>3. c.content \in [1 .. c.size -> Byte]
  <2>1. PICK r \in Request : r = RequestOf(c)
    BY <1>2
  <2>2. r.op = "write" /\ r.content = c.content /\ r.size = c.size
    BY <2>1 DEF RequestOf
  <2> QED
    BY <2>2, RequestFields
<1>4. /\ u \in Seq(Byte) /\ Len(u) = SizeAligned(c)
      /\ \A k \in 1 .. SizeAligned(c) : u[k] = NewByte(c, OffsetAligned(c) + k - 1, b)
  <2>1. Merged(u, SizeAligned(c), b, OffsetAligned(c), c.offset, c.size, c.content)
    <3>1. Holds(c.temp, SizeAligned(c), b, OffsetAligned(c))
      BY AllRead
    <3>2. Inside(c.offset, c.size, OffsetAligned(c), SizeAligned(c), Bias(c))
      BY <1>1 DEF Inside
    <3> QED
      BY <1>3, <3>1, <3>2, CopyIn
  <2> QED
    BY <2>1 DEF NewByte, Merged
<1>5. /\ d.pc = "reseek" /\ d.op = c.op /\ d.offset = c.offset /\ d.size = c.size
      /\ d.content = c.content /\ d.left = SizeAligned(c) /\ d.temp = u /\ d \in CallState
  <2>1. SizeAligned(c) \in 0 .. DiskSize
    BY <1>1, SectorAssumption
  <2>2. d = [c EXCEPT !.pc = "reseek", !.left = SizeAligned(c), !.temp = u]
    BY DEF CopiedIn
  <2> QED
    BY <1>1, <1>4, <2>1, <2>2 DEF CallState
<1>6. SizeAligned(d) = SizeAligned(c) /\ OffsetAligned(d) = OffsetAligned(c)
  BY <1>5, SameRange
<1>7. Done(d) = 0 /\ SizeAligned(d) <= SizeAligned(d)
  BY <1>1, <1>5, <1>6 DEF Done
<1>8. RequestOf(d) = RequestOf(c)
  BY <1>5 DEF RequestOf
<1>9. \A k \in Done(d) + 1 .. SizeAligned(d) :
         d.temp[k] = NewByte(d, OffsetAligned(d) + k - 1, b)
  <2>1. \A x : NewByte(d, x, b) = NewByte(c, x, b)
    BY <1>5 DEF NewByte
  <2>2. \A k \in 1 .. SizeAligned(c) : u[k] = NewByte(d, OffsetAligned(c) + k - 1, b)
    BY <1>4, <2>1, Zenon
  <2>3. Done(d) + 1 = 1
    BY <1>7
  <2>4. ASSUME NEW k \in Done(d) + 1 .. SizeAligned(d)
        PROVE  d.temp[k] = NewByte(d, OffsetAligned(d) + k - 1, b)
    <3>1. k \in 1 .. SizeAligned(c)
      BY <1>6, <2>3, Zenon
    <3>2. u[k] = NewByte(d, OffsetAligned(c) + k - 1, b)
      BY <2>2, <3>1, Zenon
    <3> QED
      BY <1>5, <1>6, <3>2, Zenon
  <2> QED
    BY <2>4
<1>10. CallInv(d, h, b)
  BY <1>1, <1>2, <1>4, <1>5, <1>6, <1>7, <1>8, <1>9 DEF CallInv
<1>11. Todo(d) = Todo(c) /\ d # Idle
  BY <1>5, <1>6, <1>10, Numbers DEF Todo
<1> QED
  BY <1>1, <1>5, <1>10, <1>11 DEF CallOf
-------------------------------------------------------------------------------
\* The second seek.
LEMMA ReseekCall ==
    ASSUME NEW c, NEW h, NEW b, CallInv(c, h, b), c.pc = "reseek",
           NEW d, d = [c EXCEPT !.pc = "write"]
    PROVE  /\ CallInv(d, OffsetAligned(c), b) /\ OffsetAligned(c) \in 0 .. DiskSize
           /\ CallOf(d) = CallOf(c)
<1>1. /\ c \in CallState /\ OffsetAligned(c) \in Nat /\ SizeAligned(c) \in Nat
      /\ OffsetAligned(c) + SizeAligned(c) <= DiskSize /\ Idle # c
  BY Numbers
<1>2. /\ RequestOf(c) \in Request /\ c.offset + c.size <= DiskSize /\ Multiple(c.left)
      /\ c.op = "write" /\ Len(c.temp) = SizeAligned(c) /\ c.left = SizeAligned(c)
      /\ \A k \in Done(c) + 1 .. SizeAligned(c) :
            c.temp[k] = NewByte(c, OffsetAligned(c) + k - 1, b)
  BY DEF CallInv
<1>3. /\ d.pc = "write" /\ d.op = c.op /\ d.offset = c.offset /\ d.size = c.size
      /\ d.content = c.content /\ d.left = c.left /\ d.temp = c.temp /\ d \in CallState
  BY <1>1 DEF CallState
<1>4. SizeAligned(d) = SizeAligned(c) /\ OffsetAligned(d) = OffsetAligned(c)
  BY <1>3, SameRange
<1>5. Done(d) = Done(c) /\ Done(c) = 0
  BY <1>1, <1>2, <1>3, <1>4 DEF Done
<1>6. RequestOf(d) = RequestOf(c)
  BY <1>3 DEF RequestOf
<1>7. \A x : NewByte(d, x, b) = NewByte(c, x, b)
  BY <1>3 DEF NewByte
<1>8. ASSUME NEW k \in Done(d) + 1 .. SizeAligned(d)
      PROVE  d.temp[k] = NewByte(d, OffsetAligned(d) + k - 1, b)
  <2>1. k \in Done(c) + 1 .. SizeAligned(c)
    BY <1>4, <1>5, Zenon
  <2> QED
    BY <1>2, <1>3, <1>4, <1>7, <2>1, Zenon
<1>9. OffsetAligned(c) = OffsetAligned(d) + Done(d) /\ d.left <= SizeAligned(d)
  BY <1>1, <1>2, <1>3, <1>4, <1>5
<1>10. CallInv(d, OffsetAligned(c), b)
  BY <1>2, <1>3, <1>4, <1>6, <1>8, <1>9 DEF CallInv
<1>11. Todo(d) = Todo(c)
  <2>1. OffsetAligned(d) + SizeAligned(d) - d.left = OffsetAligned(c)
    BY <1>1, <1>2, <1>3, <1>4
  <2> QED
    BY <1>2, <1>3, <2>1 DEF Todo
<1>12. d # Idle
  BY <1>10, Numbers
<1>13. OffsetAligned(c) \in 0 .. DiskSize
  BY <1>1, SectorAssumption
<1> QED
  BY <1>1, <1>3, <1>10, <1>11, <1>12, <1>13 DEF CallOf

\* What a request brings along, and the byte that a write puts at an address.
LEMMA Content ==
    ASSUME NEW c, NEW h, NEW b \in [Address -> Byte], CallInv(c, h, b), c.op = "write"
    PROVE  \A x \in Address : NewByte(c, x, b) \in Byte
<1>1. c.offset \in Nat /\ c.size \in Nat
  BY Numbers
<1>2. c.content \in [1 .. c.size -> Byte]
  <2>1. RequestOf(c) \in Request
    BY DEF CallInv
  <2>2. PICK r \in Request : r = RequestOf(c)
    BY <2>1
  <2>3. r.op = "write" /\ r.content = c.content /\ r.size = c.size
    BY <2>2 DEF RequestOf
  <2> QED
    BY <2>3, RequestFields
<1>3. ASSUME NEW x \in Address, x \in c.offset .. c.offset + c.size - 1
      PROVE  c.content[x - c.offset + 1] \in Byte
  <2>1. x - c.offset + 1 \in 1 .. c.size
    BY <1>1, <1>3
  <2> QED
    BY <1>2, <2>1
<1> QED
  BY <1>3 DEF NewByte

\* The bytes b of the disk, once the sector of t behind its first e bytes is at h.
WithSector(b, h, t, e) ==
    [x \in Address |-> IF x \in h .. h + IO_SZ - 1 THEN t[e + x - h + 1] ELSE b[x]]

\* From e on, t has the bytes that w has from a + e on.
Carries(t, e, z, w, a) == \A k \in e + 1 .. z : t[k] = w[a + k - 1]

\* The sector holds what w has at its addresses.
LEMMA SectorWritten ==
    ASSUME NEW b \in [Address -> Byte], NEW w \in [Address -> Byte],
           NEW a, NEW z, NEW e, NEW f, NEW h, Progress(a, z, e, f, h), f # 0,
           NEW t, Carries(t, e, z, w, a),
           NEW y, y = WithSector(b, h, t, e)
    PROVE  /\ y \in [Address -> Byte]
           /\ \A x \in Address : y[x] = IF x \in h .. h + IO_SZ - 1 THEN w[x] ELSE b[x]
<1>1. /\ a \in Nat /\ z \in Nat /\ e \in Nat /\ f \in Nat /\ e + f = z /\ h = a + e
      /\ f >= IO_SZ /\ IO_SZ \in Nat
  <2>1. /\ a \in Nat /\ z \in Nat /\ e \in Nat /\ f \in Nat /\ e + f = z /\ h = a + e
        /\ Multiple(f)
    BY DEF Progress
  <2> QED
    BY <2>1, Multiples, SectorAssumption
<1>2. ASSUME NEW x \in Address, x \in h .. h + IO_SZ - 1
      PROVE  t[e + x - h + 1] = w[x]
  <2>1. x \in Nat
    BY SectorAssumption DEF Address
  <2>2. e + x - h + 1 \in e + 1 .. z /\ a + (e + x - h + 1) - 1 = x
    BY <1>1, <1>2, <2>1
  <2> QED
    BY <2>2 DEF Carries
<1>3. y = [x \in Address |-> IF x \in h .. h + IO_SZ - 1 THEN t[e + x - h + 1] ELSE b[x]]
  BY DEF WithSector
<1> QED
  BY <1>2, <1>3

\* The sectors of a range lie on the disk.
LEMMA AddressesOf ==
    ASSUME NEW a \in Nat, NEW z \in Nat, NEW e \in Nat, a + z <= DiskSize
    PROVE  \A k \in e + 1 .. z : a + k - 1 \in Address
BY SectorAssumption DEF Address

\* The bytes b with those of the request c that are in todo, but not in left.
Patched(b, c, todo, left) ==
    [x \in Address |-> IF x \in todo \ left THEN c.content[x - c.offset + 1] ELSE b[x]]

\* The call c becomes d, and the bytes b become y, when its sector is written at h.
WithLess(c) == [c EXCEPT !.left = c.left - IO_SZ]

Written(c, h, b, d, y) == y = WithSector(b, h, c.temp, Done(c)) /\ d = WithLess(c)

\* One sector is written: it puts the bytes of the request that lie in it.
LEMMA WriteSectorCall ==
    ASSUME NEW c, NEW h, NEW b \in [Address -> Byte], CallInv(c, h, b),
           c.pc = "write", c.left # 0,
           NEW d, NEW y, Written(c, h, b, d, y)
    PROVE  /\ h + IO_SZ \in 0 .. DiskSize /\ y \in [Address -> Byte]
           /\ CallInv(d, h + IO_SZ, y) /\ CallOf(c) = Disk!Pending(c, Todo(c), <<>>)
           /\ CallOf(d) = Disk!Pending(c, Todo(d), <<>>) /\ Todo(d) \subseteq Todo(c)
           /\ y = Patched(b, c, Todo(c), Todo(d))
<1> PICK l : l = c.left - IO_SZ
  OBVIOUS
<1>1. /\ c \in CallState /\ c.offset \in Nat /\ c.size \in Nat
      /\ Progress(OffsetAligned(c), SizeAligned(c), Done(c), c.left, h) /\ Idle # c
  <2>1. /\ c \in CallState /\ OffsetAligned(c) \in Nat /\ SizeAligned(c) \in Nat
        /\ c.left \in Nat /\ OffsetAligned(c) + SizeAligned(c) <= DiskSize
        /\ Done(c) \in Nat /\ Done(c) + c.left = SizeAligned(c)
        /\ c.offset \in Nat /\ c.size \in Nat /\ Idle # c
    BY Numbers
  <2>2. h = OffsetAligned(c) + Done(c) /\ Multiple(c.left)
    BY DEF CallInv
  <2> QED
    BY <2>1, <2>2 DEF Progress
<1>2. /\ Progress(OffsetAligned(c), SizeAligned(c), Done(c) + IO_SZ, l, h + IO_SZ)
      /\ h + IO_SZ \in 0 .. DiskSize /\ h \in Nat /\ h < DiskSize
  BY <1>1, NextSector
<1>3. /\ c.op = "write" /\ Len(c.temp) = SizeAligned(c)
      /\ \A k \in Done(c) + 1 .. SizeAligned(c) :
            c.temp[k] = NewByte(c, OffsetAligned(c) + k - 1, b)
      /\ RequestOf(c) \in Request /\ c.offset + c.size <= DiskSize
  BY DEF CallInv
<1> PICK w : w = [x \in Address |-> NewByte(c, x, b)]
  OBVIOUS
<1>4. w \in [Address -> Byte] /\ \A x \in Address : w[x] = NewByte(c, x, b)
  BY <1>3, Content
<1>5. \A k \in Done(c) + 1 .. SizeAligned(c) :
         OffsetAligned(c) + k - 1 \in Address /\ c.temp[k] = w[OffsetAligned(c) + k - 1]
  <2>1. PICK a \in Nat, z \in Nat, e \in Nat :
          a = OffsetAligned(c) /\ z = SizeAligned(c) /\ e = Done(c) /\ a + z <= DiskSize
    BY <1>1 DEF Progress
  <2>2. \A k \in e + 1 .. z : a + k - 1 \in Address
    BY <2>1, AddressesOf
  <2> QED
    BY <1>3, <1>4, <2>1, <2>2, Zenon
<1>6. /\ y \in [Address -> Byte]
      /\ \A x \in Address : y[x] = IF x \in h .. h + IO_SZ - 1 THEN w[x] ELSE b[x]
  <2>1. Carries(c.temp, Done(c), SizeAligned(c), w, OffsetAligned(c))
    BY <1>5, Zenon DEF Carries
  <2>2. c.left # 0 /\ y = WithSector(b, h, c.temp, Done(c))
    BY DEF Written
  <2> QED
    BY <1>1, <1>4, <2>1, <2>2, SectorWritten
<1>7. /\ d.pc = "write" /\ d.op = c.op /\ d.offset = c.offset /\ d.size = c.size
      /\ d.content = c.content /\ d.left = l /\ d.temp = c.temp /\ d \in CallState
  <2>1. l \in 0 .. DiskSize
    BY <1>2, SectorAssumption DEF Progress
  <2>2. d = [c EXCEPT !.left = l]
    BY DEF Written, WithLess
  <2> QED
    BY <1>1, <2>1, <2>2 DEF CallState
<1>8. SizeAligned(d) = SizeAligned(c) /\ OffsetAligned(d) = OffsetAligned(c)
  BY <1>7, SameRange
<1>9. Done(d) = Done(c) + IO_SZ
  <2>1. Done(d) = SizeAligned(c) - l
    BY <1>7, <1>8, Zenon DEF Done
  <2> QED
    BY <1>2, <2>1 DEF Progress
<1>10. Progress(OffsetAligned(d), SizeAligned(d), Done(d), d.left, h + IO_SZ)
  BY <1>2, <1>7, <1>8, <1>9, Zenon
<1>11. ASSUME NEW k \in Done(d) + 1 .. SizeAligned(d)
       PROVE  d.temp[k] = NewByte(d, OffsetAligned(d) + k - 1, y)
  <2>1. k \in Done(c) + 1 .. SizeAligned(c) /\ OffsetAligned(c) + k - 1 \notin h .. h + IO_SZ - 1
    <3>1. PICK a \in Nat, z \in Nat, e \in Nat, i \in Nat :
            a = OffsetAligned(c) /\ z = SizeAligned(c) /\ e = Done(c) /\ h = a + e /\ i = IO_SZ
      BY <1>1, SectorAssumption DEF Progress
    <3>2. k \in e + i + 1 .. z
      BY <1>8, <1>9, <3>1, Zenon
    <3>3. k \in e + 1 .. z /\ a + k - 1 \notin a + e .. a + e + i - 1
      BY <3>2
    <3> QED
      BY <3>1, <3>3, Zenon
  <2>2. PICK x \in Address : x = OffsetAligned(c) + k - 1
    BY <1>5, <2>1
  <2>3. c.temp[k] = NewByte(c, x, b)
    BY <1>3, <2>1, <2>2, Zenon
  <2>4. y[x] = b[x]
    <3>1. x \notin h .. h + IO_SZ - 1
      BY <2>1, <2>2, Zenon
    <3> QED
      BY <1>6, <3>1
  <2>5. NewByte(d, x, y) = NewByte(c, x, b)
    BY <1>7, <2>4 DEF NewByte
  <2> QED
    BY <1>7, <1>8, <2>2, <2>3, <2>5, Zenon
<1>12. RequestOf(d) = RequestOf(c)
  BY <1>7 DEF RequestOf
<1>13. CallInv(d, h + IO_SZ, y)
  <2>1. Multiple(d.left) /\ d.left <= SizeAligned(d) /\ h + IO_SZ = OffsetAligned(d) + Done(d)
    BY <1>10 DEF Progress
  <2>2. /\ d.pc = "write" /\ d.op = "write" /\ Len(d.temp) = SizeAligned(d)
        /\ d \in CallState /\ RequestOf(d) \in Request /\ d.offset + d.size <= DiskSize
    BY <1>3, <1>7, <1>8, <1>12
  <2> QED
    BY <1>11, <2>1, <2>2 DEF CallInv
<1>14. /\ Todo(c) = {x \in c.offset .. c.offset + c.size - 1 : x >= h}
       /\ Todo(d) = {x \in c.offset .. c.offset + c.size - 1 : x >= h + IO_SZ}
  <2>1. OffsetAligned(c) + SizeAligned(c) - c.left = h
    BY <1>1 DEF Progress
  <2>2. OffsetAligned(d) + SizeAligned(d) - d.left = h + IO_SZ
    BY <1>10 DEF Progress
  <2> QED
    BY <1>3, <1>7, <2>1, <2>2, Zenon DEF Todo
<1>15. Todo(d) \subseteq Todo(c)
  BY <1>1, <1>2, <1>14, SectorAssumption
<1>16. ASSUME NEW x \in Address
       PROVE  y[x] = IF x \in Todo(c) \ Todo(d) THEN c.content[x - c.offset + 1] ELSE b[x]
  <2>1. x \in Todo(c) \ Todo(d) <=> /\ x \in c.offset .. c.offset + c.size - 1
                                    /\ x \in h .. h + IO_SZ - 1
    <3>1. x \in Nat /\ h \in Nat /\ IO_SZ \in Nat /\ h + IO_SZ \in Nat
      BY <1>2, SectorAssumption DEF Address
    <3>2. x \in h .. h + IO_SZ - 1 <=> x >= h /\ ~ (x >= h + IO_SZ)
      BY <3>1
    <3> QED
      BY <1>14, <3>2, Zenon
  <2>2. y[x] = IF x \in h .. h + IO_SZ - 1 THEN NewByte(c, x, b) ELSE b[x]
    BY <1>4, <1>6
  <2> QED
    BY <2>1, <2>2, Zenon DEF NewByte
<1>17. y = Patched(b, c, Todo(c), Todo(d))
  BY <1>6, <1>16 DEF Patched
<1>18. d # Idle
  BY <1>13, Numbers
<1>19. CallOf(c) = Disk!Pending(c, Todo(c), <<>>)
  BY <1>1, CallSeen
<1>20. CallOf(d) = Disk!Pending(d, Todo(d), <<>>)
  BY <1>7, <1>18, CallSeen
<1>21. Disk!Pending(d, Todo(d), <<>>) = Disk!Pending(c, Todo(d), <<>>)
  BY <1>7, Zenon DEF Disk!Pending
<1> QED
  BY <1>2, <1>6, <1>13, <1>15, <1>17, <1>19, <1>20, <1>21, Zenon

\* The last sector is written.
LEMMA EndWriteCall ==
    ASSUME NEW c, NEW h, NEW b, CallInv(c, h, b), c.pc = "write", c.left = 0,
           NEW d, d = [c EXCEPT !.pc = "return"]
    PROVE  CallInv(d, h, b) /\ CallOf(d) = CallOf(c)
<1>1. /\ c \in CallState /\ c.offset \in Nat /\ c.size \in Nat
      /\ OffsetAligned(c) \in Nat /\ SizeAligned(c) \in Nat
      /\ c.offset + c.size <= OffsetAligned(c) + SizeAligned(c) /\ Idle # c
  BY Numbers
<1>2. /\ RequestOf(c) \in Request /\ c.offset + c.size <= DiskSize /\ Multiple(c.left)
      /\ c.op = "write" /\ c.left <= SizeAligned(c)
  BY DEF CallInv
<1>3. /\ d.pc = "return" /\ d.op = c.op /\ d.offset = c.offset /\ d.size = c.size
      /\ d.content = c.content /\ d.left = c.left /\ d.temp = c.temp /\ d \in CallState
  BY <1>1 DEF CallState
<1>4. SizeAligned(d) = SizeAligned(c) /\ RequestOf(d) = RequestOf(c)
  BY <1>3, SameRange DEF RequestOf
<1>5. CallInv(d, h, b)
  BY <1>2, <1>3, <1>4 DEF CallInv
<1>6. Todo(c) = {}
  <2>1. PICK a \in Nat, z \in Nat, o \in Nat, n \in Nat :
          a = OffsetAligned(c) /\ z = SizeAligned(c) /\ o = c.offset /\ n = c.size
    BY <1>1
  <2>2. {x \in o .. o + n - 1 : x >= a + z - 0} = {}
    BY <1>1, <2>1
  <2>3. Todo(c) = {x \in c.offset .. c.offset + c.size - 1 :
                     x >= OffsetAligned(c) + SizeAligned(c) - c.left}
    BY <1>2 DEF Todo
  <2> QED
    BY <2>1, <2>2, <2>3, Zenon
<1>7. Todo(d) = {}
  BY <1>3 DEF Todo
<1>8. d # Idle
  BY <1>5, Numbers
<1> QED
  BY <1>1, <1>2, <1>3, <1>5, <1>6, <1>7, <1>8 DEF CallOf

\* out is as long as the result that the call c owes.
Answers(c, out) == c.op \in {"read", "write"} /\ (c.op = "read" => Len(out) = c.size)

\* A call that is about to return has done all it was to do.
LEMMA ReturnCall ==
    ASSUME NEW c, NEW h, NEW b, CallInv(c, h, b), c.pc = "return"
    PROVE  \E out : CallOf(c) = Disk!Pending(c, {}, out) /\ Answers(c, out)
<1>1. c # Idle /\ c.op \in {"read", "write"} /\ (c.op = "read" => Len(c.temp) = c.size)
  BY Numbers DEF CallInv, CallState
<1>2. Todo(c) = {}
  BY DEF Todo
<1>3. CallOf(c) = Disk!Pending(c, {}, IF c.op = "read" /\ c.pc = "return"
                                     THEN c.temp ELSE <<>>)
  BY <1>1, <1>2, CallSeen, Zenon
<1> QED
  BY <1>1, <1>3 DEF Answers
-------------------------------------------------------------------------------
\* A call under way is not NoCall.
LEMMA PendingIsCall ==
    ASSUME NEW c, c.op \in {"read", "write"}, NEW todo, NEW out
    PROVE  Disk!Pending(c, todo, out) # Disk!NoCall
<1>1. Disk!Pending(c, todo, out).op = c.op /\ Disk!NoCall.op = "none"
  BY DEF Disk!Pending, Disk!NoCall
<1> QED
  BY <1>1

\* Call of the disk of bytes: a request appears.
LEMMA DiskCall ==
    ASSUME NEW t \in Thread, NEW r \in Disk!Request, Calls[t] = Disk!NoCall,
           r.offset \in Nat, r.size \in Nat, r.offset + r.size <= DiskSize,
           Calls' = [Calls EXCEPT ![t] =
                       Disk!Pending(r, IF r.op = "write" THEN Disk!RangeOf(r) ELSE {}, <<>>)],
           bytes' = bytes
    PROVE  Disk!Call(t, r)
<1>1. Disk!RangeOf(r) \subseteq Disk!Address
  BY SectorAssumption DEF Disk!RangeOf, Disk!Address
<1> QED
  BY <1>1 DEF Disk!Call

\* Fetch: the result appears.
LEMMA DiskFetch ==
    ASSUME NEW t \in Thread, NEW c, c.op = "read", NEW todo,
           Calls[t] = Disk!Pending(c, todo, <<>>),
           Calls' = [Calls EXCEPT ![t] = Disk!Pending(c, todo, BytesAt(bytes, c.offset, c.size))],
           bytes' = bytes
    PROVE  Disk!Fetch(t)
<1> PICK p, q : p = Disk!Pending(c, todo, <<>>) /\
                q = BytesAt(bytes, c.offset, c.size)
  OBVIOUS
<1>1. /\ p # Disk!NoCall /\ p.op = "read" /\ p.out = <<>>
      /\ p.size = c.size /\ p.offset = c.offset /\ WithOut(p, q) = Disk!Pending(c, todo, q)
  <2>1. /\ Disk!Pending(c, todo, <<>>).op = c.op /\ Disk!Pending(c, todo, <<>>).out = <<>>
        /\ Disk!Pending(c, todo, <<>>).size = c.size
        /\ Disk!Pending(c, todo, <<>>).offset = c.offset
    BY PendingFields
  <2>2. Disk!Pending(c, todo, <<>>) # Disk!NoCall /\ c.op = "read"
    BY PendingIsCall
  <2>3. WithOut(Disk!Pending(c, todo, <<>>), q) = Disk!Pending(c, todo, q)
    BY PendingWithOut
  <2> QED
    BY <2>1, <2>2, <2>3, Zenon
<1>2. q = [k \in 1 .. Calls[t].size |-> bytes[Calls[t].offset + k - 1]]
  BY <1>1 DEF BytesAt
<1>3. Calls' = [Calls EXCEPT ![t] = WithOut(Calls[t], q)]
  BY <1>1
<1>4. Calls' = [Calls EXCEPT ![t].out = q]
  BY <1>3 DEF WithOut
<1> QED
  BY <1>1, <1>2, <1>4 DEF Disk!Fetch

\* Put: bytes of the request reach the disk; with none the step is no step.
LEMMA DiskPut ==
    ASSUME NEW t \in Thread, NEW c, c.op = "write", NEW todo, NEW left, left \subseteq todo,
           Calls[t] = Disk!Pending(c, todo, <<>>), Calls \in [Thread -> {Calls[u] : u \in Thread}],
           Calls' = [Calls EXCEPT ![t] = Disk!Pending(c, left, <<>>)],
           bytes \in [Address -> Byte],
           bytes' = Patched(bytes, c, todo, left)
    PROVE  Disk!Put(t) \/ UNCHANGED <<bytes, Calls>>
<1> PICK p, S : p = Disk!Pending(c, todo, <<>>) /\ S = todo \ left
  OBVIOUS
<1>1. /\ p # Disk!NoCall /\ p.todo = todo /\ p.content = c.content /\ p.offset = c.offset
      /\ [p EXCEPT !.todo = left] = Disk!Pending(c, left, <<>>)
  <2>1. /\ Disk!Pending(c, todo, <<>>).todo = todo
        /\ Disk!Pending(c, todo, <<>>).content = c.content
        /\ Disk!Pending(c, todo, <<>>).offset = c.offset
        /\ [Disk!Pending(c, todo, <<>>) EXCEPT !.todo = left] = Disk!Pending(c, left, <<>>)
    BY PendingFields, PendingWithTodo
  <2>2. Disk!Pending(c, todo, <<>>) # Disk!NoCall
    BY PendingIsCall
  <2> QED
    BY <2>1, <2>2, Zenon
<1>2. CASE S = {}
  <2>1. left = todo
    BY <1>2
  <2>2. Calls' = Calls
    BY <2>1
  <2>3. bytes' = bytes
    BY <1>2 DEF Patched
  <2> QED
    BY <2>2, <2>3
<1>3. CASE S # {}
  <2>1. Disk!Address = Address
    BY DEF Disk!Address, Address
  <2>2. bytes' = [x \in Disk!Address |-> IF x \in S
                                         THEN Calls[t].content[x - Calls[t].offset + 1]
                                         ELSE bytes[x]]
    BY <1>1, <2>1 DEF Patched
  <2>3. todo \ S = left /\ S \in SUBSET todo
    OBVIOUS
  <2>4. Calls' = [Calls EXCEPT ![t] = [Calls[t] EXCEPT !.todo = Calls[t].todo \ S]]
    BY <1>1, <2>3
  <2>5. Calls' = [Calls EXCEPT ![t].todo = Calls[t].todo \ S]
    BY <2>4
  <2>6. S \in SUBSET Calls[t].todo /\ Calls[t] # Disk!NoCall
    BY <1>1, <2>3, Zenon
  <2> QED
    BY <1>3, <2>2, <2>5, <2>6, Zenon DEF Disk!Put
<1> QED
  BY <1>2, <1>3

\* Return: a call that owes nothing ends.
LEMMA DiskReturn ==
    ASSUME NEW t \in Thread, NEW c, NEW out, Answers(c, out),
           Calls[t] = Disk!Pending(c, {}, out),
           Calls' = [Calls EXCEPT ![t] = Disk!NoCall], bytes' = bytes
    PROVE  Disk!Return(t)
<1> PICK p : p = Disk!Pending(c, {}, out)
  OBVIOUS
<1>1. p # Disk!NoCall /\ p.todo = {} /\ p.out = out /\ p.op = c.op /\ p.size = c.size
  <2>1. /\ Disk!Pending(c, {}, out).todo = {} /\ Disk!Pending(c, {}, out).out = out
        /\ Disk!Pending(c, {}, out).op = c.op /\ Disk!Pending(c, {}, out).size = c.size
    BY PendingFields, PendingWithTodo
  <2>2. Disk!Pending(c, {}, out) # Disk!NoCall
    BY PendingIsCall DEF Answers
  <2> QED
    BY <2>1, <2>2, Zenon
<1> QED
  BY <1>1 DEF Disk!Return, Answers
-------------------------------------------------------------------------------
\* What the callers see when the call of t becomes d.
LEMMA CallsAfter ==
    ASSUME io \in [Thread -> {Idle} \cup CallState], NEW t \in Thread, NEW d,
           io' = [io EXCEPT ![t] = d]
    PROVE  /\ Calls \in [Thread -> {Calls[u] : u \in Thread}] /\ Calls[t] = CallOf(io[t])
           /\ Calls' = [Calls EXCEPT ![t] = CallOf(d)]
<1>1. Calls = [u \in Thread |-> CallOf(io[u])]
  BY DEF Calls
<1>2. Calls' = [u \in Thread |-> CallOf(io'[u])]
  BY DEF Calls, CallOf, Todo, OffsetAligned, SizeAligned, Bias
<1>3. \A u \in Thread : io'[u] = IF u = t THEN d ELSE io[u]
  OBVIOUS
<1> QED
  BY <1>1, <1>2, <1>3

\* The only caller's call becomes d.
LEMMA InvAfter ==
    ASSUME OneCaller, io \in [Thread -> {Idle} \cup CallState], NEW t \in Thread,
           NEW d, d = Idle \/ CallInv(d, head', bytes'),
           io' = [io EXCEPT ![t] = d], bytes' \in [Address -> Byte], head' \in 0 .. DiskSize
    PROVE  IInv'
<1>1. d \in {Idle} \cup CallState
  BY DEF CallInv
<1>2. io' \in [Thread -> {Idle} \cup CallState]
  BY <1>1
<1>3. ASSUME NEW u \in Thread, io'[u] # Idle PROVE CallInv(io'[u], head', bytes')
  <2>1. u = t
    BY DEF OneCaller
  <2>2. io'[u] = d
    BY <2>1
  <2> QED
    BY <1>3, <2>2
<1> QED
  BY <1>2, <1>3 DEF IInv
-------------------------------------------------------------------------------
\* What the step of a thread finds.
LEMMA Before ==
    ASSUME IInv, NEW t \in Thread
    PROVE  /\ bytes \in [Address -> Byte] /\ head \in 0 .. DiskSize
           /\ io \in [Thread -> {Idle} \cup CallState]
           /\ io[t].pc = "idle" => io[t] = Idle /\ CallOf(io[t]) = Disk!NoCall
           /\ io[t].pc # "idle" => /\ CallInv(io[t], head, bytes) /\ io[t] \in CallState
                                   /\ io[t].op \in {"read", "write"}
<1>1. /\ bytes \in [Address -> Byte] /\ head \in 0 .. DiskSize
      /\ io \in [Thread -> {Idle} \cup CallState]
      /\ io[t] # Idle => CallInv(io[t], head, bytes)
  BY DEF IInv
<1>2. io[t] = Idle \/ io[t] \in CallState
  BY <1>1
<1>3. io[t] \in CallState => io[t].pc # "idle" /\ io[t].op \in {"read", "write"}
  BY DEF CallState
<1>4. Idle.pc = "idle" /\ CallOf(Idle) = Disk!NoCall
  BY DEF Idle, CallOf, Disk!NoCall
<1> QED
  BY <1>1, <1>2, <1>3, <1>4, Zenon

\* Start keeps the invariant, and is Call of the disk of bytes.
LEMMA StartStep ==
    ASSUME IInv, OneCaller, NEW t \in Thread, NEW r \in Request, Start(t, r)
    PROVE  IInv' /\ [Disk!Next]_(Disk!vars)
<1> PICK d : d = [pc |-> "seek", op |-> r.op, offset |-> r.offset, size |-> r.size,
                  content |-> r.content, left |-> SizeAligned(r), temp |-> <<>>]
  OBVIOUS
<1>1. /\ io[t].pc = "idle" /\ r.offset + r.size <= DiskSize /\ io' = [io EXCEPT ![t] = d]
      /\ bytes' = bytes /\ head' = head
  BY DEF Start, At
<1>2. /\ bytes \in [Address -> Byte] /\ head \in 0 .. DiskSize
      /\ io \in [Thread -> {Idle} \cup CallState] /\ CallOf(io[t]) = Disk!NoCall
  BY <1>1, Before
<1>3. /\ CallInv(d, head, bytes)
      /\ CallOf(d) = Disk!Pending(r, IF r.op = "write" THEN Disk!RangeOf(r) ELSE {}, <<>>)
  BY <1>1, StartCall
<1>4. IInv'
  <2>1. CallInv(d, head', bytes')
    BY <1>1, <1>3, Zenon
  <2> QED
    BY <1>1, <1>2, <2>1, InvAfter
<1>5. Calls[t] = Disk!NoCall /\ Calls' = [Calls EXCEPT ![t] = CallOf(d)]
  BY <1>1, <1>2, CallsAfter
<1>6. r \in Disk!Request /\ r.offset \in Nat /\ r.size \in Nat
  BY RequestFields, BoundAssumption, SectorAssumption DEF Address
<1>7. Disk!Call(t, r)
  BY <1>1, <1>3, <1>5, <1>6, DiskCall
<1> QED
  BY <1>4, <1>6, <1>7, Zenon DEF Disk!Next

\* A step that changes nothing that the callers see.
LEMMA Unseen ==
    ASSUME IInv, OneCaller, NEW t \in Thread, NEW d, io' = [io EXCEPT ![t] = d],
           CallInv(d, head', bytes), CallOf(d) = CallOf(io[t]),
           head' \in 0 .. DiskSize, bytes' = bytes
    PROVE  IInv' /\ [Disk!Next]_(Disk!vars)
<1>1. bytes \in [Address -> Byte] /\ io \in [Thread -> {Idle} \cup CallState]
  BY Before
<1>2. IInv'
  <2>1. CallInv(d, head', bytes') /\ bytes' \in [Address -> Byte]
    BY <1>1, Zenon
  <2> QED
    BY <1>1, <2>1, InvAfter
<1>3. /\ Calls \in [Thread -> {Calls[u] : u \in Thread}]
      /\ Calls' = [Calls EXCEPT ![t] = CallOf(d)] /\ Calls[t] = CallOf(d)
  BY <1>1, CallsAfter
<1>4. Calls' = Calls
  BY <1>3
<1> QED
  BY <1>2, <1>4 DEF Disk!vars

\* Seek keeps the invariant, and the callers see nothing of it.
LEMMA SeekStep ==
    ASSUME IInv, OneCaller, NEW t \in Thread, Seek(t)
    PROVE  IInv' /\ [Disk!Next]_(Disk!vars)
<1> PICK d : d = [io[t] EXCEPT !.pc = "read"]
  OBVIOUS
<1>1. /\ io[t].pc = "seek" /\ head' = OffsetAligned(io[t]) /\ bytes' = bytes
      /\ io' = [io EXCEPT ![t] = d]
  BY DEF Seek, At, Goto
<1>2. CallInv(io[t], head, bytes)
  BY <1>1, Before
<1>3. /\ CallInv(d, OffsetAligned(io[t]), bytes) /\ OffsetAligned(io[t]) \in 0 .. DiskSize
      /\ CallOf(d) = CallOf(io[t])
  BY <1>1, <1>2, SeekCall
<1> QED
  BY <1>1, <1>3, Unseen

\* ReadSector keeps the invariant, and the callers see nothing of it.
LEMMA ReadStep ==
    ASSUME IInv, OneCaller, NEW t \in Thread, ReadSector(t)
    PROVE  IInv' /\ [Disk!Next]_(Disk!vars)
<1>1. io[t].pc = "read" /\ io[t].left # 0 /\ bytes' = bytes
  BY DEF ReadSector, At
<1>2. /\ CallInv(io[t], head, bytes) /\ bytes \in [Address -> Byte] /\ head \in 0 .. DiskSize
      /\ io \in [Thread -> {Idle} \cup CallState]
  BY <1>1, Before
<1> PICK d : d = WithMore(io[t], SectorAt(bytes, head))
  OBVIOUS
<1>3. /\ head + IO_SZ \in 0 .. DiskSize /\ head < DiskSize
      /\ CallInv(d, head + IO_SZ, bytes) /\ CallOf(d) = CallOf(io[t])
  BY <1>1, <1>2, ReadSectorCall
<1>4. ~ AtEnd
  BY <1>2, <1>3, SectorAssumption DEF AtEnd
<1>5. head' = head + IO_SZ
  BY <1>4 DEF ReadSector
<1>6. io' = [io EXCEPT ![t].temp = @ \o Sector, ![t].left = @ - IO_SZ]
  BY <1>4 DEF ReadSector
<1>7. io' = [io EXCEPT ![t] = d]
  <2>1. Sector = SectorAt(bytes, head)
    BY DEF Sector, SectorAt
  <2> QED
    BY <1>2, <1>6, <2>1 DEF WithMore
<1> QED
  BY <1>1, <1>3, <1>5, <1>7, Unseen

\* The memcpy of a read keeps the invariant, and is Fetch of the disk of bytes.
LEMMA CopyReadStep ==
    ASSUME IInv, OneCaller, NEW t \in Thread, Copy(t), io[t].op = "read"
    PROVE  IInv' /\ [Disk!Next]_(Disk!vars)
<1> PICK c, d : c = io[t] /\ d = CopiedOut(c)
  OBVIOUS
<1>1. /\ c.pc = "read" /\ c.left = 0 /\ c.op = "read" /\ bytes' = bytes /\ head' = head
      /\ io' = [io EXCEPT ![t] = d]
  BY DEF Copy, At, TakenOut, CopiedOut
<1>2. /\ CallInv(c, head, bytes) /\ bytes \in [Address -> Byte] /\ head \in 0 .. DiskSize
      /\ io \in [Thread -> {Idle} \cup CallState]
  BY <1>1, Before
<1>3. /\ CallInv(d, head, bytes) /\ CallOf(c) = Disk!Pending(c, {}, <<>>)
      /\ CallOf(d) = Disk!Pending(c, {}, BytesAt(bytes, c.offset, c.size))
  BY <1>1, <1>2, CopyRead
<1>4. IInv'
  <2>1. /\ CallInv(d, head', bytes') /\ bytes' \in [Address -> Byte] /\ head' \in 0 .. DiskSize
    BY <1>1, <1>2, <1>3, Zenon
  <2> QED
    BY <1>1, <1>2, <2>1, InvAfter
<1>5. Calls[t] = CallOf(c) /\ Calls' = [Calls EXCEPT ![t] = CallOf(d)]
  BY <1>1, <1>2, CallsAfter
<1>6. Disk!Fetch(t)
  BY <1>1, <1>3, <1>5, DiskFetch
<1> QED
  BY <1>4, <1>6 DEF Disk!Next

\* The memcpy of a write keeps the invariant, and the callers see nothing of it.
LEMMA CopyWriteStep ==
    ASSUME IInv, OneCaller, NEW t \in Thread, Copy(t), io[t].op = "write"
    PROVE  IInv' /\ [Disk!Next]_(Disk!vars)
<1> PICK c, d : c = io[t] /\ d = CopiedIn(c)
  OBVIOUS
<1>1. /\ c.pc = "read" /\ c.left = 0 /\ c.op = "write" /\ bytes' = bytes /\ head' = head
      /\ io' = [io EXCEPT ![t] = d]
  BY DEF Copy, At, PutInto, CopiedIn
<1>2. CallInv(c, head, bytes) /\ head \in 0 .. DiskSize
  BY <1>1, Before
<1>3. CallInv(d, head, bytes) /\ CallOf(d) = CallOf(c)
  BY <1>1, <1>2, CopyWrite
<1>4. CallInv(d, head', bytes) /\ CallOf(d) = CallOf(io[t]) /\ head' \in 0 .. DiskSize
  BY <1>1, <1>2, <1>3, Zenon
<1> QED
  BY <1>1, <1>4, Unseen

\* Reseek keeps the invariant, and the callers see nothing of it.
LEMMA ReseekStep ==
    ASSUME IInv, OneCaller, NEW t \in Thread, Reseek(t)
    PROVE  IInv' /\ [Disk!Next]_(Disk!vars)
<1> PICK d : d = [io[t] EXCEPT !.pc = "write"]
  OBVIOUS
<1>1. /\ io[t].pc = "reseek" /\ head' = OffsetAligned(io[t]) /\ bytes' = bytes
      /\ io' = [io EXCEPT ![t] = d]
  BY DEF Reseek, At, Goto
<1>2. CallInv(io[t], head, bytes)
  BY <1>1, Before
<1>3. /\ CallInv(d, OffsetAligned(io[t]), bytes) /\ OffsetAligned(io[t]) \in 0 .. DiskSize
      /\ CallOf(d) = CallOf(io[t])
  BY <1>1, <1>2, ReseekCall
<1> QED
  BY <1>1, <1>3, Unseen

\* WriteSector keeps the invariant, and is Put of the disk of bytes, or nothing when
\* the request has no byte in the sector.
LEMMA WriteStep ==
    ASSUME IInv, OneCaller, NEW t \in Thread, WriteSector(t)
    PROVE  IInv' /\ [Disk!Next]_(Disk!vars)
<1>0. PICK c, d, y : /\ c = io[t] /\ d = WithLess(c)
                     /\ y = WithSector(bytes, head, c.temp, Done(c))
  OBVIOUS
<1>1. /\ c.pc = "write" /\ c.left # 0 /\ bytes' = y /\ head' = head + IO_SZ
  BY <1>0 DEF WriteSector, At, WithSector, Done
<1>2. io' = [io EXCEPT ![t] = d]
  BY <1>0 DEF WriteSector, WithLess
<1>3. /\ CallInv(c, head, bytes) /\ bytes \in [Address -> Byte] /\ head \in 0 .. DiskSize
      /\ io \in [Thread -> {Idle} \cup CallState]
  BY <1>0, <1>1, Before
<1>4. /\ head + IO_SZ \in 0 .. DiskSize /\ y \in [Address -> Byte]
      /\ CallInv(d, head + IO_SZ, y) /\ CallOf(c) = Disk!Pending(c, Todo(c), <<>>)
      /\ CallOf(d) = Disk!Pending(c, Todo(d), <<>>) /\ Todo(d) \subseteq Todo(c)
      /\ y = Patched(bytes, c, Todo(c), Todo(d))
  <2>1. Written(c, head, bytes, d, y)
    BY <1>0 DEF Written
  <2>2. c.pc = "write" /\ c.left # 0
    BY <1>1
  <2>3. CallInv(c, head, bytes) /\ bytes \in [Address -> Byte]
    BY <1>3
  <2> QED
    BY <2>1, <2>2, <2>3, WriteSectorCall
<1>5. IInv'
  <2>1. /\ CallInv(d, head', bytes') /\ bytes' \in [Address -> Byte] /\ head' \in 0 .. DiskSize
    BY <1>1, <1>4, Zenon
  <2> QED
    BY <1>2, <1>3, <2>1, InvAfter
<1>6. /\ Calls \in [Thread -> {Calls[u] : u \in Thread}]
      /\ Calls[t] = CallOf(c) /\ Calls' = [Calls EXCEPT ![t] = CallOf(d)]
  BY <1>0, <1>2, <1>3, CallsAfter
<1>7. c.op = "write"
  BY <1>1, <1>3 DEF CallInv
<1>8. Disk!Put(t) \/ UNCHANGED <<bytes, Calls>>
  BY <1>1, <1>3, <1>4, <1>6, <1>7, DiskPut
<1> QED
  BY <1>5, <1>8, Zenon DEF Disk!Next, Disk!vars

\* EndWrite keeps the invariant, and the callers see nothing of it.
LEMMA EndWriteStep ==
    ASSUME IInv, OneCaller, NEW t \in Thread, EndWrite(t)
    PROVE  IInv' /\ [Disk!Next]_(Disk!vars)
<1> PICK d : d = [io[t] EXCEPT !.pc = "return"]
  OBVIOUS
<1>1. /\ io[t].pc = "write" /\ io[t].left = 0 /\ head' = head /\ bytes' = bytes
      /\ io' = [io EXCEPT ![t] = d]
  BY DEF EndWrite, At, Goto
<1>2. CallInv(io[t], head, bytes) /\ head \in 0 .. DiskSize
  BY <1>1, Before
<1>3. CallInv(d, head, bytes) /\ CallOf(d) = CallOf(io[t])
  BY <1>1, <1>2, EndWriteCall
<1> QED
  BY <1>1, <1>2, <1>3, Unseen

\* Return keeps the invariant, and is Return of the disk of bytes.
LEMMA ReturnStep ==
    ASSUME IInv, OneCaller, NEW t \in Thread, Return(t)
    PROVE  IInv' /\ [Disk!Next]_(Disk!vars)
<1>0. PICK c : c = io[t]
  OBVIOUS
<1>1. /\ c.pc = "return" /\ head' = head /\ bytes' = bytes
      /\ io' = [io EXCEPT ![t] = Idle]
  BY <1>0 DEF Return, At
<1>2. /\ CallInv(c, head, bytes) /\ bytes \in [Address -> Byte] /\ head \in 0 .. DiskSize
      /\ io \in [Thread -> {Idle} \cup CallState] /\ c.op \in {"read", "write"}
  BY <1>0, <1>1, Before
<1>3. IInv'
  <2>1. bytes' \in [Address -> Byte] /\ head' \in 0 .. DiskSize
    BY <1>1, <1>2, Zenon
  <2> QED
    BY <1>1, <1>2, <2>1, InvAfter
<1>4. PICK out : CallOf(c) = Disk!Pending(c, {}, out) /\ Answers(c, out)
  BY <1>1, <1>2, ReturnCall
<1>5. Calls[t] = Disk!Pending(c, {}, out) /\ Calls' = [Calls EXCEPT ![t] = Disk!NoCall]
  <2>1. CallOf(Idle) = Disk!NoCall
    BY DEF CallOf, Disk!NoCall
  <2>2. Calls[t] = CallOf(c) /\ Calls' = [Calls EXCEPT ![t] = CallOf(Idle)]
    BY <1>0, <1>1, <1>2, CallsAfter
  <2> QED
    BY <1>4, <2>1, <2>2, Zenon
<1>6. Disk!Return(t)
  <2>1. Answers(c, out) /\ bytes' = bytes
    BY <1>1, <1>4
  <2> QED
    BY <1>5, <2>1, DiskReturn
<1> QED
  BY <1>3, <1>6 DEF Disk!Next
-------------------------------------------------------------------------------
\* Init establishes the invariant, and is Init of the disk of bytes.
LEMMA Initial ==
    ASSUME Init
    PROVE  IInv /\ Disk!Init
<1>1. /\ bytes \in [Address -> Byte] /\ head = 0 /\ io = [t \in Thread |-> Idle]
  BY DEF Init
<1>2. IInv
  <2>1. io \in [Thread -> {Idle} \cup CallState]
    BY <1>1
  <2>2. \A t \in Thread : io[t] = Idle
    BY <1>1
  <2> QED
    BY <1>1, <2>1, <2>2, SectorAssumption DEF IInv
<1>3. Calls = [t \in Thread |-> Disk!NoCall]
  <2>1. CallOf(Idle) = Disk!NoCall
    BY DEF CallOf, Disk!NoCall
  <2>2. Calls = [t \in Thread |-> CallOf(Idle)]
    BY <1>1 DEF Calls
  <2> QED
    BY <2>1, <2>2, Zenon
<1>4. Disk!Address = Address
  BY DEF Disk!Address, Address
<1> QED
  BY <1>1, <1>2, <1>3, <1>4, Zenon DEF Disk!Init

\* Every step keeps the invariant, and is a step of the disk of bytes or none.
LEMMA Inductive ==
    ASSUME OneCaller, IInv, [Next]_vars
    PROVE  IInv' /\ [Disk!Next]_(Disk!vars)
<1>1. ASSUME NEW t \in Thread, NEW r \in Request, Start(t, r)
      PROVE  IInv' /\ [Disk!Next]_(Disk!vars)
  BY <1>1, StartStep
<1>2. ASSUME NEW t \in Thread, Seek(t) PROVE IInv' /\ [Disk!Next]_(Disk!vars)
  BY <1>2, SeekStep
<1>3. ASSUME NEW t \in Thread, ReadSector(t) PROVE IInv' /\ [Disk!Next]_(Disk!vars)
  BY <1>3, ReadStep
<1>4. ASSUME NEW t \in Thread, Copy(t) PROVE IInv' /\ [Disk!Next]_(Disk!vars)
  <2>1. io[t].pc = "read"
    BY <1>4 DEF Copy, At
  <2>2. io[t].op \in {"read", "write"}
    BY <2>1, Before
  <2> QED
    BY <1>4, <2>2, CopyReadStep, CopyWriteStep
<1>5. ASSUME NEW t \in Thread, Reseek(t) PROVE IInv' /\ [Disk!Next]_(Disk!vars)
  BY <1>5, ReseekStep
<1>6. ASSUME NEW t \in Thread, WriteSector(t) PROVE IInv' /\ [Disk!Next]_(Disk!vars)
  BY <1>6, WriteStep
<1>7. ASSUME NEW t \in Thread, EndWrite(t) PROVE IInv' /\ [Disk!Next]_(Disk!vars)
  BY <1>7, EndWriteStep
<1>8. ASSUME NEW t \in Thread, Return(t) PROVE IInv' /\ [Disk!Next]_(Disk!vars)
  BY <1>8, ReturnStep
<1>9. CASE UNCHANGED vars
  <2>1. bytes' = bytes /\ head' = head /\ io' = io
    BY <1>9 DEF vars
  <2>2. IInv'
    BY <2>1 DEF IInv, Idle, CallInv
  <2>3. Calls' = Calls
    BY <2>1 DEF Calls, CallOf, Todo
  <2> QED
    BY <2>1, <2>2, <2>3 DEF Disk!vars
<1> QED
  BY <1>1, <1>2, <1>3, <1>4, <1>5, <1>6, <1>7, <1>8, <1>9, Zenon DEF Next, Step

\* The strengthening of TypeOK that the refinement needs holds throughout.
THEOREM CallsExact ==
    ASSUME OneCaller
    PROVE  Spec => []IInv
<1>1. Init => IInv
  BY Initial
<1>2. IInv /\ [Next]_vars => IInv'
  BY Inductive
<1> QED
  BY <1>1, <1>2, PTL DEF Spec

\* The invariant holds what TypeOK says.
THEOREM TypesOfOneCaller ==
    ASSUME OneCaller
    PROVE  Spec => []TypeOK
<1>1. IInv => TypeOK
  <2> SUFFICES ASSUME IInv PROVE TypeOK
    OBVIOUS
  <2>1. bytes \in [Address -> Byte] /\ head \in 0 .. DiskSize
    BY DEF IInv
  <2>2. ASSUME NEW t \in Thread, io[t] # Idle
        PROVE  /\ io[t].pc \in {"seek", "read", "copy", "reseek", "write", "return"}
               /\ RequestOf(io[t]) \in Request
               /\ io[t].left \in 0 .. DiskSize /\ io[t].temp \in Seq(Byte)
    BY <2>2 DEF IInv, CallInv, CallState
  <2> QED
    BY <2>1, <2>2 DEF TypeOK, RequestOf
<1> QED
  BY <1>1, CallsExact, PTL

(***************************************************************************)
(* For one caller the driver access of newfs is a disk of bytes: a write   *)
(* changes the bytes of its range and no byte of the sectors around it, a  *)
(* read returns the bytes of its range.                                    *)
(***************************************************************************)
THEOREM DriverImplementsByteDisk ==
    ASSUME OneCaller
    PROVE  Spec => ImplementsByteDisk
<1>1. Init => Disk!Init
  BY Initial
<1>2. IInv /\ [Next]_vars => [Disk!Next]_(Disk!vars)
  BY Inductive
<1> QED
  BY <1>1, <1>2, CallsExact, PTL DEF Spec, ImplementsByteDisk, Disk!Spec
===============================================================================
