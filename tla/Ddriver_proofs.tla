---------------------------- MODULE Ddriver_proofs ----------------------------
(***************************************************************************)
(* Proofs about Ddriver, for every set of processes, every size of the     *)
(* disk and all contents of a sector.                                      *)
(***************************************************************************)
EXTENDS Ddriver, FiniteSetTheorems, TLAPS

USE DiskAssumption, CallsAssumption

Device == [layout : [Disk -> Byte], head : Nat, cnt : Counter, open_count : Int]
Handle == [pos : Nat, cnt : Counter]

\* The files the user-space driver can leave behind.
IsFile(f) ==
    /\ IsFiniteSet(DOMAIN f) /\ Disk \subseteq DOMAIN f /\ DOMAIN f \subseteq Nat
    /\ \A s \in DOMAIN f : f[s] \in Byte
    /\ f = [s \in DOMAIN f |-> f[s]]

(***************************************************************************)
(* Who is inside device_open, the calls or device_release, and what is in  *)
(* open_count meanwhile: 0 until it is counted, 1 until it is uncounted.   *)
(***************************************************************************)
Inside(p) == pc[p] # "idle"

Turns ==
    "raced" \notin apart =>
        /\ \A p, q \in Process : Inside(p) /\ Inside(q) => p = q
        /\ \A p \in Process : pc[p] \in {"admitted", "counting"} => device.open_count = 0
        /\ \A p \in Process : pc[p] \in {"open", "closing"} => device.open_count = 1
        /\ (\A p \in Process : ~Inside(p)) => device.open_count = 0
        /\ \A p \in Process : pc[p] = "counting" => seen[p] = 0 /\ device.head = 0
        /\ \A p \in Process : pc[p] = "closing" => seen[p] = 1

Types ==
    /\ device \in Device
    /\ pc \in [Process -> {"idle", "admitted", "counting", "open", "closing"}]
    /\ seen \in [Process -> Int]
    /\ IsFile(file)
    /\ fd \in [Process -> Handle]
    /\ apart \subseteq Cause
    /\ calls \in 0 .. MaxCalls

IInv == Types /\ Turns /\ SameUntilApart

\* No cause was added, so there was none before.
LEMMA NoCause ==
    ASSUME NEW A, NEW C, A \cup C = {}
    PROVE  A = {} /\ C = {}
OBVIOUS

\* A condition that gave no cause did not hold.
LEMMA NotBecause ==
    ASSUME NEW b \in BOOLEAN, NEW c, Because(b, c) = {}
    PROVE  ~b
BY DEF Because

\* The disk of either driver is zeros to begin with, and after a reload.
LEMMA BlankType == Blank \in [Disk -> Byte] /\ Loaded \in Device /\ IsFile(Blank)
<1>1. Blank \in [Disk -> Byte]
  BY DEF Blank, Disk
<1>2. Loaded \in Device
  BY <1>1 DEF Loaded, Device, NoCalls, Counter
<1>3. IsFiniteSet(Disk) /\ Disk \subseteq Nat
  BY FS_Interval, 0 \in Int, Sectors - 1 \in Int DEF Disk
<1>4. IsFile(Blank)
  BY <1>1, <1>3 DEF IsFile, Blank
<1> QED
  BY <1>1, <1>2, <1>4

\* Counting a call, in either driver.
LEMMA Counting ==
    ASSUME NEW c \in Counter
    PROVE  /\ [c EXCEPT !.read = @ + 1] \in Counter
           /\ [c EXCEPT !.write = @ + 1] \in Counter
           /\ [c EXCEPT !.seek = @ + 1] \in Counter
BY DEF Counter

(***************************************************************************)
(* A call changes neither the type of a driver's state nor open_count.     *)
(***************************************************************************)
GoodKernel(d, kernel) ==
    /\ kernel.device \in Device
    /\ kernel.device.open_count = d.open_count

GoodUser(user) == IsFile(user.file) /\ user.fd \in Handle

\* What the calls of both drivers yield is well typed.
LEMMA ReadType ==
    ASSUME NEW d \in Device, NEW f, IsFile(f), NEW h \in Handle, NEW whole \in BOOLEAN
    PROVE  GoodKernel(d, device_read(d, whole)) /\ GoodUser(ddriver_read(f, h, whole))
<1>1. /\ d.cnt \in Counter /\ d.head + 1 \in Nat
      /\ h.cnt \in Counter /\ h.pos + 1 \in Nat
  BY DEF Device, Handle
<1>2. [d.cnt EXCEPT !.read = @ + 1] \in Counter /\ [h.cnt EXCEPT !.read = @ + 1] \in Counter
  BY <1>1, Counting
<1>3. GoodKernel(d, device_read(d, whole))
  BY <1>1, <1>2 DEF GoodKernel, device_read, Device
<1>4. GoodUser(ddriver_read(f, h, whole))
  <2>1. ddriver_read(f, h, whole).fd \in Handle
    BY <1>1, <1>2 DEF ddriver_read, Handle
  <2>2. ddriver_read(f, h, whole).file = f
    BY DEF ddriver_read
  <2> QED
    BY <2>1, <2>2 DEF GoodUser
<1> QED
  BY <1>3, <1>4

LEMMA WriteType ==
    ASSUME NEW d \in Device, NEW f, IsFile(f), NEW h \in Handle, NEW whole \in BOOLEAN,
           NEW byte \in Byte
    PROVE  /\ GoodKernel(d, device_write(d, byte, whole))
           /\ GoodUser(ddriver_write(f, h, byte, whole))
<1>1. GoodKernel(d, device_write(d, byte, whole))
  <2>1. CASE check_valid(d, whole) = "ok"
    <3>1. d.head \in Disk /\ d.head + 1 \in Nat /\ d.cnt \in Counter
      BY <2>1 DEF check_valid, Disk, Device
    <3>2. [d.layout EXCEPT ![d.head] = byte] \in [Disk -> Byte]
      BY DEF Device
    <3>3. [d.cnt EXCEPT !.write = @ + 1] \in Counter
      BY <3>1, Counting
    <3> QED
      BY <2>1, <3>1, <3>2, <3>3 DEF GoodKernel, device_write, Device
  <2>2. CASE check_valid(d, whole) # "ok"
    BY <2>2 DEF GoodKernel, device_write
  <2> QED
    BY <2>1, <2>2
<1>2. CASE ~whole
  BY <1>1, <1>2 DEF GoodUser, ddriver_write
<1>3. CASE whole
  <2> DEFINE g == ddriver_write(f, h, byte, whole).file
  <2>1. /\ DOMAIN g = DOMAIN f \cup 0 .. h.pos
        /\ g = [s \in DOMAIN f \cup 0 .. h.pos |->
                   IF s = h.pos THEN byte ELSE IF s \in DOMAIN f THEN f[s] ELSE Zero]
    BY <1>3 DEF ddriver_write
  <2>2. IsFiniteSet(0 .. h.pos)
    BY FS_Interval, 0 \in Int, h.pos \in Int DEF Handle
  <2>3. IsFiniteSet(DOMAIN g)
    <3>1. IsFiniteSet(DOMAIN f)
      BY DEF IsFile
    <3>2. IsFiniteSet(DOMAIN f \cup 0 .. h.pos)
      BY <2>2, <3>1, FS_Union
    <3> QED
      BY <2>1, <3>2
  <2>4. \A s \in DOMAIN g : g[s] \in Byte
    BY <2>1 DEF IsFile
  <2>5. Disk \subseteq DOMAIN g /\ DOMAIN g \subseteq Nat
    BY <2>1 DEF IsFile, Handle
  <2>6. IsFile(g)
    BY <2>1, <2>3, <2>4, <2>5 DEF IsFile
  <2>7. ddriver_write(f, h, byte, whole).fd \in Handle
    <3>1. h.cnt \in Counter /\ h.pos + 1 \in Nat
      BY DEF Handle
    <3>2. [h.cnt EXCEPT !.write = @ + 1] \in Counter
      BY <3>1, Counting
    <3> QED
      BY <1>3, <3>1, <3>2 DEF ddriver_write, Handle
  <2> QED
    BY <1>1, <2>6, <2>7 DEF GoodUser
<1> QED
  BY <1>2, <1>3

LEMMA SeekType ==
    ASSUME NEW d \in Device, NEW f, IsFile(f), NEW h \in Handle,
           NEW offset \in Int, NEW aligned \in BOOLEAN, NEW whence \in Whence,
           whence = "SEEK_SET" => offset >= 0,
           whence = "SEEK_CUR" => d.head + offset >= 0 /\ h.pos + offset >= 0
    PROVE  /\ GoodKernel(d, device_seek(d, offset, aligned, whence))
           /\ GoodUser(ddriver_seek(f, h, offset, aligned, whence))
<1>1. d.head \in Nat /\ h.pos \in Nat /\ Cardinality(DOMAIN f) \in Nat
  BY FS_CardinalityType DEF Device, Handle, IsFile
<1>2. /\ Target(whence, offset, d.head, d.head) \in Nat
      /\ Target(whence, offset, h.pos, Cardinality(DOMAIN f)) \in Nat
  BY <1>1 DEF Target, Whence
<1>3. [d.cnt EXCEPT !.seek = @ + 1] \in Counter /\ [h.cnt EXCEPT !.seek = @ + 1] \in Counter
  BY Counting DEF Device, Handle
<1>4. GoodKernel(d, device_seek(d, offset, aligned, whence))
  BY <1>2, <1>3 DEF GoodKernel, device_seek, Device
<1>5. GoodUser(ddriver_seek(f, h, offset, aligned, whence))
  <2>1. ddriver_seek(f, h, offset, aligned, whence).fd \in Handle
    BY <1>2, <1>3 DEF ddriver_seek, Handle
  <2>2. ddriver_seek(f, h, offset, aligned, whence).file = f
    BY DEF ddriver_seek
  <2> QED
    BY <2>1, <2>2 DEF GoodUser
<1> QED
  BY <1>4, <1>5

LEMMA IoctlType ==
    ASSUME NEW d \in Device, NEW f, IsFile(f), NEW h \in Handle, NEW cmd
    PROVE  GoodKernel(d, device_ioctl(d, cmd)) /\ GoodUser(ddriver_ioctl(f, h, cmd))
<1>1. GoodKernel(d, device_ioctl(d, cmd))
  BY DEF GoodKernel, device_ioctl, Device, Counter, NoCalls
<1>2. GoodUser(ddriver_ioctl(f, h, cmd))
  BY DEF GoodUser, ddriver_ioctl, IsFile, Handle, Counter, NoCalls
<1> QED
  BY <1>1, <1>2
-------------------------------------------------------------------------------
(***************************************************************************)
(* Types and Turns survive a call of any kind.                             *)
(***************************************************************************)
LEMMA CallKeepsTypes ==
    ASSUME Types, Turns, NEW p \in Process, NEW kernel, NEW user,
           NEW causes \in SUBSET Cause,
           GoodKernel(device, kernel), GoodUser(user), Call(p, kernel, user, causes)
    PROVE  Types' /\ Turns'
<1>1. Types'
  BY DEF Types, Call, Calling, GoodKernel, GoodUser
<1>2. Turns'
  BY DEF Turns, Call, GoodKernel, Inside
<1> QED
  BY <1>1, <1>2

(***************************************************************************)
(* The drivers agree after a call of any kind that gives no cause, when    *)
(* the two sides of the call do.                                           *)
(***************************************************************************)
LEMMA CallKeepsAgreement ==
    ASSUME IInv, NEW p \in Process, NEW kernel, NEW user, NEW causes,
           Call(p, kernel, user, causes),
           apart' = {} =>
              /\ kernel.answer = user.answer
              /\ kernel.device.layout = user.file
              /\ kernel.device.head = user.fd.pos /\ kernel.device.cnt = user.fd.cnt
    PROVE  SameUntilApart'
<1> SUFFICES ASSUME apart' = {}
             PROVE  /\ answer'.kernel = answer'.user
                    /\ device'.layout = file'
                    /\ \A q \in Process : pc'[q] = "open" =>
                          device'.head = fd'[q].pos /\ device'.cnt = fd'[q].cnt
  BY DEF SameUntilApart
<1>1. apart = {}
  BY DEF Call
<1>2. answer'.kernel = answer'.user /\ device'.layout = file'
  BY DEF Call
<1>3. ASSUME NEW q \in Process, pc'[q] = "open"
      PROVE  device'.head = fd'[q].pos /\ device'.cnt = fd'[q].cnt
  <2>1. q = p
    BY <1>1, <1>3 DEF IInv, Turns, Inside, Call
  <2>2. fd'[p] = user.fd
    BY DEF IInv, Types, Call
  <2> QED
    BY <2>1, <2>2 DEF Call
<1> QED
  BY <1>2, <1>3

\* What SameUntilApart says of the process that makes a call.
LEMMA Together ==
    ASSUME IInv, apart = {}, NEW p \in Process, pc[p] = "open"
    PROVE  device.layout = file /\ device.head = fd[p].pos /\ device.cnt = fd[p].cnt
BY DEF IInv, SameUntilApart

\* The four calls, each with the two sides it compares.
LEMMA ReadStep ==
    ASSUME IInv, NEW p \in Process, NEW whole \in BOOLEAN, Read(p, whole)
    PROVE  IInv'
<1> DEFINE kernel == device_read(device, whole)
           user == ddriver_read(file, fd[p], whole)
<1>1. Call(p, kernel, user, AtEnd) /\ AtEnd \in SUBSET Cause
  BY DEF Read, AtEnd, Because, Cause
<1>2. GoodKernel(device, kernel) /\ GoodUser(user)
  BY ReadType DEF IInv, Types
<1>3. ASSUME apart' = {}
      PROVE  /\ kernel.answer = user.answer
             /\ kernel.device.layout = user.file
             /\ kernel.device.head = user.fd.pos /\ kernel.device.cnt = user.fd.cnt
  <2>1. apart = {} /\ AtEnd = {} /\ pc[p] = "open"
    BY <1>1, <1>3 DEF Call
  <2>2. device.layout = file /\ device.head = fd[p].pos /\ device.cnt = fd[p].cnt
    BY <2>1, Together
  <2>3. device.head < Sectors /\ device.head \in Disk /\ fd[p].pos \in DOMAIN file
    BY <2>1, <2>2 DEF AtEnd, Because, IInv, Types, Device, Disk, IsFile
  <2>4. device \in Device /\ fd[p] \in Handle
    BY DEF IInv, Types
  <2> QED
    BY <2>2, <2>3, <2>4 DEF device_read, ddriver_read, check_valid, Says, Device, Handle, Counter
<1> HIDE DEF kernel, user
<1>4. Types' /\ Turns'
  BY <1>1, <1>2, CallKeepsTypes DEF IInv
<1>5. SameUntilApart'
  BY <1>1, <1>3, CallKeepsAgreement
<1> QED
  BY <1>4, <1>5 DEF IInv

\* A call keeps IInv, one lemma for each kind.
LEMMA WriteStep ==
    ASSUME IInv, NEW p \in Process, NEW byte \in Byte, NEW whole \in BOOLEAN,
           Write(p, byte, whole)
    PROVE  IInv'
<1> DEFINE kernel == device_write(device, byte, whole)
           user == ddriver_write(file, fd[p], byte, whole)
<1>1. Call(p, kernel, user, AtEnd) /\ AtEnd \in SUBSET Cause
  BY DEF Write, AtEnd, Because, Cause
<1>2. GoodKernel(device, kernel) /\ GoodUser(user)
  BY WriteType DEF IInv, Types
<1>3. ASSUME apart' = {}
      PROVE  /\ kernel.answer = user.answer
             /\ kernel.device.layout = user.file
             /\ kernel.device.head = user.fd.pos /\ kernel.device.cnt = user.fd.cnt
  <2>1. apart = {} /\ AtEnd = {} /\ pc[p] = "open"
    BY <1>1, <1>3 DEF Call
  <2>2. device.layout = file /\ device.head = fd[p].pos /\ device.cnt = fd[p].cnt
    BY <2>1, Together
  <2>3. device \in Device /\ fd[p] \in Handle
    BY DEF IInv, Types
  <2>4. device.head < Sectors /\ device.head \in Disk
    BY <2>1, <2>3 DEF AtEnd, Because, Device, Disk
  <2>5. DOMAIN file = Disk /\ DOMAIN file \cup 0 .. fd[p].pos = Disk
    BY <2>2, <2>3, <2>4 DEF Device, Disk
  <2>6. [device.layout EXCEPT ![device.head] = byte] =
           [s \in DOMAIN file \cup 0 .. fd[p].pos |->
               IF s = fd[p].pos THEN byte ELSE IF s \in DOMAIN file THEN file[s] ELSE Zero]
    BY <2>2, <2>3, <2>4, <2>5 DEF Device
  <2> QED
    BY <2>2, <2>3, <2>4, <2>6
       DEF device_write, ddriver_write, check_valid, Says, Device, Handle, Counter
<1> HIDE DEF kernel, user
<1>4. Types' /\ Turns'
  BY <1>1, <1>2, CallKeepsTypes DEF IInv
<1>5. SameUntilApart'
  BY <1>1, <1>3, CallKeepsAgreement
<1> QED
  BY <1>4, <1>5 DEF IInv

LEMMA SeekStep ==
    ASSUME IInv, NEW p \in Process, NEW offset \in Int, NEW aligned \in BOOLEAN,
           NEW whence \in Whence, Seek(p, offset, aligned, whence)
    PROVE  IInv'
<1> DEFINE kernel == device_seek(device, offset, aligned, whence)
           user == ddriver_seek(file, fd[p], offset, aligned, whence)
           causes == Because(aligned /\ whence = "SEEK_END", "whence")
<1>1. Call(p, kernel, user, causes) /\ causes \in SUBSET Cause
  BY DEF Seek, Because, Cause
<1>2. GoodKernel(device, kernel) /\ GoodUser(user)
  <2>1. device \in Device /\ fd[p] \in Handle /\ IsFile(file)
    BY DEF IInv, Types
  <2>2. /\ whence = "SEEK_SET" => offset >= 0
        /\ whence = "SEEK_CUR" => device.head + offset >= 0 /\ fd[p].pos + offset >= 0
    BY DEF Seek
  <2> QED
    BY <2>1, <2>2, SeekType
<1>3. ASSUME apart' = {}
      PROVE  /\ kernel.answer = user.answer
             /\ kernel.device.layout = user.file
             /\ kernel.device.head = user.fd.pos /\ kernel.device.cnt = user.fd.cnt
  <2>1. apart = {} /\ causes = {} /\ pc[p] = "open"
    BY <1>1, <1>3 DEF Call
  <2>2. device.layout = file /\ device.head = fd[p].pos /\ device.cnt = fd[p].cnt
    BY <2>1, Together
  <2>3. device \in Device /\ fd[p] \in Handle
    BY DEF IInv, Types
  <2>4. ~aligned \/ whence \in {"SEEK_SET", "SEEK_CUR"}
    BY <2>1 DEF Because, Whence
  <2>5. aligned => Target(whence, offset, device.head, device.head)
                     = Target(whence, offset, fd[p].pos, Cardinality(DOMAIN file))
    BY <2>2, <2>4 DEF Target
  <2> QED
    BY <2>2, <2>3, <2>5 DEF device_seek, ddriver_seek, Says, Device, Handle, Counter
<1> HIDE DEF kernel, user, causes
<1>4. Types' /\ Turns'
  BY <1>1, <1>2, CallKeepsTypes DEF IInv
<1>5. SameUntilApart'
  BY <1>1, <1>3, CallKeepsAgreement
<1> QED
  BY <1>4, <1>5 DEF IInv

LEMMA IoctlStep ==
    ASSUME IInv, NEW p \in Process,
           NEW cmd \in {"IOC_REQ_DEVICE_STATE", "IOC_REQ_DEVICE_RESET"}, Ioctl(p, cmd)
    PROVE  IInv'
<1> DEFINE kernel == device_ioctl(device, cmd)
           user == ddriver_ioctl(file, fd[p], cmd)
           causes == Because(cmd = "IOC_REQ_DEVICE_RESET" /\ device.layout # Blank, "reset")
<1>1. Call(p, kernel, user, causes) /\ causes \in SUBSET Cause
  BY DEF Ioctl, Because, Cause
<1>2. GoodKernel(device, kernel) /\ GoodUser(user)
  BY IoctlType DEF IInv, Types
<1>3. ASSUME apart' = {}
      PROVE  /\ kernel.answer = user.answer
             /\ kernel.device.layout = user.file
             /\ kernel.device.head = user.fd.pos /\ kernel.device.cnt = user.fd.cnt
  <2>1. apart = {} /\ causes = {} /\ pc[p] = "open"
    BY <1>1, <1>3 DEF Call
  <2>2. device.layout = file /\ device.head = fd[p].pos /\ device.cnt = fd[p].cnt
    BY <2>1, Together
  <2>3. device \in Device /\ fd[p] \in Handle
    BY DEF IInv, Types
  <2>4. CASE cmd = "IOC_REQ_DEVICE_STATE"
    BY <2>2, <2>4 DEF device_ioctl, ddriver_ioctl, Counted
  <2>5. CASE cmd = "IOC_REQ_DEVICE_RESET"
    <3>1. file = Blank
      BY <2>1, <2>2, <2>5 DEF Because
    <3>2. [s \in DOMAIN file |-> IF s \in Disk THEN Zero ELSE file[s]] = Blank
      BY <3>1 DEF Blank
    <3> QED
      BY <2>2, <2>3, <2>5, <3>1, <3>2 DEF device_ioctl, ddriver_ioctl, Device
  <2> QED
    BY <2>4, <2>5
<1> HIDE DEF kernel, user, causes
<1>4. Types' /\ Turns'
  BY <1>1, <1>2, CallKeepsTypes DEF IInv
<1>5. SameUntilApart'
  BY <1>1, <1>3, CallKeepsAgreement
<1> QED
  BY <1>4, <1>5 DEF IInv
-------------------------------------------------------------------------------
\* The steps of device_open and device_release, a new process and a new module.
LEMMA RefuseStep == ASSUME IInv, NEW p \in Process, Refuse(p) PROVE IInv'
<1>1. Types'
  BY DEF IInv, Types, Refuse, Calling, Cause
<1>2. Turns'
  BY DEF IInv, Turns, Refuse, Inside
<1>3. SameUntilApart'
  BY DEF Refuse, SameUntilApart
<1> QED
  BY <1>1, <1>2, <1>3 DEF IInv

\* So do the steps of an open and of a release, and a reload.
LEMMA AdmitStep == ASSUME IInv, NEW p \in Process, Admit(p) PROVE IInv'
<1>1. Types'
  BY DEF IInv, Types, Admit, Calling, Because, Cause
<1>2. Turns'
  <2> SUFFICES ASSUME "raced" \notin apart'
               PROVE  Turns'
    BY DEF Turns
  <2>1. "raced" \notin apart /\ device.open_count = 0 /\ device' = device /\ seen' = seen
    BY DEF Admit
  <2>2. \A q \in Process : pc[q] \notin {"admitted", "counting"}
    BY DEF Admit, Because
  <2>3. \A q \in Process : pc[q] = "idle"
    BY <2>1, <2>2 DEF IInv, Types, Turns
  <2>4. \A q \in Process : pc'[q] = IF q = p THEN "admitted" ELSE "idle"
    BY <2>3 DEF Admit, IInv, Types
  <2> QED
    BY <2>1, <2>4 DEF Turns, Inside
<1>3. SameUntilApart'
  BY DEF IInv, Types, Admit, SameUntilApart
<1> QED
  BY <1>1, <1>2, <1>3 DEF IInv

LEMMA ResetHeadStep == ASSUME IInv, NEW p \in Process, ResetHead(p) PROVE IInv'
<1>1. Types'
  BY DEF IInv, Types, ResetHead, Device
<1>2. Turns'
  <2>1. device'.open_count = device.open_count
    BY DEF ResetHead, IInv, Types, Device
  <2>2. seen'[p] = device.open_count /\ \A q \in Process \ {p} : seen'[q] = seen[q]
    BY DEF ResetHead, IInv, Types
  <2>3. device'.head = 0
    BY DEF ResetHead, IInv, Types, Device
  <2>4. pc[p] = "admitted" /\ pc'[p] = "counting" /\ \A q \in Process \ {p} : pc'[q] = pc[q]
    BY DEF ResetHead, IInv, Types
  <2> QED
    BY <2>1, <2>2, <2>3, <2>4 DEF ResetHead, IInv, Turns, Inside
<1>3. SameUntilApart'
  <2> SUFFICES ASSUME apart = {} PROVE SameUntilApart'
    BY DEF ResetHead, SameUntilApart
  <2>1. \A q \in Process : pc'[q] # "open"
    BY DEF ResetHead, IInv, Types, Turns, Inside
  <2>2. device'.layout = device.layout
    BY DEF ResetHead, IInv, Types, Device
  <2> QED
    BY <2>1, <2>2 DEF ResetHead, IInv, SameUntilApart
<1> QED
  BY <1>1, <1>2, <1>3 DEF IInv

LEMMA OpenedStep == ASSUME IInv, NEW p \in Process, Opened(p) PROVE IInv'
<1>1. Types'
  <2>1. device' \in Device
    BY DEF IInv, Types, Opened, Device
  <2>2. fd' \in [Process -> Handle]
    <3>1. [fd[p] EXCEPT !.pos = 0] \in Handle
      BY DEF IInv, Types, Handle
    <3> QED
      BY <3>1 DEF IInv, Types, Opened
  <2>3. apart' \subseteq Cause
    BY DEF IInv, Types, Opened, Because, Cause
  <2> QED
    BY <2>1, <2>2, <2>3 DEF IInv, Types, Opened
<1>2. Turns'
  <2>1. device'.open_count = seen[p] + 1
    BY DEF Opened, IInv, Types, Device
  <2>2. pc[p] = "counting" /\ pc'[p] = "open" /\ \A q \in Process \ {p} : pc'[q] = pc[q]
    BY DEF Opened, IInv, Types
  <2> QED
    BY <2>1, <2>2 DEF Opened, Because, IInv, Turns, Inside
<1>3. SameUntilApart'
  <2> SUFFICES ASSUME apart' = {} PROVE SameUntilApart'
    BY DEF SameUntilApart
  <2>1. apart = {} /\ fd[p].cnt = device.cnt
    BY DEF Opened, Because
  <2>2. \A q \in Process : pc'[q] = "open" => q = p
    BY <2>1 DEF Opened, IInv, Types, Turns, Inside
  <2>3. device'.layout = device.layout /\ device'.cnt = device.cnt /\ device'.head = 0
    BY <2>1 DEF Opened, IInv, Types, Turns, Device
  <2>4. fd'[p].pos = 0 /\ fd'[p].cnt = fd[p].cnt
    BY DEF Opened, IInv, Types, Handle
  <2>5. answer'.kernel = answer'.user /\ device'.layout = file'
    BY <2>1, <2>3 DEF Opened, IInv, SameUntilApart
  <2> QED
    BY <2>1, <2>2, <2>3, <2>4, <2>5 DEF SameUntilApart
<1> QED
  BY <1>1, <1>2, <1>3 DEF IInv

LEMMA ReleaseStep == ASSUME IInv, NEW p \in Process, Release(p) PROVE IInv'
<1>1. Types'
  BY DEF IInv, Types, Release, Device
<1>2. Turns'
  <2>1. pc[p] = "open" /\ pc'[p] = "closing" /\ \A q \in Process \ {p} : pc'[q] = pc[q]
    BY DEF Release, IInv, Types
  <2>2. seen'[p] = device.open_count /\ \A q \in Process \ {p} : seen'[q] = seen[q]
    BY DEF Release, IInv, Types
  <2> QED
    BY <2>1, <2>2 DEF Release, IInv, Turns, Inside
<1>3. SameUntilApart'
  BY DEF Release, IInv, Types, SameUntilApart
<1> QED
  BY <1>1, <1>2, <1>3 DEF IInv

LEMMA ReleasedStep == ASSUME IInv, NEW p \in Process, Released(p) PROVE IInv'
<1>1. Types'
  BY DEF IInv, Types, Released, Device
<1>2. Turns'
  <2>1. pc[p] = "closing" /\ pc'[p] = "idle" /\ \A q \in Process \ {p} : pc'[q] = pc[q]
    BY DEF Released, IInv, Types
  <2>2. device'.open_count = seen[p] - 1
    BY DEF Released, IInv, Types, Device
  <2> QED
    BY <2>1, <2>2 DEF Released, IInv, Turns, Inside
<1>3. SameUntilApart'
  <2>1. device'.layout = device.layout /\ device'.head = device.head /\ device'.cnt = device.cnt
    BY DEF Released, IInv, Types, Device
  <2>2. \A q \in Process : pc'[q] = "open" => pc[q] = "open"
    BY DEF Released, IInv, Types
  <2> QED
    BY <2>1, <2>2 DEF Released, IInv, SameUntilApart
<1> QED
  BY <1>1, <1>2, <1>3 DEF IInv

LEMMA RestartStep == ASSUME IInv, NEW p \in Process, Restart(p) PROVE IInv'
<1>1. Types'
  <2>1. [fd[p] EXCEPT !.cnt = NoCalls] \in Handle
    BY DEF IInv, Types, Handle, NoCalls, Counter
  <2> QED
    BY <2>1 DEF IInv, Types, Restart
<1>2. Turns'
  BY DEF Restart, IInv, Turns, Inside
<1>3. SameUntilApart'
  <2>1. \A q \in Process : pc[q] = "open" => fd'[q] = fd[q]
    BY DEF Restart, IInv, Types
  <2> QED
    BY <2>1 DEF Restart, IInv, SameUntilApart
<1> QED
  BY <1>1, <1>2, <1>3 DEF IInv

LEMMA ReloadStep == ASSUME IInv, Reload PROVE IInv'
<1>1. Types'
  BY BlankType DEF IInv, Types, Reload, Because, Cause
<1>2. Turns'
  BY DEF Reload, Because, IInv, Turns, Inside, Loaded
<1>3. SameUntilApart'
  <2> SUFFICES ASSUME apart' = {} PROVE SameUntilApart'
    BY DEF SameUntilApart
  <2>1. apart = {} /\ device.layout = Blank
    BY DEF Reload, Because
  <2>2. device'.layout = device.layout
    BY <2>1 DEF Reload, Loaded
  <2>3. \A q \in Process : pc'[q] # "open"
    BY DEF Reload
  <2> QED
    BY <2>1, <2>2, <2>3 DEF Reload, IInv, SameUntilApart
<1> QED
  BY <1>1, <1>2, <1>3 DEF IInv
-------------------------------------------------------------------------------
\* The invariant holds initially and is kept by every step.
LEMMA InitInv == Init => IInv
<1> SUFFICES ASSUME Init PROVE IInv
  OBVIOUS
<1>1. Types
  BY BlankType DEF Init, Types, Handle, NoCalls, Counter
<1>2. Turns
  BY DEF Init, Turns, Inside, Loaded
<1>3. SameUntilApart
  BY DEF Init, SameUntilApart, Loaded
<1> QED
  BY <1>1, <1>2, <1>3 DEF IInv

\* IInv is inductive.
LEMMA NextInv == IInv /\ [Next]_vars => IInv'
<1> SUFFICES ASSUME IInv, [Next]_vars PROVE IInv'
  OBVIOUS
<1>1. CASE UNCHANGED vars
  <2>1. Types' /\ Turns' /\ SameUntilApart'
    BY <1>1 DEF vars, IInv, Types, Turns, Inside, SameUntilApart
  <2> QED
    BY <2>1 DEF IInv
<1>2. ASSUME NEW p \in Process, NEW whole \in BOOLEAN, Read(p, whole)
      PROVE  IInv'
  BY <1>2, ReadStep
<1>3. ASSUME NEW p \in Process, NEW whole \in BOOLEAN, NEW byte \in Byte, Write(p, byte, whole)
      PROVE  IInv'
  BY <1>3, WriteStep
<1>4. ASSUME NEW p \in Process, NEW offset \in -1 .. Sectors + 1, NEW aligned \in BOOLEAN,
             NEW whence \in Whence, Seek(p, offset, aligned, whence)
      PROVE  IInv'
  <2>1. offset \in Int
    BY <1>4
  <2> QED
    BY <1>4, <2>1, SeekStep
<1>5. ASSUME NEW p \in Process,
             NEW cmd \in {"IOC_REQ_DEVICE_STATE", "IOC_REQ_DEVICE_RESET"}, Ioctl(p, cmd)
      PROVE  IInv'
  BY <1>5, IoctlStep
<1>6. ASSUME NEW p \in Process,
             \/ Refuse(p) \/ Admit(p) \/ ResetHead(p) \/ Opened(p)
             \/ Release(p) \/ Released(p) \/ Restart(p)
      PROVE  IInv'
  BY <1>6, RefuseStep, AdmitStep, ResetHeadStep, OpenedStep, ReleaseStep, ReleasedStep, RestartStep
<1>7. CASE Reload
  BY <1>7, ReloadStep
<1> QED
  BY <1>1, <1>2, <1>3, <1>4, <1>5, <1>6, <1>7 DEF Next

LEMMA Inductive == Spec => []IInv
BY InitInv, NextInv, PTL DEF Spec

(***************************************************************************)
(* Agreement: whatever the size of the disk and however many processes     *)
(* use it, the kernel driver and the user-space driver answer alike until  *)
(* one of the causes listed in Ddriver.                                    *)
(***************************************************************************)
THEOREM Agreement == Spec => []SameUntilApart
<1>1. IInv => SameUntilApart
  BY DEF IInv
<1> QED
  BY <1>1, Inductive, PTL

(***************************************************************************)
(* Exclusion: for any number of processes, only the race inside            *)
(* device_open lets two of them in, or leaves a closed device busy.        *)
(***************************************************************************)
THEOREM Exclusion == Spec => []Exclusive
<1>1. IInv => Exclusive
  BY DEF IInv, Turns, Inside, Exclusive
<1> QED
  BY <1>1, Inductive, PTL

\* Every reachable state of the two drivers is well typed.
THEOREM DriversTyped == Spec => []TypeOK
<1>1. IInv => TypeOK
  BY DEF IInv, Types, TypeOK, Device, Handle, IsFile
<1> QED
  BY <1>1, Inductive, PTL
===============================================================================
