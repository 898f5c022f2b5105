-------------------------------- MODULE Ddriver --------------------------------
(***************************************************************************)
(* The two drivers a file system can be linked to, side by side: the       *)
(* character device of kernel_ddriver and the library of user_ddriver,     *)
(* which keeps the disk in a file.  Processes make the same calls to both, *)
(* and answer holds what the two have said.  Positions count sectors.      *)
(*                                                                         *)
(* device_open and device_release hold no lock: the test of open_count and *)
(* the load and the store of open_count++ are steps of their own.  Nothing *)
(* is claimed of the calls of two processes that got in together, so those *)
(* are not split.                                                          *)
(***************************************************************************)
EXTENDS Integers, FiniteSets

CONSTANTS
    Process,   \* processes that use the disk
    Sectors,   \* CONFIG_DISK_SZ in sectors
    Byte,      \* the contents of a sector
    Zero,      \* a sector of zeros
    MaxCalls   \* bound: calls made

ASSUME DiskAssumption == Sectors \in Nat \ {0} /\ Zero \in Byte
ASSUME CallsAssumption == MaxCalls \in Nat

VARIABLES
    device,  \* the kernel's struct ddriver
    pc,      \* where a process is in device_open and device_release
    seen,    \* the open_count a process has loaded
    file,    \* the file behind the user-space driver
    fd,      \* per process: position of its descriptor, counters of the library
    answer,  \* what the last call returned from either driver
    apart,   \* history: why the two need not agree any more
    calls    \* bound: calls so far

vars == <<device, pc, seen, file, fd, answer, apart, calls>>
-------------------------------------------------------------------------------
Disk    == 0 .. Sectors - 1
Blank   == [s \in Disk |-> Zero]
Counter == [read : Nat, write : Nat, seek : Nat]
NoCalls == [read |-> 0, write |-> 0, seek |-> 0]
Loaded  == [layout |-> Blank, head |-> 0, cnt |-> NoCalls, open_count |-> 0]

Says(code, value) == [code |-> code, value |-> value]

(***************************************************************************)
(* The drivers part when: a transfer is tried at the end of the disk; a    *)
(* disk with data is reset, or the module loaded anew; a seek is relative  *)
(* to the end; a process opens whose library has counted other calls; a    *)
(* process is told EBUSY; two processes open at the same time.             *)
(***************************************************************************)
Cause == {"end", "reset", "reload", "whence", "counters", "busy", "raced"}

Because(condition, cause) == IF condition THEN {cause} ELSE {}

TypeOK ==
    /\ device \in [layout : [Disk -> Byte], head : Nat, cnt : Counter, open_count : Int]
    /\ pc \in [Process -> {"idle", "admitted", "counting", "open", "closing"}]
    /\ seen \in [Process -> Int]
    /\ Disk \subseteq DOMAIN file /\ \A s \in DOMAIN file : s \in Nat /\ file[s] \in Byte
    /\ fd \in [Process -> [pos : Nat, cnt : Counter]]
    /\ apart \subseteq Cause
    /\ calls \in 0 .. MaxCalls

Init ==
    /\ device = Loaded
    /\ pc = [p \in Process |-> "idle"] /\ seen = [p \in Process |-> 0]
    /\ file = Blank
    /\ fd = [p \in Process |-> [pos |-> 0, cnt |-> NoCalls]]
    /\ answer = [kernel |-> Says("ok", <<>>), user |-> Says("ok", <<>>)]
    /\ apart = {} /\ calls = 0
-------------------------------------------------------------------------------
(***************************************************************************)
(* kernel_ddriver: each call yields the new device and an answer.          *)
(***************************************************************************)
check_valid(d, whole) ==
    IF d.head >= Sectors THEN "EINVAL" ELSE IF ~whole THEN "EIO" ELSE "ok"

device_read(d, whole) ==
    IF check_valid(d, whole) # "ok"
    THEN [device |-> d, answer |-> Says(check_valid(d, whole), <<>>)]
    ELSE [device |-> [d EXCEPT !.head = @ + 1, !.cnt.read = @ + 1],
          answer |-> Says("ok", <<d.layout[d.head]>>)]

\* A slip in device_write: the head stays where it is.
device_write_InPlace(d, byte, whole) ==
    IF check_valid(d, whole) # "ok"
    THEN [device |-> d, answer |-> Says(check_valid(d, whole), <<>>)]
    ELSE [device |-> [d EXCEPT !.layout[d.head] = byte, !.cnt.write = @ + 1],
          answer |-> Says("ok", <<>>)]

device_write(d, byte, whole) ==
    IF check_valid(d, whole) # "ok"
    THEN [device |-> d, answer |-> Says(check_valid(d, whole), <<>>)]
    ELSE [device |-> [d EXCEPT !.layout[d.head] = byte, !.head = @ + 1, !.cnt.write = @ + 1],
          answer |-> Says("ok", <<>>)]

\* A slip in Target: the sectors are counted from 1.
TargetFromOne(whence, offset, here, end) ==
    CASE whence = "SEEK_SET" -> offset - 1
      [] whence = "SEEK_CUR" -> here + offset
      [] whence = "SEEK_END" -> end

\* Where a seek leads; end is where the driver takes the end of the disk to be.
Target(whence, offset, here, end) ==
    CASE whence = "SEEK_SET" -> offset
      [] whence = "SEEK_CUR" -> here + offset
      [] whence = "SEEK_END" -> end

\* Any other whence leaves the head alone, and is counted.
device_seek(d, offset, aligned, whence) ==
    IF ~aligned THEN [device |-> d, answer |-> Says("EINVAL", <<>>)]
    ELSE LET head == Target(whence, offset, d.head, d.head)
         IN  [device |-> [d EXCEPT !.head = head, !.cnt.seek = @ + 1],
              answer |-> Says("ok", <<head>>)]

Counted(cnt) == Says("ok", <<cnt.read, cnt.write, cnt.seek>>)

\* The reset leaves the data on the disk.
device_ioctl(d, cmd) ==
    IF cmd = "IOC_REQ_DEVICE_STATE" THEN [device |-> d, answer |-> Counted(d.cnt)]
    ELSE [device |-> [d EXCEPT !.head = 0, !.cnt = NoCalls], answer |-> Says("ok", <<>>)]

(***************************************************************************)
(* user_ddriver: each call yields the new file, the descriptor and the     *)
(* library's counters, and an answer.  read(2) at the end of the file      *)
(* leaves the buffer alone and write(2) extends the file, unnoticed.       *)
(***************************************************************************)
ddriver_read(f, h, whole) ==
    IF ~whole THEN [file |-> f, fd |-> h, answer |-> Says("EIO", <<>>)]
    ELSE [file |-> f,
          fd |-> [h EXCEPT !.pos = IF h.pos \in DOMAIN f THEN @ + 1 ELSE @, !.cnt.read = @ + 1],
          answer |-> Says("ok", IF h.pos \in DOMAIN f THEN <<f[h.pos]>> ELSE <<>>)]

ddriver_write(f, h, byte, whole) ==
    IF ~whole THEN [file |-> f, fd |-> h, answer |-> Says("EIO", <<>>)]
    ELSE [file |-> [s \in DOMAIN f \cup 0 .. h.pos |->
                       IF s = h.pos THEN byte ELSE IF s \in DOMAIN f THEN f[s] ELSE Zero],
          fd |-> [h EXCEPT !.pos = @ + 1, !.cnt.write = @ + 1],
          answer |-> Says("ok", <<>>)]

ddriver_seek(f, h, offset, aligned, whence) ==
    IF ~aligned THEN [file |-> f, fd |-> h, answer |-> Says("EINVAL", <<>>)]
    ELSE LET pos == Target(whence, offset, h.pos, Cardinality(DOMAIN f))
         IN  [file |-> f, fd |-> [h EXCEPT !.pos = pos, !.cnt.seek = @ + 1],
              answer |-> Says("ok", <<pos>>)]

\* The reset writes zeros over the disk.
ddriver_ioctl(f, h, cmd) ==
    IF cmd = "IOC_REQ_DEVICE_STATE" THEN [file |-> f, fd |-> h, answer |-> Counted(h.cnt)]
    ELSE [file |-> [s \in DOMAIN f |-> IF s \in Disk THEN Zero ELSE f[s]],
          fd |-> [pos |-> 0, cnt |-> NoCalls], answer |-> Says("ok", <<>>)]
-------------------------------------------------------------------------------
Calling == calls < MaxCalls /\ calls' = calls + 1

Call(p, kernel, user, causes) ==
    /\ pc[p] = "open" /\ Calling
    /\ device' = kernel.device
    /\ file' = user.file /\ fd' = [fd EXCEPT ![p] = user.fd]
    /\ answer' = [kernel |-> kernel.answer, user |-> user.answer]
    /\ apart' = apart \cup causes
    /\ UNCHANGED <<pc, seen>>

AtEnd == Because(device.head >= Sectors, "end")

Read(p, whole) ==
    Call(p, device_read(device, whole), ddriver_read(file, fd[p], whole), AtEnd)

Write(p, byte, whole) ==
    Call(p, device_write(device, byte, whole), ddriver_write(file, fd[p], byte, whole), AtEnd)

\* No seek before the first sector is made: the kernel's head would leave the disk.
Seek(p, offset, aligned, whence) ==
    /\ whence = "SEEK_SET" => offset >= 0
    /\ whence = "SEEK_CUR" => device.head + offset >= 0 /\ fd[p].pos + offset >= 0
    /\ Call(p, device_seek(device, offset, aligned, whence),
               ddriver_seek(file, fd[p], offset, aligned, whence),
               Because(aligned /\ whence = "SEEK_END", "whence"))

Ioctl(p, cmd) ==
    Call(p, device_ioctl(device, cmd), ddriver_ioctl(file, fd[p], cmd),
         Because(cmd = "IOC_REQ_DEVICE_RESET" /\ device.layout # Blank, "reset"))
-------------------------------------------------------------------------------
(***************************************************************************)
(* device_open: the test, the reset of the head, and open_count++ in two   *)
(* steps.  The user-space driver opens its file whoever else has it.       *)
(***************************************************************************)
Refuse(p) ==
    /\ pc[p] = "idle" /\ Calling
    /\ device.open_count # 0
    /\ answer' = [kernel |-> Says("EBUSY", <<>>), user |-> Says("ok", <<>>)]
    /\ apart' = apart \cup {"busy"}
    /\ UNCHANGED <<device, pc, seen, file, fd>>

Admit(p) ==
    /\ pc[p] = "idle" /\ Calling
    /\ device.open_count = 0
    /\ pc' = [pc EXCEPT ![p] = "admitted"]
    /\ apart' = apart \cup Because(\E q \in Process : pc[q] \in {"admitted", "counting"}, "raced")
    /\ UNCHANGED <<device, seen, file, fd, answer>>

ResetHead(p) ==
    /\ pc[p] = "admitted"
    /\ device' = [device EXCEPT !.head = 0]
    /\ seen' = [seen EXCEPT ![p] = device.open_count]
    /\ pc' = [pc EXCEPT ![p] = "counting"]
    /\ UNCHANGED <<file, fd, answer, apart, calls>>

Opened(p) ==
    /\ pc[p] = "counting"
    /\ device' = [device EXCEPT !.open_count = seen[p] + 1]
    /\ fd' = [fd EXCEPT ![p].pos = 0]
    /\ answer' = [kernel |-> Says("ok", <<>>), user |-> Says("ok", <<>>)]
    /\ apart' = apart \cup Because(fd[p].cnt # device.cnt, "counters")
    /\ pc' = [pc EXCEPT ![p] = "open"]
    /\ UNCHANGED <<seen, file, calls>>

\* device_release, in the two steps of open_count--; also when the process ends.
Release(p) ==
    /\ pc[p] = "open"
    /\ seen' = [seen EXCEPT ![p] = device.open_count]
    /\ pc' = [pc EXCEPT ![p] = "closing"]
    /\ UNCHANGED <<device, file, fd, answer, apart, calls>>

\* A slip in Released: the count is left as it is.
ReleasedNot(p) ==
    /\ pc[p] = "closing"
    /\ pc' = [pc EXCEPT ![p] = "idle"]
    /\ UNCHANGED <<device, seen, file, fd, answer, apart, calls>>

Released(p) ==
    /\ pc[p] = "closing"
    /\ device' = [device EXCEPT !.open_count = seen[p] - 1]
    /\ pc' = [pc EXCEPT ![p] = "idle"]
    /\ UNCHANGED <<seen, file, fd, answer, apart, calls>>

\* A new process: the library's counters begin at zero.
Restart(p) ==
    /\ pc[p] = "idle"
    /\ fd' = [fd EXCEPT ![p].cnt = NoCalls]
    /\ UNCHANGED <<device, pc, seen, file, answer, apart, calls>>

\* ddriver_exit and ddriver_init; try_module_get keeps the module while it is open.
Reload ==
    /\ \A p \in Process : pc[p] = "idle"
    /\ device' = Loaded
    /\ apart' = apart \cup Because(device.layout # Blank, "reload")
    /\ UNCHANGED <<pc, seen, file, fd, answer, calls>>

Whence == {"SEEK_SET", "SEEK_CUR", "SEEK_END"}

Next ==
    \/ \E p \in Process :
          \/ \E whole \in BOOLEAN : Read(p, whole) \/ \E byte \in Byte : Write(p, byte, whole)
          \/ \E offset \in -1 .. Sectors + 1, aligned \in BOOLEAN, whence \in Whence :
                Seek(p, offset, aligned, whence)
          \/ \E cmd \in {"IOC_REQ_DEVICE_STATE", "IOC_REQ_DEVICE_RESET"} : Ioctl(p, cmd)
          \/ Refuse(p) \/ Admit(p) \/ ResetHead(p) \/ Opened(p)
          \/ Release(p) \/ Released(p) \/ Restart(p)
    \/ Reload

Spec == Init /\ [][Next]_vars
-------------------------------------------------------------------------------
(***************************************************************************)
(* SameUntilApart: until one of the causes listed above, no process can    *)
(* tell which driver it is linked to: every answer (data, position, errors *)
(* and counters) is the same, and so are the disks, over seeks behind the  *)
(* end, refused transfers, reopenings and restarts.                        *)
(***************************************************************************)
SameUntilApart ==
    apart = {} =>
        /\ answer.kernel = answer.user
        /\ device.layout = file
        /\ \A p \in Process :
              pc[p] = "open" => device.head = fd[p].pos /\ device.cnt = fd[p].cnt

(***************************************************************************)
(* Exclusive: the kernel device lets two processes in only when one passes *)
(* the test of open_count while the other is between its test and its      *)
(* count; a close never does it.  Short of that, a device nobody uses can  *)
(* be opened again.                                                        *)
(***************************************************************************)
Exclusive ==
    "raced" \notin apart =>
        /\ \A p, q \in Process : pc[p] # "idle" /\ pc[q] # "idle" => p = q
        /\ (\A p \in Process : pc[p] = "idle") => device.open_count = 0
===============================================================================
