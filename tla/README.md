# newfs, simplefs and the ddriver in TLA+

TLA+ models of the two FUSE file systems in `fs/newfs` and `fs/simplefs`, of the sector access below
them and of the two disk drivers in `driver/`, with TLC runs over small instances and TLAPS proofs
for every value of the constants. Paths are relative to the repository; line numbers are of the commit
at hand.

## 1. The system

| part | code | state it keeps | operations |
| --- | --- | --- | --- |
| newfs allocator | `fs/newfs/src/newfs_allocs.c` | `super.map_inode`, `super.map_data`, `super.max_ino`, `super.max_data`; per inode `data_block_no[]`, `data[]` | `allocate_inode`, `allocate_data`, `allocate_dentry` |
| newfs namespace | `newfs.c`, `newfs_util.c` | dentries and inodes in memory, their image in the inode area and the data area | `lookup`, `read_inode`, `sync_inode`, `newfs_mkdir`, `newfs_mknod`, `newfs_getattr`, `newfs_readdir`, `newfs_access` |
| newfs mount | `newfs.c` `newfs_init`, `newfs_destroy` | `super`, the super block, two bitmap blocks | mount on a new disk, mount on an old one, unmount |
| newfs file data | `newfs.c` `newfs_write`, `newfs_read`, `newfs_truncate` | `file_size`, `data[]`, `data_block_no[]` | read, write, truncate, a block allocated on demand |
| newfs driver access | `newfs_util.c` `newfs_driver_read`, `newfs_driver_write` | none of its own; the position of the one descriptor | byte ranges over sectors |
| simplefs | `fs/simplefs/src/sfs.c`, `sfs_utils.c` | one bitmap; a slot per inode number (its block, its data behind it); dentries and inodes in memory | the above and `sfs_unlink`, `sfs_rmdir`, `sfs_rename`, `sfs_symlink`, `sfs_readlink`, `sfs_drop_inode`; its own allocation, mount and sync |
| kernel ddriver | `driver/kernel_ddriver/ddriver.c` | `layout`, `head`, `cnt`, `open_count` | `device_open`, `device_release`, seek, read, write, ioctl as a character device |
| user ddriver | `driver/user_ddriver/ddriver.c` | a file as the disk, the counters of the library | the same calls as a library |
| demo, template, tests, size printers | `fs/demo`, `fs/template`, `fs/*/tests` | none | - |

How they interact. FUSE calls the handlers of newfs from its worker threads (`tests/main.sh:99` starts
newfs without `-s`) and newfs takes no lock; simplefs is started with `-s`, so its handlers run one
after the other. Every handler calls `lookup`, which loads the inode of the dentry it returns from the
disk when it is not in memory. Handlers change memory only; the disk is written by `newfs_destroy`
and `sfs_umount` (and, on a new disk, the root inode at mount). All disk access goes through
`*_driver_read` and `*_driver_write` over one descriptor of one of the two ddrivers.

What is hard:

- *Crash and restart.* Everything becomes durable in one go at unmount, in groups of writes (inodes and
  dentries, super block, bitmaps) that nothing ties together.
- *Limits.* A scan sets the bit before it compares with the limit, and compares for equality; the limits
  are not restored by a remount.
- *Failures nobody looks at.* The allocators return an error that every caller ignores.
- *Lazy loading.* Part of the tree is in memory, part on the disk; the dentry lists reverse at every load;
  an inode that is not loaded is not written back, and not loaded for a removal.
- *Pointers after a rename.* `sfs_rename` leaves inodes and dentries pointing to the dentry it removed.
- *Interleaving.* Two threads in a scan, in a size update, between a seek and its read; two processes in
  `device_open`.
- *Index arithmetic* of blocks, sectors and dentries in a block.
- *Two drivers for one interface* that must look the same to the file system.

What makes each part correct:

- allocator: a number has one owner; the bitmaps on the disk cover the tree on the disk; numbers lie in
  their areas; numbers are not taken away; only refused bits are wasted.
- namespaces: what the calls promised is what every handler answers, after any history of removals,
  renames, loads, remounts and crashes; the disk alone says the same; nothing reachable was freed.
- file data: what is read is what was written; the size covers the writes; the contents reach the disk.
- driver access: a byte range is read and written as if the disk were made of bytes.
- drivers: a process cannot tell which one it is linked to; one process has the device at a time.

## 2. Modules

| module | models | uses |
| --- | --- | --- |
| `Bitmap` | the first-fit scan of all allocators with its late equality test | - |
| `NewfsAllocs` | ownership of inode numbers and blocks over mounts, unmounts and crashes | `Bitmap` |
| `NewfsFile` | read, write, truncate as steps of threads; their life on the disk | `Bitmap` |
| `Newfs` | names, dentry lists, lazy loading, listings, recursive sync, crashes | `Bitmap` |
| `ByteDisk` | abstract: a disk of bytes | - |
| `DriverIO` | `newfs_driver_read/write` over sectors; refines `ByteDisk` | `ByteDisk` |
| `Simplefs` | simplefs: every handler, allocation, removal, mount, sync, crashes | `Bitmap` |
| `Ddriver` | the kernel and the user-space driver in step | - |
| `NewfsAllocs_proofs`, `NewfsFile_proofs`, `Newfs_proofs`, `Ddriver_proofs`, `DriverIO_proofs` | the theorems | their module, `TLAPS` |
| `NewfsTree_proofs` | theorems on the names of newfs | `Newfs_proofs` |
| `Simplefs_proofs`, `SimplefsShape_proofs` | theorems on the heap of simplefs, then on its numbers and its disk | `Simplefs`, `Simplefs_proofs` |
| `MC*` | instances for TLC | the module they are named after |

A bitmap is the set of the numbers of its 1 bits. A definition introduced by "A slip in X" is a variant
of X with a plausible bug; each property of a passing run has one that breaks it, which shows that the
property depends on that part of the code. `Spec` never uses them.

### NewfsAllocs

`tree` is the set of linked dentries with the inode of each (its number and block slots). `MountNew` and
`MountOld` are the two ways through `newfs_init`; `Create` is `newfs_mkdir` and `newfs_mknod` with the
failed allocation linked all the same; `AllocateData` is `allocate_data` called by a read or a write;
`SyncRoot`, `WriteSuper`, `WriteMapInode`, `WriteMapData` are the writes of `newfs_destroy` in order;
`Crash` is the death of the daemon at any point. Names, nesting and contents are left out: allocation
does not look at them. `sync_inode` of the whole tree is one step here: nothing on the disk is read
before the next mount, so for the bitmaps a crash in it is a crash before or after it; `Newfs` splits it.

### NewfsFile

A cell stands for a run of bytes, a block has `LOGIC_SZ` of them. A thread inside a handler is at one of
the steps `Loop`, `ScanMap`, `MarkMap`, `Place`, `Copy`, `LoadSize`, `StoreSize`, split where two
threads can come between (a load and a store of shared memory). The kernel serialises writes and
truncates of one file (the inode lock); reads are not serialised with them. The end of a read moves
`file_size` like that of a write (`newfs.c:531`). `Load` leaves in `data[]` what malloc returned - NULL
or any buffer - because the loop of `read_inode` that would fill it compares an unsigned number with
-1 and is never entered (`newfs_util.c:381`); so nothing is claimed of the contents after a remount.
The program that dies in a memcpy from or to NULL is `life = "crashed"`.

### Newfs

Dentries and inodes are numbered as they come to be in memory. The two areas of the disk are one array
of cells: an inode takes the first cell of its block, a dentry one cell, and `Cells` dentries fit a block
(7 in the code: 1024 / 136; the real eighth straddles two blocks, here it lies in the second). The
address arithmetic is that of `INO_OFS` and `DENTRY_OFS`, so wrong numbers hit what the code would
hit. `work` is the call stack of `sync_inode`: a frame per call with the inode and the dentry to be written
next (0 while the inode itself is not), and each step is one write or one return. `confused` is raised when
`read_inode` takes bytes for what they are not; the model does not go on from there, except to a
restart. A handler is called on a path when the kernel knows every directory above it and those are
loaded (`Reachable`): FUSE asks for each of them with `getattr` first. Handlers are not interleaved in
this module: the calls that change a directory or look a name up in it hold the kernel's lock on that
directory, so two creations or two first loads in one directory do not meet. A listing and a creation
between two of its calls do (`ListingMissesNone`). `Matches` keeps what `memcmp` over `strlen(fname)`
does: a dentry matches every component its name begins with (`newfs_util.c:273`).

`spoilt` records which of three mishaps have happened: `torn` (a crash inside `newfs_destroy` over a
disk that could already be mounted), `outside` (a number refused or outside its area), `overfull` (a
directory with more dentries than its block holds, `newfs_util.c:62`). The invariants of the tree are
claimed without them; `ConfusedNeedsMishap` says that there is no fourth way to misread the disk.

### Simplefs

Memory is a record of a heap, a bitmap and a limit. The heap numbers the dentries and inodes malloc has
given out and free has not taken back; 0 is the null pointer, a new one is numbered behind all that are
there (`Top`), and what nothing points to any more stays, as it does in the program: `sfs_drop_dentry`
frees nothing, `sfs_drop_inode` frees the dentries below and the inodes that are not directories. Each handler is one action, since there is one thread: creations (`Make`), `sfs_symlink`, `sfs_unlink`
and `sfs_rmdir` (`Unlink` over `sfs_drop_inode` and `sfs_drop_dentry`), `sfs_rename` (create, drop the
new inode, borrow the old one, drop the old dentry), `sfs_write`, `sfs_truncate`, and the loading that
every `sfs_lookup` does (`Getattr`). The handlers that only answer - `sfs_getattr`, `sfs_readdir`,
`sfs_read`, `sfs_readlink`, `sfs_access` - are operators of the memory, and the properties ask them. A
handler is called when the kernel has been told what every directory on the path and the path itself
is (`KnownAs`, `KnownAbsent`). `sfs_mount` is `FormatNew` or `MountOld`, then `ReadRoot`; `sfs_umount`
is the recursion of `sfs_sync_inode`: `work` is its stack, a frame per call with the number of the write
that comes next (0 for the inode itself, then its dentries or its data), and each step is one write; then
the super block and the bitmap.

`live` is what the calls have promised, as a tree of paths; `durable` the tree the last complete unmount
saved. `fault` is undefined behaviour the program meets: bytes taken for what they are not, a NULL
inode followed, a pointer freed that malloc never gave, a memcpy past its buffer. `spoilt` records
mishaps: `torn` and `overfull` as above, `refused` (no inode number left), `unloaded` (a directory
removed whose entries are not in memory, `sfs_utils.c:305`), `moved link` (a symbolic link renamed becomes
a regular file on the disk, `sfs.c:333`), `old link` (a link removed that was read from the disk,
`sfs_utils.c:345`), `long` (a write past the last data block, `sfs.c:238`). `Mishaps` bounds which may
happen: none where the answers are claimed, all where faults and the heap are examined.

### DriverIO and ByteDisk

A call of a thread is a seek, sector reads, the copy, and for a write a second seek and sector writes,
over the position `head` of the one descriptor. `ByteDisk` promises: a write changes the bytes of its
range, in any order and grouping, and nothing else; a read returns its range. The refinement maps the
sectors still to be written to the bytes still to be written. The module takes any number of threads,
but the refinement is checked and proved with one: with two, a seek of one can come between the seek and the read
of the other, as the code has no lock there.

### Ddriver

Processes make the same calls to both drivers, and `answer` holds what the two have said. Each call of
the kernel driver is an operator (`device_read`, ...) that yields a device and an answer, each call of
the library one (`ddriver_read`, ...) that yields a file, a descriptor and an answer. `device_open` and
`device_release` are split at the accesses to `open_count` (`Admit`, `ResetHead`, `Opened`; `Release`,
`Released`), since no lock is held there. `Reload` removes and loads the module; `Restart` is a new
process with new library counters. Positions count sectors. `apart` collects why the drivers need not
agree any more: a transfer at the end of the disk (`end`: only the kernel tests it), a reset or reload of
a disk with data (only the library's reset clears it, only the reload's disk is new), a seek from the end
(`whence`), counters of another process (`counters`), `EBUSY` (`busy`), two opens at once (`raced`).

## 3. Runs

| run | bounds | checks |
| --- | --- | --- |
| `NewfsAllocs` | 4-bit maps, areas of 2, 4 dentries, 2 slots | `TypeOK`, `OwnedOnce`, `DiskMapsCoverTree`, `InsideAreas`, `OnlyRefusedBitsLeak`, `GrantsAreKept` |
| `NewfsFile` | 1 file, 2 values, 3 operations of up to 4 cells, blocks of 2 cells | `TypeOK`, `ReadsReturnWrites`, `SlotsInStep`, `SizeCoversWrites` |
| `NewfsFileSync` | 2 files, 1 value, 2 operations | `CrashNeedsHoleOrFullDisk`, `SmallFilesReachDisk`, `BlocksNotShared` |
| `DriverIO` | 1 thread, every request of up to 4 bytes on a disk of 6, sectors of 2 | `TypeOK`, `ImplementsByteDisk`, `CallsReturn` |
| `Newfs` | 2 names, depth 3, 3 creations, 2 dentries per block | `TreeIsPromised`, `DiskIsPromised`, `LookupIsExact`, `ListingMissesNone` |
| `NewfsTight` | depth 2, 1 dentry per block, areas of 3 and 2 | `TypeOK`, `ConfusedNeedsMishap` |
| `Simplefs` | 2 names, depth 2, 4 changing calls, 6-bit map, 2 cells, no mishaps | `AnswersArePromised`, `DiskIsPromised`, `NumbersAreOwned` |
| `SimplefsTight` | 3-bit map, 2 inode numbers, 1 cell, 3 changing calls, all mishaps | `TypeOK`, `HeapIsSound`, `FaultNeedsMishap` |
| `Ddriver` | 2 processes, 2 sectors, 2 contents, 5 calls | `TypeOK`, `SameUntilApart`, `Exclusive` |

Why the bounds are enough to meet the interesting cases. `NewfsAllocs` refuses the limit, walks past it
and fills the map, before and after a remount. `NewfsFile` crosses a block border in every split, leaves
holes with truncate, overwrites, and uses all slots. `NewfsFileSync` fills the data area from two files.
`DriverIO` has requests that start and end inside a sector, at its border, cover several, and have size 0.
`Newfs` has a chain, siblings, and a directory loaded while its sibling is not, over any number of
remounts and crashes (only creations are bounded). `NewfsTight` gets numbers refused in the first
mount, granted outside after a remount, and one directory written over another. `Simplefs` builds two
levels, moves a directory with an entry, removes a whole directory and gives its numbers to others, with
loads, unmounts and crashes between any two calls (1,029,587 states). `SimplefsTight` meets each of the
seven mishaps and each of the four faults. `Ddriver` has two processes in `device_open` and
`device_release` at every pair of steps, positions one and more behind the end, and enough calls to
write, seek back and read before the drivers part. Symmetry permutes dentries in `NewfsAllocs`, names in
`Newfs*` and `Simplefs*`, processes in `Ddriver`; all are treated alike there.

Only the `NewfsFile*` runs do not check for deadlock: a dead process, the end of the second mount and
`MaxOps` are ends of behaviours there. Elsewhere a crash, a remount or an idle open is always possible.

The other runs show where the code does not do what its comments or tests say. Each has one property:

| run | property | what happens |
| --- | --- | --- |
| `NewfsFileRace` | `BlocksNotShared` | two threads find one bit clear (`newfs_allocs.c:97`) |
| `NewfsFileSpill` | `DataReachesDisk` | `file_size` bytes are written from every block (`newfs_util.c:71`) |
| `SimplefsPrefix` | `OnlyTheNamedGoes` | removing `a` removes `ab`: a component finds every name that begins with it (`sfs_utils.c:491`, against the comment at 437) |

Fairness is used in `DriverIO` only: weak fairness of each thread's steps inside a call. The code has no
wait there, so a thread that is scheduled goes on; nothing is assumed about new calls being made.

## 4. Proofs

All constants are arbitrary but for the named assumptions in the modules: bitmaps, areas, blocks and
slots are not empty, limits lie inside the bitmaps, NULL is not a buffer.

`NewfsAllocs_proofs`, for every set of dentries, every size of bitmaps and areas and number of slots:

| theorem | property | argument |
| --- | --- | --- |
| `TypeCorrect` | `TypeOK` | part of `IInv` |
| `Ownership` | `OwnedOnce` | below |
| `DiskRecovers` | `DiskMapsCoverTree` | part of `IInv` |
| `AreasHold` | `InsideAreas` | `LimitInv` |
| `GrantsKept` | `GrantsAreKept` | a grant is fresh, `Place` fills an empty slot |
| `NothingElseLeaks` | `OnlyRefusedBitsLeak` | `LeakInv` |

`OwnedOnce` alone is not inductive: that a grant is fresh needs the bitmap in memory to cover the tree,
and after a mount that needs the bitmap on the disk to cover the tree on the disk. So `IInv` adds
`MemoryInv` (the maps cover the tree), `DiskInv` (the same for a disk with the magic number, at each
stage of `newfs_destroy`), `NewDiskInv` (without the magic number both bitmaps on the disk are empty) and
`LimitInv` (below a set bit all bits are set, so while the limit bit is clear every number is below
it). `ScanGrant` and `AllocateInodeGrant` say what an allocation returns; then there is one lemma per
action. `LeakInv` adds that in the first mount every marked bit is accounted for; it needs that the root is
the only dentry not created since the mount, and a directory: `allocate_data` wastes a block when no slot
is free, which cannot happen to a file that was created in this mount.

`NewfsFile_proofs`, for every number of files, of cells in a block, of slots and of bits:

| theorem | property | threads in the handlers |
| --- | --- | --- |
| `FilesTyped` | `TypeOK` | any number |
| `SlotsFill` | `SlotsInStep` | any number |
| `SizesCover` | `SizeCoversWrites` | one at a time |
| `OneOwner` | `BlocksNotShared` | one at a time |
| `ReadsExact` | `ReadsReturnWrites` | one at a time |

`IInv` here is the type, `AtBlock` (past the head of the loop the block index is inside the inode) and
`SlotsInStep`. `SizeInv` adds that a size about to be stored covers the file and the request. `BlockInv`
says who owns a block - the inode in memory, or the one on the disk while the file is not loaded - that
owned blocks are marked, and that a block on its way into a slot has no owner yet. `ReadInv` says that every
written cell is in the block and at the offset division gives, and that a read has gathered as many
cells as its cursor has moved; `InBlock`, `SameBlock` and `CellOfBlock` are the arithmetic, for any block
size. The hypothesis `OneAtATime` cannot be dropped: `NewfsFileRace` refutes `OneOwner` with two threads,
and the stale size that a read stores beside a write breaks `SizesCover`.

On holes and on the disk:

| theorem | property | threads in the handlers |
| --- | --- | --- |
| `CrashIsExplained` | `CrashNeedsHoleOrFullDisk` | any number |
| `SmallFilesSaved` | `SmallFilesReachDisk` | one at a time |

`NoHole` says, while no truncate has made a file grow and the data area is not full (`Unharmed`), that every
block which ends at or before the size of a file is there, and the same for the cursor of every thread in a
handler. So the block a cursor is in is there, or is the one to be allocated now, and the memcpy has its
buffer. That the size can be stale and that two threads can be in one scan does not matter here: slots are
filled and never emptied while the file is loaded. `SavedInv` follows `newfs_destroy` file by file: what is still in `sync`
is in memory as it was, what has left it is on the disk in blocks that no file written later owns, which
needs `BlocksNotShared` and with it one call at a time.

`Newfs_proofs` and on top of it `NewfsTree_proofs`, for every set of names, depth, number of creations, of bits and of dentries in a block, and every pair of areas:

| theorem | property | module | assumes |
| --- | --- | --- | --- |
| `NamespaceTypes` | `TypeOK` | `Newfs_proofs` | - |
| `BytesAreTakenRightly` | `ConfusedNeedsMishap` | `Newfs_proofs` | - |
| `TreeIsKept` | `TreeIsPromised` | `NewfsTree_proofs` | `NamesApart` |
| `DiskIsKept` | `DiskIsPromised` | `NewfsTree_proofs` | `NamesApart` |
| `LookupFindsWhatIs` | `LookupIsExact` | `NewfsTree_proofs` | `NamesApart` |
| `ListingsAreWhole` | `ListingMissesNone` | `NewfsTree_proofs` | `NamesApart` |

*Types.* `TypeInv` is `TypeOK` and `StageOk`, which says what `super`, the root and the stack are at each
stage of a mount. It holds with the mishaps: whatever `read_inode` takes for dentries, the lists stay in
range or the model stops at `confused`. `ReadType` is the lemma on a load, `WalkType` the one on a walk.

*Shape.* The inodes of a mounted tree are in two places: those loaded, and those only on the disk. `ShapeInv`
says that there is a set U of numbers, the stored ones, with `Stored` (each has its inode in its block and
its dentries in its data block, and they lead to numbers in U, each once) and `Linked` (the dentries in
memory that are not loaded lead to numbers in U; loaded ones to an inode; numbers and blocks are
owned once, between memory and disk together, and are marked). `read_inode` takes a number out of U and
loses nothing: the disk is left as it is. For a `newfs_destroy` under way `Synced` says how much of the recursion is done: E is the set of
inodes written with all their dentries, each frame of the stack has written the dentries before its next one,
and what these lead to is in E, on the stack or not loaded. It depends on each write falling on cells of
the inode it is for (`OwnBlocks`), so that no write undoes another. When the stack is empty, E and U together
are a `Whole` disk. `torn`, `outside` and `overfull` are exactly the ways to break this.

*Names.* `TreeInv` adds where each number is: `at` and `kind` give the numbers in use their path and type,
no two the same path. What is in a list is one name below its directory, loaded (`BelowLoaded`) or stored
(`BelowStored`), everything but the root is in a list (`Covered`), and the places are the tree that was promised. `SavedTree`
says this of the disk alone, with only the root dentry in memory; the writes of `newfs_destroy` lead from
the one to the other, once every loaded inode is known to be in E (`AllWritten`). `Placement` derives the paths that are reached level by level from these
labels. A lookup's walk is at the number whose place is the path so far (`Follows`), and ends at the
path asked for or at the first component that is missing (`Ends`). `Underway` is the part of a
listing: a name there was at its start has been returned or stands behind the offset; a creation puts its dentry at the
head and moves the others one further.

`NamesApart` says that `StartsWith` holds of no two different names. It cannot be dropped: `lookup` compares
`strlen(fname)` bytes only (`newfs_util.c:273`), so with `a` and `ab` in one directory the walk to `ab`
may take `a`'s way, which `SimplefsPrefix` shows for the same comparison in simplefs. The run
`Newfs` has names that satisfy it. The types and the shape are proved without it.

`Ddriver_proofs`, for every number of processes, disk size and contents:

| theorem | property | argument |
| --- | --- | --- |
| `DriversTyped` | `TypeOK` | one lemma per call of either driver |
| `Agreement` | `SameUntilApart` | below |
| `Exclusion` | `Exclusive` | `Turns` |

`Turns` says, until two opens race, who is inside: at most one process is not idle, `open_count` is 0
until it has counted itself and 1 from then on, and what it has loaded is what is there. With it
`SameUntilApart` is inductive: every call of the one process inside moves both sides alike unless it
adds a cause.

`DriverIO_proofs`, for every size of sectors, of the disk and of requests, and one thread (`OneCaller`):

| theorem | property | argument |
| --- | --- | --- |
| `DriverImplementsByteDisk` | `ImplementsByteDisk` | below |
| `TypesOfOneCaller` | `TypeOK` | part of `IInv` |

`CallInv` says how far a call is: the position is the aligned offset and the bytes done, `temp` holds what
the disk had there, and from the copy of a write on, what the sectors are to hold (`NewByte`: the request's
bytes in its range, the disk's beside it). `Multiples`, `Rounding` and `Aligned` are the arithmetic of
`ROUND_DOWN` and `ROUND_UP`: as long as something is left, a whole sector lies on the disk at the position,
so the branch of `ReadSector` behind the end is never taken. There is one lemma per action for the
invariant (`SeekCall`, ...) and one for the refinement (`SeekStep`, ...): the copy of a read is a `Fetch`
of the byte disk, a sector written is a `Put` of the part of the range in it or a stutter, start and return
are theirs, and all else is invisible. Requests reach at most to the end of the disk, as `Start` demands.

`Simplefs_proofs` and on top of it `SimplefsShape_proofs`, for every set of names, depth, number of calls, of
bits and of cells in a slot, and any calls, mounts and crashes:

| theorem | property | module | mishaps |
| --- | --- | --- | --- |
| `TypeCorrect` | `TypeOK` | `Simplefs_proofs` | any |
| `NothingFreedIsReached` | `HeapIsSound` | `Simplefs_proofs` | any |
| `TreesStayWhole` | `ShapeInv` | `SimplefsShape_proofs` | none |
| `NoFaultWithoutMishap` | `FaultNeedsMishap` | `SimplefsShape_proofs` | until the first |

*The heap.* `HeapIsSound` speaks of what the root leads to, and is not inductive: `sfs_rename` leaves two
dentries and an inode that point to each other crosswise, and whether a later call may follow such a pointer
depends on who is listed. `Heap` is about the dentries that are listed anywhere, reachable or not: each is in
one list and once (`ListedOnce`) and still allocated (`Allocated`), its inode is its own (`Lead`) and points
back to a dentry with the same inode, which need not be the listed one (`Back`), and its parent pointer is the
dentry its directory points back to (`Parents`). `sfs_drop_inode` frees a whole subtree: `BelowInode` is a
recursion over levels, and `BelowLinked` shows by least counterexample that what it meets is listed in what
goes and nowhere else (`DropInode`, `Shed`). Between the two halves of `sfs_unlink` and `sfs_rename` one dentry
leads where it should not: `HeapBut` is the heap but for that one. `WalkExists`, `LookupFound` and
`LookupAbsent` say what a walk meets, for lists in any order; `MadeFound` that the lookup `sfs_symlink` and
`sfs_rename` do after a creation finds the new dentry. That needs `NameAssumption` only: the new name is at the
head of the list.

*The numbers and the disk.* `ShapeInv` is claimed until a mishap: there is a set U of numbers that are on the disk
only, `Stored` (each has its inode at the head of its slot and no more dentries behind it than fit, which lead
to numbers in U, each once), `Owned` (each listed dentry has a marked number of its own, in U exactly when it is
not loaded, and its inode has the same), `Apart` (no number belongs to both). Every handler keeps it: a load moves a number
out of U, a removal takes the numbers of loaded inodes out of the bitmap and leaves U as it is, a rename
gives a number from one dentry to another and returns the one it took. A number that is free again may be given out
while its slot still holds the old contents; that is harmless because no stored dentry leads there (`Apart`).
For the recursion of `sfs_umount`, `Synced` counts what the calls that have returned (E) and those on the stack have
written (`Done`); `Writing` says that a write for an inode changes its slot only and to what belongs there, which is
where `SFS_INO_OFS` and the room in a slot come in (`SlotAddress`). An empty stack with the root in E is a `Whole`
tree, and the bitmap that is written last is the one that covers it. From `ShapeInv` follows that what `sfs_read_inode` and
`sfs_drop_inode` meet is what they take it for: `FaultNeedsMishap`. The seven mishaps are exactly the ways out.

Only model-checked: `AnswersArePromised`, `DiskIsPromised` and `NumbersAreOwned` of `Simplefs`, for which the
paths have to be added to `ShapeInv` as `TreeInv` does for newfs; `CallsReturn` of `DriverIO`, which is liveness and so beyond the provers; and what `Newfs`
does with names that begin with one another, of which nothing is claimed. Induction over numbers - the steps
of a walk, the levels of a tree, the frames of a stack - is done by least counterexample (`Least`), since the
library's induction theorems cannot be used here; what a fold over a list computes would need induction
over data and is nowhere relied on.

## 5. Not modelled, and what is left

Not modelled, and why:

- errors of the device: newfs and simplefs ignore the results of the ddriver calls;
- the 8-byte copy of the path in `lookup` (`newfs_util.c:239`) and `new_dentry` without a return statement
  (`types.h:191`): properties of the C memory; the models take the outcome of the builds at hand;
- attributes and times, `open`, `opendir`, `utimens`: no state, or none that is read;
- the delays and the log of the user-space driver;
- `sfs_debug`, the demo, the template, the test scripts, the size printers: no state of their own;
- a removal between two calls of one listing of simplefs (`sfs.c:163`): a listing is one question there.

Left to do, in this order:

1. `FsSpec`: one abstract file system (a map of paths that survives a clean unmount) with `Newfs` and
   `Simplefs` shown to implement it by refinement, in place of the invariants over `live` and `durable`.
2. `lookup` and `read_inode` as steps of threads in different directories, sharing the descriptor.
3. The paths of `Simplefs`: labels of its numbers as in `NewfsTree_proofs`, moved by `sfs_rename` and taken away
   by `sfs_unlink` and `sfs_rmdir`, from which its three other invariants would follow.
