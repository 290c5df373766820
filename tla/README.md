# Verification of open_ext4_for_mac

A TLA+ model of the parts of this repository in which correctness depends on
the order of events, on failures half-way or on boundaries that a test hardly
meets: several FSKit operations in flight at once, a crash between two writes,
a call that fails inside a batch, a tree that splits while the volume fills up,
a superblock whose numbers do not fit together. The modules are translated from
the source; `PROJECT.json` maps every definition to the lines it stands for.

## 1. The system

`ext4` for macOS is a file system extension written in Swift (`Extension/`),
which FSKit calls, over a C core: a bridge (`Core/shim/ext4_bridge.c`) and a
heavily changed lwext4 (`Core/lwext4/src`). A menu bar application (`App/`)
mounts and unlocks volumes.

| Component | State | Operations | Hard part | What makes it correct |
|---|---|---|---|---|
| Open/unlink bookkeeping (`Ext4Volume*.swift`) | `openCounts`, `pendingRelease`, `trimOnDeactivate` under `itemsLock` | open, close, remove, rename, link, deactivate, reclaim, preallocate, unmount | operations suspend between the lock and the executor; anything may run in between | an open inode is never freed, an inode without names is always owed a release, an unmount leaves none |
| Executor (`Ext4Executor.swift`) | a serial queue | `run` | it serialises core calls, not operations | one core call at a time |
| Mount lifecycle (`Ext4FileSystem*.swift`, `BlockDeviceBridge.swift`) | bridge, volume, last probed resource, open devices | probe, load, unload, activate, check, format | load, unload and format racing, a device closed under a queued call | at most one mounted device, none used after it is closed, nothing written that was not asked for |
| Gate (`ext4b_probe`, `ext4_super.c`, `ext4_fs.c`) | superblock on the medium and in memory | probe, mount, replay, audit | the gate and the driver read the same numbers independently | what passes stays within its tables, and a verdict is true |
| Names (`ext4_bridge.c`) | directories, link counts, orphan chain through `i_dtime`, open batch | create, link, symlink, unlink, rename, release, sweep | any call below may fail, and a failure in a batch is committed | names lead to inodes in use, the tree is a tree, everything without names is on the chain |
| File data (`ext4_bridge.c`) | mapping, size, eight append reservations | read, write, truncate, preallocate, trim | data reaches the medium before the mapping commits | a file reads as what was reported written, before and after a crash |
| Extent trees (`ext4_extent.c`) | a B+ tree per file | map, allocate, preallocate, mark written, remove | splits, merges, running out of space | a plain function from logical to physical blocks |
| Directories (`ext4_dir.c`, `ext4_dir_idx.c`) | entries in leaves, a hash index | find, add, remove, list | splits, collisions, removals between pages of a listing | lookups and listings agree with what was created |
| Space (`ext4_balloc.c`, `ext4_ialloc.c`, `ext4_fs.c`) | bitmaps, descriptors, superblock totals, indirect blocks | allocate, free, initialise a group | three records of one fact, damaged bitmaps, the last group | they stay one account, and space is found where it is |
| Extended attributes (`ext4_xattr.c`, `Ext4Volume+ReadWrite.swift`) | areas in the inode and in a shared block | get, list, set, remove | moving between two areas, shared blocks, look-then-write | a map from names to values per file |
| Metadata journal (`ext4_journal.c`) | ring of log blocks, tail, checkpoint queue, running transaction | dirty, revoke, commit, checkpoint, stop, recover, start | a volatile write cache, the ring wrapping, failed writes | after a crash the metadata is that of a commit |
| Buffer cache (`ext4_bcache.c`, `ext4_blockdev.c`) | buffers, references, LRU, dirty list, a latched error | get, set, flush, shake, invalidate, write-back mode, sweep | eviction writes home whenever it likes, file data goes past it, a release cannot report a failed write | readers get the latest content, nothing uncommitted goes home, no failed write goes unnoticed |
| LUKS (`Core/crypto/luks.c`, `Ext4LUKS*.swift`) | headers, keyslots, key store | parse, unlock, remember | two header copies, stale keys | the newest valid header wins |
| Stores (`Shared/`) | files and keychain items shared by two processes | append, trim, read | two writers | no event lost |

Interactions. FSKit calls the extension concurrently. Each operation takes
`itemsLock` for a dictionary access and hands a block to the executor for each
core call, suspending in between. The bridge wraps every modifying call in a
transaction of lwext4's journal and lets calls share one; a call that fails
alone is rolled back, one that fails after others is committed as far as it got
(`txn_finish`). The journal writes through the block device bridge and calls
its barrier. At mount the bridge probes the superblock, replays the journal,
probes again and then frees what the orphan list names.

## 2. Modules

| Module | Models | Instance |
|---|---|---|
| `OpenUnlink` | when an inode that has lost its last name may be freed | `MC_OpenUnlink` |
| `OpenUnlink_proofs`, `Release_proofs` | theorems about it, with proofs | |
| `Journal` | the metadata journal over a disk with a volatile cache | `MC_Journal` |
| `Journal_proofs` | theorems about it, with proofs | |
| `Namespace` | names, link counts, the orphan chain and the transactions they change in | `MC_Namespace` |
| `Namespace_proofs` | theorems about it, with proofs | |
| `FileIO` | the bytes of files: writes, truncates, preallocation, reservations, crashes | `MC_FileIO` |
| `BlockMap` | what an extent-mapped file promises: a function | |
| `Extents` | the extent tree, which implements `BlockMap` | `MC_Extents` |
| `DirIndex` | leaves, hash index and paged listing of one directory | `MC_DirIndex` |
| `Alloc` | bitmaps, counts, lazily initialised groups, indirect blocks | `MC_Alloc` |
| `AttrMap` | what extended attributes promise: a map per file | |
| `Xattr` | attribute areas and shared blocks, which implement `AttrMap` | `MC_Xattr` |
| `Xattr_proofs` | theorems about it, with proofs | |
| `Mount` | the life of a volume between FSKit's concurrent calls | `MC_Mount` |
| `Mount_proofs` | theorems about it, with proofs | |
| `Gate` | the probe, the mount behind it and the replay between them | `MC_Gate` |
| `Gate_proofs` | theorems about it, with proofs | |
| `Cache` | the buffer cache, what writes and reads past it, and failing writes | `MC_Cache` |
| `Cache_proofs` | theorems about it, with proofs | |

Windows. Most modules have a constant `Windows` (in `OpenUnlink`,
`KernelRaces`): the cases in which the code is known to go wrong, found by
running the model and, where it could be done, confirmed by running the driver
on an image and `e2fsck` on the result. A case in the set is kept in. The
passing runs leave these cases out, other than where §3 says so: what they show
holds outside of them and says nothing about them. What each case is stands
where the constant is declared. The table has all of them, the property that
fails when a run is repeated with that case alone, and the line of the hazard
in `PROJECT.json` that describes it; the cases without a line are described
only here and in their module.

| Module | Case | What fails with it | Hazard |
|---|---|---|---|
| `OpenUnlink` | `open`, `reopen` | `NoOpenInodeFreed` | `Ext4Volume+Operations.swift:492` |
| | `rename` | `NoOpenInodeFreed` | `ext4_bridge.c:3814` |
| | `unmount` | `NothingLeftBehind` (the four invariants of `open_unlink` hold with it) | `Ext4Volume.swift:157` |
| | `preallocate` | `NothingLeftBehind` | `Ext4Volume+Preallocate.swift:62` |
| `Journal` | `restart` | `Recovered` | `ext4_journal.c:2084` |
| | `reuse` | `Recovered` | `ext4_balloc.c:244` |
| | `stop`, `torn` | `Recovered`; with `torn` its part `NoStaleCommit` | `ext4_journal.c:2364` |
| | `seal` | `Recovered` | `ext4_journal.c:3481` |
| | `full` | nothing: it is in the run, and nothing is claimed behind it (`gaveUp`) | `ext4_journal.c:3481` |
| | `lapped` | `Recovered` | `ext4_journal.c:2517` |
| `Namespace` | `samedir` | `CappedWhenFull` | `ext4_bridge.c:2811` |
| | `halfrename` | `NamesSound` | `ext4_bridge.c:3833` |
| | `sweep` | `OrphanChain` | `ext4_bridge.c:3435` |
| | `samefile`: a rename of a file onto another of its names leaves that name in the directory twice | `LinkCounts` | |
| | `dxinit`: the create frees the inode and, in a batch, leaves the name that leads to it | `NamesSound` | |
| | `commit`: the operations of the batch that had returned are lost with the one that failed, or that one is kept | `ProtectionHolds` | |
| | `Linear` not empty: a directory that has no hash index counts its links past the limit, and the count wraps (`ext4_fs.c:1939`) | nothing, as long as the count has a value for every link (`Width` 16); `OrphanChain` once a directory gets more (`Width` 5, three names) | |
| `FileIO` | `overtake` | `FilesRight` | `ext4_bridge.c:4376` |
| | `lostrun` | `FilesRight` | `ext4_bridge.c:4409` |
| | `evict` | `AheadKept` | `ext4_bridge.c:4010` |
| | `sweep` | `AheadKept` | `ext4_extent.c:2105` |
| | `sparse`, `hole`, `grown`: a write past the end of the file over a gap without blocks, into part of a block at a hole, failing after it has appended blocks | `FilesRight` | |
| | `settle`, `nospace`, `gap`: a truncate that frees nothing, a preallocation that fails and an append to preallocated space that does not begin there leave blocks and the table of reservations apart | `AheadKept` | |
| `Extents` | `prepend` | `TreeSound`, `ImplementsBlockMap` | `ext4_extent.c:1343` |
| | `split` | `NothingExposed` | `ext4_extent.c:1974` |
| | `hole` | `ImplementsBlockMap` | `ext4_extent.c:2105` |
| | `partway`: a call in a batch that ran out of blocks leaves an index with an empty leaf | `TreeSound` | |
| `DirIndex` | `fragmented` | `IndexSound` | `ext4_dir_idx.c:1097` |
| | `tail` | `IndexSound` | `ext4_dir_idx.c:1185` |
| | `unread` | undefined in C: `ext4_block_set` of a block that was never read. The model has no outcome for it | `ext4_dir_idx.c:1185` |
| `Alloc` | `abort` | `CountsAgree` | `ext4_bridge.c:2480` |
| | `halffree` | `BitmapsSound` | `ext4_fs.c:1102` |
| | `BitmapBits` above `PerGroup` | `BitmapsSound` | `ext4_balloc.c:365` |
| `Xattr` | `lost` | `IsAttrMap` | `ext4_xattr.c:1692` |
| | `shared`, `stale` | `AreasSound` | `ext4_xattr.c:1692` |
| | `full`: the area in the inode is filled to the last unit, and its own check then refuses all of it | `AreasSound` | |
| | `empty`: compaction gives an empty value an offset that the check refuses | `AreasSound` | |
| `Mount` | `second`, `overlap` | `MountsHeld`, with `second` also `DevicesRight`, with `overlap` also `MountsChecked` and `HonestClose` | `Ext4FileSystem.swift:262` |
| | `shell` | `MountsHeld`, `DevicesRight` | `Ext4FileSystem.swift:66` |
| | `late`, `statfs` | `DevicesRight` | `Ext4FileSystem.swift:457` |
| | `torn`: the probe accepts the superblock that an interrupted format has written | `MountsChecked` | |
| `Gate` | `phantom` | `AddressesFit` | `ext4_super.c:61` |
| | `high`: the gate leaves out the high half of the block count without 64BIT, lwext4 does not | `AddressesFit` | |
| | `zero`: a journal feature without a journal inode passes | `AddressesFit` | |
| | `desc`, `rev0`: a descriptor size, or the first inode of revision 0, that lwext4 refuses and the gate does not | `VerdictsTrue` | |
| | `reshaped`, `unproven`: what a replay brings back is used before, or not, looked at again | `MountAllowed` | |
| `Cache` | `gap` | `Coherent` | `ext4_bcache.c:236` |

### OpenUnlink

State: the core's view of each inode (`links`, `alloc`, `ahead` for blocks
past end-of-file, `orphans`), the three collections of `Ext4Volume`, the items
the kernel holds, and for each call in flight the operation, its inode and how
far it has got. A step is one critical section of `itemsLock` or one executor
block. `removeItem`'s block asks `isOpen` in the middle, so it is two steps
(`RemoveCheck`, `RemoveUnlink`) with `exec` keeping the queue between them.
`RemoveError`, `ReleaseInodeFails` and `CoreFails` are the ways a core call
fails: alone in its transaction, which is aborted, or in a batch, which is
committed as far as it got; `RenameError` is the rename that has
taken the last name of the file it replaces and then fails in a batch, so that
nobody is told of an inode without names. `Remount` is the orphan sweep. Inode numbers are
reused once freed; directories are reduced to link counts.

`KernelRaces` lists what the VFS layer may do that the extension has no
defence against. With the empty set the kernel finishes the operations on an
item before it opens, replaces or unmounts it. That an item is opened only
while it has a name and no unmount has begun is the kernel's promise, too:
`openItem` asks for it in its guard, `OpenClose.swift:30` does not. `loan` and `abandoned` are
history variables: what was last preallocated without `.persist`, and what the
code has given up after a failure.

### Journal

The core runs one call at a time, so the only concurrency is with power
failing. Each block of the medium is a cell: its current value, its durable
value and the values written since the last barrier; a crash leaves one of
them, independently for every block. Writes between two barriers are one step.
A block's content is the number of the transaction that wrote it.

Actions follow the code: `jbd_trans_set_block_dirty` and
`jbd_trans_revoke_block` build the running transaction; `CommitBegin`,
`AllocBlock` and its slow path (`AllocPurge`, `AllocTail`, `AllocTailFails`,
`AllocSeal`, `AllocFails`), `jbd_journal_prepare`, `jbd_journal_prepare_revoke`,
`BodyBarrier`, `jbd_trans_write_commit_block` and `Finish` commit it;
`FlushBuffer` is the buffer cache writing a block home, at any moment after
the commit (what `WriteAhead` of `Cache` allows); `StopPurge`, `StopClear`,
`Unmount` and `UnmountBarrier` end a session; `Mount`, `jbd_recover`,
`RecoverDone` and `jbd_journal_start` begin one. Tags, checksums and escaping
are left out: a record is recognised by its type and its transaction id.

A commit that finds the log full (`AllocFails`, window `full`) is part of the
run; `Restored` makes no claim after one (`gaveUp`), because replay is then
wrong. The superblock write that publishes the tail may fail (`AllocTailFails`):
behind a purge it is tried again at once, and that is in the run; where it is
not, the log block is handed out all the same (window `lapped`), although the
comment at `ext4_journal.c:2511` has it cost no more than an attempt on the next
lap. A barrier is assumed to make earlier writes durable. In direct mode the
extension's barrier does nothing (`BlockDeviceBridge.swift:337`), so what the
run shows holds there only as far as the drive keeps writes in order.

### Namespace

`mem` is the metadata as the cache has it, `disk` that of the last commit. A
function of the bridge (`link_child`, `unlink_child`, `Move`, `orphan_add`, ...)
is an operator from the metadata it finds to the set of results it may return,
one for each way a call below can fail; an action picks one and closes the
transaction as `txn_finish` does. The orphan chain runs through `next`
(`i_dtime`), its head exists twice (`head` in the cached superblock block, `sb`
in `fs->sb`, which no abort rolls back). `ReleaseUnlist` and
`ext4b_release_inode` are the two transactions of a release from the middle.
`loose` and `split` are history variables: the inodes without a name that a
release has taken off the list and has not freed yet, now and as of the last
commit. With batches several of them may be between their two transactions.
`OrphanChain` counts them apart: it checks the list around them and does not say
that there are none, because there are. The comment at `ext4_bridge.c:3190`
says that a list edit commits together with the inode change it protects and
leaves no half-state for a cut to find; `NoHalfState` states that, no run checks
it, and TLC refutes it with a release from the middle and a crash. Such an inode
is leaked until `e2fsck` finds it.

`Linear` are the directories without a hash index, which count their links past
the limit (`ext4_fs.c:1939`). The run has none, as on the volumes this driver
formats.

### FileIO

A file is a sequence of cells, a block is two of them; each write puts one new
value into the cells it covers, so a cell that was never this file's is
recognised. `Started`, `Reserve`, `Fast`, `Locate`, `WalkOut`, `Join`,
`Partial`, `Flush` and `Written` are the parts of `ext4b_write`, in its order.
Data goes to the medium at once, mapping and size with the next commit. Calls
that are refused before they do anything (`EISDIR`, `EPERM`, `EFBIG`) are left
out. `Fast` writes one block at a time where the code gives the device a whole
mapped run (`ext4_bridge.c:4286`); a device that fails does so between blocks.

### BlockMap and Extents

`Extents` has the tree as `ext4_extent.c` keeps it: nodes, keys, positions on a
path, `MakeRoom` with `split_node` and `grow_indepth`, conversions that split
an unwritten extent, merges, and the sweep from the right. `map` is what a
lookup finds in it, and `ImplementsBlockMap` says that it behaves as a
function. `call` records what was asked (the operation, the first block, how
many) and what was answered, and `BlockMap` says of each operation which blocks
it may change, given that: a write those it answers for, a reservation the
holes of its range from the front, a conversion exactly the blocks asked about,
a removal everything from a place on, and whatever fails or asks for nothing,
none. A removal that starts in a hole does nothing in the code
(`ext4_extent.c:1796`), which `BlockMap` does not accept: it is the window
`hole`. `Lens` are the lengths a call asks for.

### DirIndex

A leaf is a memory of units in which a removed entry keeps its header, because
a listing that stopped there goes on from it. The index is a tree of hash
ranges; the lowest bit of a hash marks a chain that continues into the next
leaf. `listed` is the reference: the names whose creation was reported. Two windows
are about the index itself. `tail`: `ext4_dir_dx_split_index` takes the limit of
a new node before it takes the checksum tail off, so that on a volume with
metadata_csum the node has one entry more than `get_leaf` accepts and the
directory can no longer be read below it. The run is therefore about volumes
without metadata_csum as soon as an index node is split. `unread`: the way out
of a failing split of the index puts a block that was never read.

### Alloc

Bitmaps, descriptor counts and superblock totals side by side, with groups that
`mkfs` left uninitialised, files mapped through indirect blocks and files with
extents. Indirect blocks are freed one by one and their pointers cleared at the
end (`ext4_fs.c:1097`). When one in the middle is refused in a batch, the tables
that stay point to free blocks (`halffree`), although the comment at
`ext4_balloc.c:194` says that refusing a free only leaks. The superblock is outside the transactions, as in the code. `bad` are
bitmaps that come to fail their checksum. A lazy group holds only metadata of
its own, as without flex_bg: `ext4_fs_init_block_bitmap` marks its own bitmaps
and table (`ext4_fs.c:409`), the model all of `Meta` in the group. The read of a
fresh table that fails, frees it and leaves the pointer (`ext4_fs.c:1693`) is
left out.

### AttrMap and Xattr

Areas of four-byte units, entries from one end and values from the other;
`ext4_xattr_get` reads whatever is at an entry's offset, so a wrong offset
shows. `Look` and `Write` are the two executor turns of `setXattr`; a reading
that fails, a refusal by the area's own check and a volume without space are
among the outcomes of either. Between the two turns of one request another may
come: with two under way both may find that there is nothing and both create.
The code keeps no policy there, so none is stated; the run has one request at a
time, and `RefinesAttrMap` holds for any number, because it speaks of what each
answer changed. A removal is answered OK, too, when the file has no block and
the attribute is not there; `AttrMap` accepts that.

The windows are the cases in which `Write` is known to go wrong: an area in the
inode filled to the last unit, which its own check then refuses (`full`); an
empty value that compaction gives an offset (`empty`); a shared block whose copy
is lost (`shared`); a search for a name that `ext4_xattr_block_remove` never set
(`stale`: the finder's fields are what the stack held, `ext4_xattr.c:1561`), so
that a value that has moved to the inode stays in the block as well; a replaced
value that is gone when the new one has no room (`lost`). What is said of an
attribute's one place is said without them. Immutable and append-only files
(`ext4_bridge.c:4801`, `4833`) and an inode that cannot be read are left out:
both are refused before anything is looked at.

### Mount

A call of FSKit is a task that moves from one await, lock or executor turn to
the next. The medium is abstracted to what the probe, the replay and the close
look at. `Crash` is the death of the process. Keys and LUKS appear as whether a
stored key opens the device. A log is `live`, `empty`, or `spent`: its
superblock names a start, and everything in it is at home. The journal starts
and stops in two superblock writes, that of the volume first
(`ext4_journal.c:2057`, `2431`), and either may fail or be the last before the
process dies. `ext4b_mount` that fails after the first leaves the recover flag
behind, for `ext4_umount` writes the superblock it has (`MountResult`); a close
that fails between the two leaves a volume that says it needs no replay over a
log that still has a start. That log is spent and not live: the flag is cleared
only when the checkpoint queue is empty (`ext4_journal.c:2377` to `2422`), so
that a mount that does not replay it misses nothing, and the restart of the ids
over such a log is window `torn` of `Journal`. Power lost with home writes behind
a stop is window `stop` there; in `Mount` only the process dies.
`MountAssumption` asks that each medium is `Untouched` at first: a log that no
flag asks to replay has nothing that is not at home, and a half-written
filesystem has no log to replay and is not called limited. `said` is what the
last close reported, until the next load.

### Gate

`ext4b_probe` reads the superblock by hand and decides; lwext4 reads it again
and computes addresses. Fields keep the units of the format, 2^32 is `Word`,
and the properties compare the two readings. `Damage` changes one field of the
superblock, `DamageLog` one of its image in the log, `DamageDescriptor` a
descriptor; a damaged superblock may carry a right checksum, since software
bugs produce one. `Healthy` says what the format allows and `mke2fs` writes, on
its own and not in terms of the gate; `VolumesAssumption` asks it of every
volume the model starts from, so that `VerdictsTrue` is about healthy volumes
and not about those the gate likes. `Agreed` and `Image` are the windows. A volume
that asks for a replay and has no journal is usable to the probe and refused by
the mount as unsupported (ENOTSUP of `__ext4_recover`, `ext4.c:624`):
`VerdictHonest` says of a usable volume that it is refused as unsupported in no
other case (`logless`).

### Cache

A buffer is a block number: `cached`, `uptodate`, `dirty`, `lru` and `listed`
say which blocks have one and in what state, `held` and `pins` are the
references of callers and of the running transaction (together `refctr`), and
`notify` the buffers whose `end_write` is the journal's. What a block holds is
three more sets: `live` (its content means something), `fresh` (its buffer has
the latest content) and `home` (the medium has it). A call that loops is as
many steps as its loop has turns, and each write of it may fail:
`ext4_block_get` with `shakeDrop`, `shakeFail`, `getDone`, `getRead` and
`getFail`; `commit` with `commitPut`; `ext4_block_cache_flush` with `flushOne`;
`ext4_umount` with `closeDrop` and `closeFail`. `LastPut` is what
`ext4_bcache_free` does with the last reference, in its four outcomes.
`directWrite`, `overlay`, `zeroRange` and `freeRange` are what goes past the
cache. `due`, `failed` and `lost` are history variables for `HonestErrors`:
a failure nobody was told of, the blocks it is about, and content that is gone.

Left out: the order in which unreferenced buffers are dropped (`lru_id`, whose
counter also wraps at 2^32), so any may be next; `dont_shake`, which keeps the
journal's callback from re-entering the shake; aborts and crashes, which are in
`Journal`; writes of part of a block, which leave who has the latest content as
it was. `BC_FLUSH` and `BC_TMP` are carried by exactly the buffers of log
blocks, so they are `LogBlocks`. The window `gap` is a range that is
invalidated from a first block without a buffer.

## 3. Runs

| Run | Instance and bounds | Result |
|---|---|---|
| `open_unlink` | two inodes, two calls, two names, one failure, unmount racing everything | `NoOpenInodeFreed`, `NamesAllocated`, `ReleasesAreDue`, `UnreferencedIsTracked` hold |
| `open_unlink_live` | the same without races and failures | `NothingLeftBehind`, `EventuallyFreed` hold |
| `journal_crash` | two home blocks, a ring of six, three transactions, three mounts after the first (the last one only recovers), one failed write, a crash anywhere | `LogOK`, `Recovered` hold |
| `namespace` | four inodes of which at most three are directories at a time, two names, batches of two, one failure, crashes | `NamesSound`, `LinkCounts`, `OrphanChain` and the action property `StepsAllowed` hold |
| `file_io` | two files of three blocks, four blocks on the volume, one reservation slot, two writes and two other calls, one failure | `FilesRight`, `AheadKept` and the action property `CrashReads` hold |
| `extents` | eight logical blocks, seventeen physical, nodes of two and three entries, four initial layouts, three calls of one, three or eight blocks | `TreeSound`, `NothingExposed`, `MapRight` and the refinement `ImplementsBlockMap` hold |
| `dir_index` | eight names with collisions, leaves of six units, a root of two entries, nodes of three, four calls after four initial layouts | `IndexSound`, `NamesAgree` hold |
| `alloc` | three groups with a short last one, one uninitialised, five calls | `BitmapsSound`, `CountsAgree`, `SpaceFound` hold |
| `xattr` | two files that share a block at first, two names, two value lengths, four calls one after the other | `AreasSound` and the refinement `IsAttrMap` hold |
| `mount` | two devices, three handles, two concurrent calls of four in all, one fault or death, half-way through a start or stop of the journal too, one format | `MountsHeld`, `MountsChecked`, `DevicesRight`, `HonestClose` and the liveness property `CallsEnd` hold |
| `gate` | six healthy volumes, any two fields damaged | `AddressesFit`, `VerdictsTrue`, `MountAllowed` hold |
| `cache` | three blocks, one of the log, a cache of two buffers, one reference of a caller and two of the transaction to each, write-back mode on or off, any write failing | `BuffersSound`, `Coherent`, `HonestErrors`, the action property `WriteAhead` and the liveness property `CallsReturn` hold |

What each property says stands above its definition. A property that is a
conjunction of named parts (`NamesSound` is `TypeOK`, `NoDangling` and
`Connected`) is one run's claim; each of its parts has a mutant of its own.

Some of the cases the runs leave out contradict what the source says of itself.
The kernel race `open` of `OpenUnlink`: `removeItem` asks whether a file is open inside
its executor block, and the comment there says that an open therefore cannot
come between the answer and the unlink; `openItem` does not use the executor.
The window `gap` of `Cache`: `ext4_bcache_invalidate_lba`, documented as
invalidating a range, starts its walk at the buffer of the
first block of the range and, when there is none, gives up nothing of it; a
block that was read, freed and zeroed as part of such ranges is then served
from the buffer with its old content. The half-done release of `Namespace`, the
windows `halffree` of `Alloc` and `lapped` of `Journal`: see §2. The window `shell`
of `Mount`: `Ext4FileSystem.swift:66` calls the live mount's own resource the
only certain answer to the question which device is meant, and a format of
another device without a mount then formats the live one.

Bounds. Every open/unlink property speaks of one inode and at most two
operations on it; the second inode is there for the orphan list and for the
snapshots of unmount. Two names are needed for an unlink that is not the last.
Two home blocks tell a block that is logged from one that is revoked; a ring of
six holds two transactions of the largest size, so that three go round it and
lap the tail that the medium names; the third mount shows that ids go on
correctly after a recovery. Three inodes beside the root give a chain with a
middle, a directory below a directory, and a parent at the link limit. Two
blocks of a file and a third give a write that starts in one state of a block
and ends in another; one slot makes every second appending file evict. Nodes of
two and three entries make the extent tree and the hash index two levels deep
within the calls that are left. Three groups are a first, a lazy and a short
one; runs cross from group to group. Attribute areas are as large as the
entries that just fit and just do not. Two concurrent calls are what every race
of `Mount` needs; the third handle is the device of a probe beside two loads.
Two damaged fields are what it takes to pass one check with the help of
another; a volume of 32 groups, which fill a block of descriptors, is there so
that one group too many has its descriptor outside the table. A cache of two for three blocks has to drop one for the third; two
references of the transaction to a buffer are what a block freed and dirtied
again gets. One failure is enough for each error path; a second one on another
path is not explored, but in `Cache`, where the number of failures is not
bounded.

Deadlock is checked for `OpenUnlink`, `Namespace` and `Cache`. The other runs end when
their bounds are used up; `LogNeverStuck`, `EveryCallReturns`, `AllocComplete`
and `InodesComplete` say what getting stuck would be.

Fairness. `open_unlink_live`: a call that has begun runs to its end, because
Swift resumes it and the executor is a FIFO queue, which gives every waiting
block its turn (strong fairness of `Step(c)`); FSKit deactivates an item whose
last user has gone, because `itemDeactivationPolicy` asks for it. `mount`: a
task that can go on does (weak fairness of `Step(t)`), for the same reason.
`cache`: the thread of a call runs on until it returns (weak fairness of
`Loop`).
Nothing is assumed of closes, reclaims, unmounts or new calls.

## 4. Proofs

The theorems hold for every value of the constants that meets the `ASSUME` of
the module, with the exclusions each one names.

`OpenUnlink_proofs`, from `ConstAssumption`:

* `TypeCorrect`: `Spec => []TypeOK`. `TypeOK` is not inductive, because a step
  uses `call[c].ino` as an inode. `TypeInv` adds `Shape`: which operation has
  an inode, and at which points of an operation a call can be.
* `NamesAlwaysAllocated`: `Spec => []NamesAllocated`, for every set of kernel
  races. It is inductive with `TypeInv`: whatever frees an inode (the unlink of
  the last name, a release, the sweep at mount) checks the link count in the
  same step, and whatever adds a name takes an allocated inode.
* `OpenNeverFreed`: if `KernelRaces` has neither `open`, `reopen` nor
  `rename`, `Spec => []NoOpenInodeFreed`. `OpenInv` adds `SafeCall` for every
  call in flight: a remove that has seen the file closed, and a close,
  deactivation or reclaim on its way to a release, is on an inode that is not
  open, and nothing at all is open once an unmount has begun. Each exclusion is
  needed: with any one of the three races TLC finds an open inode freed.

`Release_proofs`, on top of it and for every set of kernel races:

* `ReleasesAlwaysDue`: `Spec => []ReleasesAreDue`, the duty to release an inode
  has one holder and is about an inode without names.
* `UnreferencedAlwaysTracked`: `Spec => []UnreferencedIsTracked`, an inode
  without names has somebody who will release it and, until a first failure, is
  on the orphan list once. Both come from `TrackInv`. Its `DutyInv` gives every
  inode its holders (`pendingRelease`, a call about to release it, an unmount
  with it in its snapshot) and says that there is at most one; the orphan list
  is injective and its range is the set of unreferenced inodes, which turns the
  claim about its length into one about a bijection.

* `NothingEverLeftBehind`: if `KernelRaces` has neither `unmount` nor
  `preallocate`, `Spec => []NothingLeftBehind`. `LeaveInv` follows an unmount
  through its stages: once the releases are drained nothing unreferenced is
  left but what it holds, once the trims are drained no loan but those it
  holds, and no other call is there to add to either.

`Cache_proofs`, from `CacheAssumption`, for any set of blocks, any cache size
and any number of failing writes:

* `BuffersAlwaysSound`: `Spec => []BuffersSound`. The inductive invariant
  `BuffersInv` is stated buffer by buffer (`BufferInv`), with the points at
  which a reference count can be changed (`ControlInv`): references of the
  transaction exist only while one runs, and nothing is referenced during the
  sweep of an unmount.
* `ErrorsAlwaysHonest`: `Spec => []HonestErrors`. `ErrorsInv` adds that a block
  whose content is lost is not dirty, so that a later write of another buffer
  does not settle its failure.
* `ReadsAlwaysCoherent`: if `Windows` does not have `gap`,
  `Spec => []Coherent`. Block by block (`ContentInv`) it is inductive with
  `BuffersInv` and `ErrorsInv`; with `gap` TLC refutes it.
* `HomeWaitsForCommit`: `Spec => WriteAhead`, the action property, from
  `BuffersInv`: what can be flushed or shaken out has no reference, and the
  sweep runs without a transaction.

`Gate_proofs`, from `WordAssumption`, `ValuesAssumption` and
`VolumesAssumption`, for any set of volumes, any values that damage leaves in a
field, any number of damaged fields and any word size:

* `OnlyKnownWritten`: `Spec => []WritableOnlyKnown`, with every window open.
* `MountsAlwaysAllowed`: if `Windows` has neither `reshaped` nor `unproven`,
  `Spec => []MountAllowed`.
* `AddressesAlwaysFit`: if `Windows` has none of `phantom`, `high`, `desc`,
  `zero` and `reshaped`, `Spec => []AddressesFit`.
* `UsableUnlessLogless`: if `Windows` has none of `high`, `desc` and `rev0`,
  `Spec => []VerdictHonest`: what is called usable is refused as unsupported only
  when it asks for the replay of a log that it does not have.

  The inductive invariant `GateInv` ties the three copies of the superblock
  together: the image in the log is one that the windows allow, the copy in
  memory has the fields of the one on the medium (`Same`: all but the checksum
  and the total of free blocks), and from the second probe on it has passed
  the gate. A replay breaks the last part for one step, between
  `ext4_recover` and `Reprobe`, which is why the invariant excludes the point
  `reprobe` and why the code needs the second probe. That the addresses fit is
  then arithmetic about one superblock that has passed: `GroupsAgree` shows
  that the gate's group count and lwext4's are the same number, which is where
  `phantom` and `high` are needed, and the rest bounds the last group, the
  descriptor table and the offset of an inode.

* `VerdictsAlwaysTrue`: under `ReadAlike` (`Windows` has no window in which the
  readings differ), `Spec => []VerdictsTrue`. `WalkInv` follows the audit: what
  it has seen of the first groups is what is wrong with them, and its sum is
  what they hold. `HealthInv` says that a volume nobody has damaged stays
  `Healthy` through replays, journal starts and unmounts; `HealthyPasses` shows
  that the gate lets every healthy superblock through. That the audit's sum
  cannot be more than the volume has is `FreeFits`.

`Mount_proofs`, from `MountAssumption`, for any number of devices, bridges,
concurrent calls, faults, deaths of the process and formats:

* `MountsAlwaysHeld`: if `Windows` has none of `second`, `shell` and `overlap`
  (loads and closes that meet), `Spec => []MountsHeld`. `MountInv` says what
  the code never writes down. `HandleInv`: lwext4's one slot belongs to the
  mounted bridge, and every bridge a call has opened or taken out of the state
  is that call's alone. `ApartInv`: a volume FSKit has loaded is the live one,
  while a volume is being let go of nothing is loaded and the live one is the
  one let go of, a call that is to close the live volume before loading means
  the same device, and a format meets no other close. With it, `closeVolume`,
  which closes whatever bridge it finds, finds the right one (`TakeStep`), and
  `loadInstall` finds none to overwrite (`InstallStep`).
* `DevicesAlwaysRight`: if `Windows` has in addition neither `late` nor
  `statfs`, `Spec => []DevicesRight`. `ExecInv` adds that whoever is between
  reading a pointer and using it holds the executor, which a destruction of
  that device waits for; `TargetIs` shows that `maintenanceTarget`, which
  guesses, guesses right, because at most one device has been presented.
* `MountsAlwaysChecked` and `ClosesAlwaysHonest`: with no window,
  `Spec => []MountsChecked` and `Spec => []HonestClose`. `DataInv` adds that the medium
  under a mount is the one that was mounted, whole and with its recover flag as
  its journal is (`Settled`), that what a load is on its way to is whole, and
  that every medium stays `Untouched`. Nothing is mounted or loaded while a
  format writes (`FormatsAlone`), and a mount or recovery that changes the
  medium found the slot free. What one turn of the executor may leave is in
  `MountResult`, `UnmountResult` and `RecoverResult`.

`Namespace_proofs`, from `NamespaceAssumption`, for any finite sets of inodes
and names, any `LinkMax`, batches of any length and any number of failures. All
four assume `Room`: a directory tree has fewer places for a name than the link
count has values, and every directory has a hash index (`Linear = {}`). The
driver needs both, because `ext4b_hardlink` does not check for a file that has
all the links it can have, `ext4_fs_inode_links_count_inc` stops counting only
for a directory with an index, and the count then wraps at 16 bits.

* `NamesSafe` and `LinksSafe`: under `Orderly` (`Windows` has none of
  `samedir`, `samefile`, `dxinit` and `halfrename`, the four ways a call on
  names goes wrong), `Spec => []NamesSound` and `Spec => []LinkCounts`. The
  invariant `NamesOK` is about the metadata in memory and about that of the
  last commit, because an abort falls back on the latter. For each,
  `NamesInv` says more than that the entries lead somewhere: only a directory
  that has a name has entries (`Entries`), its `..` leads where its one name is
  (`Homes`), its link count is that of its subdirectories or, after an
  overflow, 1 (`Links`), and no set of directories other than the empty one is
  closed under `..` (`Tree`, which is what "every directory is reached from the
  root" becomes when stated without paths). A rename is where it is hardest:
  `dir_parent_inode` climbs from the new parent, in the model a recursive
  function (`Meets`); `ClimbAbove` shows that what it comes past is closed
  under `..`, so that a directory it does not meet can be hung there without
  making a cycle (`MovedDir`). One lemma for each function of the bridge
  (`CreateResult`, `HardlinkResult`, `UnlinkResult`, `ReplaceResult`,
  `RenameResult`, ...) shows that whatever it may return, success or one of its
  failures, keeps `NamesInv`.
* `OrphansSafe` and `StepsSafe`: under `Calm` (no window at all),
  `Spec => []OrphanChain` and `Spec => StepsAllowed`, the action property that a
  sweep ends with no orphan left, that a call failing alone in its transaction
  leaves nothing, that protected files and directories keep their names and
  that a directory's links are given up counting only when they are full. What
  `OrphanChain` says is that the list is exact up to the inodes a release has
  taken off its middle and is to free in its next transaction, which a crash
  between the two leaks (§2). The invariant `ListOK` says that the list is a chain in memory and on the medium (`Chain`),
  made of the inodes without a name other than those a release has taken off
  it, and that between transactions memory and medium are the same; it makes
  these claims until part of a failed operation has been committed (`partial`).
  `ChainJoins`, `ChainBeheaded` and `ChainSkips` are what adding an inode and
  taking one off the front and from the middle do to a chain. `WalkIs` computes
  the recursive `Walk` of a chain, from which `ListedIs` has the set of what
  is on the list.

  `Climb` and `Walk` are functions on numbers, and what they return is shown by
  induction on the number of steps. The induction rule of the library takes an
  operator as a parameter; `NatInd` states it for a set instead and has a proof
  from the facts about cardinalities: the numbers below everything the set
  lacks would be a finite set as large as itself without 0.

`Xattr_proofs`, from `XattrAssumption`, for any finite set of files, any names,
blocks and values, areas and entries of any size and any number of requests.
The first two are under `Calm` (no window), which is also how the run has it:

* `AreasSafe`: `Spec => []AreasSound`. `XattrInv` has three levels. By the area,
  `Packed`: the names differ, each value lies in units of its own above the
  terminator, and those units hold it (`Holds`), which is more than the checks
  of the code look at. `CompactKeeps`, `RemoveKeeps` and `InsertKeeps` follow
  the values through a compaction, a removal and an insertion; `SetEntryIs` puts
  them together: `ext4_xattr_set_entry` changes one name's value or nothing. By
  the file, `FileOK`: no name is in both areas (`Split`), and the block is one in
  use. A request may do to the blocks what `Rewired` says, and that does not
  touch those of other files: write its own, leave a shared one for a copy, give
  an empty one back. By the volume, `VolumeOK`: references count the files of a
  block (`UsersMoved`, `ReferencesKept`) and `i_blocks` the block of a file
  (`CountsKept`).
* `RefinesAttrMap`: `Spec => IsAttrMap`, the refinement. Under `VolumeOK` what
  `ext4_xattr_get` answers is `View` (`GetIs`), and `Sets` says which values of
  it a step changes: a `Look` none, a `Write` that is answered OK one, a
  `Replace` those of its file.
* `OnlyFilledRefused`, without `Calm`: the check of the area in the inode refuses
  what `ext4_xattr_set_entry` left if, and only if, there is no unit to spare
  between the terminator and the values, which is the window `full`
  (`BodyValid`). The area of a block is always accepted (`BlockValid`).

  `XattrAssumption` asks that a block has room behind its header, that there are
  finitely many files (references are counted) and that `None` is neither a
  value nor a block.

`Journal_proofs`, from `JournalAssumption`, for any finite set of blocks, any log
that is longer than the largest transaction, any number of transactions, mounts
and failed writes:

* `LogAlwaysOK`: `Spec => []LogOK`, with every window open and after a commit
  that was given up, too. `TypeOK` and `LiveLogDisjoint` say nothing about why
  the blocks of the queue do not overlap; `RingInv` does: seen from the tail
  (`Off`), the live transactions lie one behind the other, each begins where the
  one before it ends (`InRow`), behind the last come the blocks handed to the
  committing one, and behind those the next to hand out (`RingAt`). Nothing is
  lost between them (`Meets`), except when a transaction that a failed write
  keeps in the log has let the head meet the tail (`Stuck`), from where no
  commit gets further than its begin. `AppendRow`, `RetiredRow` and
  `CompletionMoves` are what a commit, a retired transaction and a completed
  home write do to a row. That a full log has something to retire (`NeverStuck`)
  then follows from the size of the log: an empty queue leaves it whole, and
  `WantedIs` bounds what one commit asks for. The contents need `SurvivorsAre`
  (a crash makes nothing up) and `WalkIs` (replay follows records round the
  ring and reads only inside it); both are inductions, over the set of cells not
  yet settled and over the steps of the walk, with the form of induction that
  `Namespace_proofs` uses.

Only model-checked, and why. Liveness (`EventuallyFreed`, `CallsEnd`,
`CallsReturn`): the prover has no reasoning about fairness. The rest is not out
of the prover's reach in principle but has no proof yet: what it takes is, as
for `Namespace`, an invariant for every intermediate state of a transaction and
a computed form of each recursive function. These are `Recovered` of
`Journal`, which is `Restored` and `NoStaleCommit` (the invariant would have to
say which records every crash leaves in the log and in which order a walk meets
them; `LogAlwaysOK` is its first part), `FilesRight`, `AheadKept` and `CrashReads` of `FileIO`, the
invariants of `Extents`, `DirIndex` and `Alloc`, whose data are trees and bitmaps that
recursive functions build and search, and the refinement `ImplementsBlockMap`.

## 5. Not modelled

Listed with the reason in `PROJECT.json`. In short: cryptography and the parsing
of LUKS headers; the key and event stores beyond what a mount asks of them; the
read-only checker; the layout `mkfs` writes (`Mount` has a format as a few
steps, and what `mkfs` makes is what `Gate` and `Alloc` start from); attributes,
symbolic link contents and access checks, which pass through; checksums and record formats as bytes; the
application, the tools and the tests. `OpenUnlink` and `Namespace` are not
composed: a name belongs to one inode in the first, and the second has no
descriptors.

## 6. Plan

1. Proofs: `IndexSound` of `DirIndex` for leaves without an index, then
   `Recovered` of `Journal` on top of `LogAlwaysOK`.
2. `AtomicCommit`: the abstract specification of the journal (a sequence of
   metadata states, a crash keeps the last or the one in flight), with `Journal`
   refining it under no windows.
3. `OpenUnlink` over `Namespace`: `orphans` as the abstraction of the chain.
4. `LuksUnlock` and `EventStore`: the choice between header copies and keyslots,
   and two writers of one file.
