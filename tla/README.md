# A TLA+ model of NCFS (fuse-mdr)

NCFS is a FUSE file system that stores files as blocks on several devices under
an erasure code chosen in `config.xml`. This directory holds TLA+ modules of its
core, TLC configurations that check them on small instances, and TLAPS proofs of
the main properties for all values of the constants. Source paths below are
relative to the repository root.

## The system

| Part | State | Operations | Talks to |
|---|---|---|---|
| handlers, `src/filesystem/ncfs.cc` | `ncfs_state`: `free_offset`, `free_size`, `space_list`, `disk_status`, `operation_mode`; a metadata file per file in `rootdir` (size, then one `data_block_info` per block) | mknod/create, write, read, unlink, rename, link, truncate, open/release, init, destroy, main | coder, metadata table |
| utilities, `src/filesystem/filesystem_utils.cc` | the same | `get_raid_metadata`, `get_disk_status`, `get_operation_mode`, `set_device_status`, `space_list_add/remove`, `process_command` | all |
| coders, `src/coding/` | none but caches of MDR-1 | `encode` (choose a block, update data and redundancy), `decode`, `recover` for JBOD (100), RAID 0/1/4/5/6, Reed-Solomon (13), SRC (130), MBR (1000), MDR-1 (61), RAID 6 without rotation (62), EVENODD (63), RDP (64) | `readDisk`/`writeDisk` |
| metadata table, `src/cache/no_cache.cc` | `fileInfoPath_`: path per descriptor | `create/search/destroyFileInfo`, `read/writeFileInfo`, `readFileCache` | host files, coder |
| storage, `src/storage/blockstorage.cc` | sockets | `DiskRead`, `DiskWrite`: one open/pread/pwrite; an error calls `set_device_status(id, 1)` | devices |
| report thread, `src/network/network.cc` | clients | `process_command` ("set d s"), report queue | status |
| recovery tool, `src/utility/recovery.cc` | its own `ncfs_state` | rebuilds one disk on a new device | coder |
| distributed repair, `src/utility/{scheduler,taskexecuter}.cc` | `task_schedule_queue`, `task_status_queue` | repair tasks over sockets, one per executer at a time | coder |
| cache layer, `src/cache/cache*.cc` | buffers with a lock and dirty blocks each, job queue, worker threads | `read`, `write`, open, close, `flush`; jobs WRITEBACK, FETCH, PREFETCH | files, devices; compiled, but `NoCache` is used (`ncfs.cc:1144`) |
| notifier, tracer, `src/utility/{notify,tracer}.cc` | | measurement: a trace of reads | coder |
| configuration, GUI, jerasure, tinyxml, benchmarks | | read-only, display, vendored or stand-alone | |

What is hard in it:

* **Concurrency.** FUSE calls the handlers from several threads unless it is
  started with `-s` (the documented command lines do not), the report thread runs
  operator commands, the recovery tool is another process; there is no lock.
* **Failure.** Results of disk accesses are ignored by `encode`; a failure is
  noticed only by the next access; counters are saved only at unmount.
* **Sequences of legal calls** that bring the metadata file and the recorded
  size apart (holes, truncation, links, stale handles).
* **Arithmetic**: rotating parity, byte counts in an `int`, full disks, Galois
  fields, reads and writes cut into blocks of two sizes.
* **Hand-overs between threads**: a buffer's lock is taken by the thread that posts
  a job and released by the worker that did it; the scheduler shares out tasks
  over connections that end.

What makes it correct: a block belongs to at most one place of one file; the
list of deleted spaces holds deleted blocks; data never overwrites parity; space
is not lost; an acknowledged write survives the failures its code tolerates;
reads return it or an error; the mode the handlers consult is the one the disk
status calls for; a file is the sequence of bytes written to it; the cache is not
noticed by those who use it; every repair task is done, and once.

## Modules

| Module | What it is |
|---|---|
| `SpaceAlloc` | choosing, charging, recording, freeing and recycling of blocks; restarts |
| `SpaceAllocInv` | its inductive invariants `IInv`, `PlaceInv`, `RowInv`, `LossInv` and their hypotheses |
| `SpaceAllocProofs` | `TypeCorrect`, the lemma `InvHolds` and three safety theorems; then where blocks are: `DataNotOnParityHolds`, `FullMeansInUseHolds` |
| `OperationMode` | `get_operation_mode`, `get_disk_status`, the handlers' mode checks, as operators |
| `DeviceStatus` | the shared `disk_status` / `operation_mode` and their unlocked setters |
| `DeviceStatusProofs` | types, and the mode with one setter at a time |
| `Redundancy` | RAID 1, 4, 5 on the disks, one disk access per step; uses `OperationMode` |
| `RedundancyProofs` | the invariant of a row through writes, failures, crashes and recovery; three theorems |
| `XorSets` | block contents and their XOR |
| `XorTheorems` | the algebra of XOR, as lemmas |
| `StripeCodes` | MDR-1, EVENODD, RDP: updates of P and Q, decoding, rebuilding one disk; uses `OperationMode` |
| `StripeCodesProofs` | four theorems about them, for every number of disks |
| `GaloisField` | the field tables and matrix functions of the coders and of jerasure |
| `FieldCodes` | RAID 6, RAID 6 without rotation, Reed-Solomon, SRC, MBR: `encode`, `decode`, `recover`; extends `GaloisField` |
| `FileStore` | abstract: files are sequences of bytes, requests are atomic |
| `FileIO` | requests through the handlers and `NoCache`; implements `FileStore` |
| `FileIOProofs` | the loop of `ncfs_write`, the table, and the refinement of `FileStore`; three theorems |
| `AtomicFile` | abstract: a file whose reads and writes take effect at one instant |
| `Cache` | the cache layer: buffers, locks, jobs, workers; implements `AtomicFile` |
| `CacheProofs` | types, jobs, the emptying of buffers, and the refinement of `AtomicFile`; four theorems |
| `RepairScheduler` | `./scheduler` and its `./taskexecuter`s |
| `RepairSchedulerProofs` | its inductive invariant and three theorems |
| `MC*` | the same for TLC |

`Redundancy`, `StripeCodes`, `FieldCodes`, `FileIO` and `SpaceAlloc` meet at one
assumption: a write goes to a block without live data. `SpaceAlloc` proves it
(`NoSharedBlock`), the others use it. `FileIO` in turn gives the sequence of blocks
a request is cut into, and the codes say what `decode` of each returns.

### SpaceAlloc

State: the counters and list in memory, the file `raid_metadata`, the names and
metadata files in `rootdir`, and what each worker thread is doing. Offsets are in
blocks; a request writes one block (the loop for larger requests repeats the same
body). `encode` is split where the code does I/O between choosing the block
(`TakeFree`, `TakeListed`, `NoSpace`) and advancing the counters (`Charge`);
`SaveInfo` is the rest of `ncfs_write`. The coders' scans differ in the disks they
visit (`Candidates`), the parity blocks they step over (`Skipped`) and which of
the accepted disks they end with (`Beats`): `Chosen` gives the disk the loop ends
with, without the loop. `raid_metadata` stores byte counts in an `int`: `ToInt`
wraps at `IntHalf`. It must exist before the first unmount (it is opened without
`O_CREAT`), as in the repository. `ncfs_unlink` of an empty metadata file uses
uninitialised values: a choice of 0 or 1 blocks, on any disk, stands for them.

`Env` names the things users and the host may do; the safe ones are `overwrite`,
`stale`, `replace`, `truncate` (to nothing) and `remove`.

### DeviceStatus

`set_device_status` is three steps (write the status, count, store the mode).
Two failures under a type other than 6 leave the mode indeterminate: any of
0, 1, 2 (any other `int` acts like 0). In `get_operation_mode` the name
`data_disk_num` is an enumerator with value 2, and is modelled so.

### Redundancy

A block's content is the set of the writes XORed into it, XOR is symmetric
difference, and a fresh device is `{}` (setup.sh fills it from `/dev/zero`). An
uninitialised buffer holds zeros or `Junk`. A broken device ignores writes and
leaves read buffers alone; the access marks it failed. `Decode` gives the value
`decode()` leaves in the buffer and whether it reports success, including the
reuse of `temp_buf` after a failed read. The recovery tool has a status array of
its own and fills a new device row by row; the operator puts that device in
service at the next mount, and does not put the old one back meanwhile. `blind`
and `torn` are history variables: blocks whose last update read junk for the old
data, and rows in which a crash fell between the data and the parity write. The
properties of the passing runs speak of the other blocks.

### StripeCodes

K data disks, P and Q (`N = K + 2`); a disk is a whole number of strips of
`strip_size` rows. The state is what is on the devices, the status array and the
cached mode, which live block each file refers to, and `planned`, the disk for
which the MDR-1 coder made its list of rows (`mdr_I_one_dpDisk_fail_stripeIndex`,
made once and kept). A call is one step: what happens between the disk accesses of
a call is the subject of `Redundancy`. A row of MDR-1's encoding matrix is a bit
mask in the code and a set of rows here; the matrix (`MatrixB`) and the rows to
read (`StripeIndexs`) are built by the code's recursion on the number of data
disks. `QTerms` is the code's table of the blocks a block of Q depends on (for
EVENODD and RDP its `elem_hash`), the `*_find_q_blocks_id` operators say which blocks
of Q `encode` updates: MDR-1 follows the change of P, EVENODD's Q does not depend on
P, RDP's does and is not followed. `encode` does not take the old
content of a recycled block out of the parities. `Decode` is `decode()` with one
failed disk; `Rebuilt` is what `./recover` writes, by method 0 (the coder's own
function) or 1 (`decode()` block after block). After method 0 the tool also runs
`ConventionalRecover`, which by then finds the disk healthy and copies the new
device onto itself. With a failed disk these types are in mode 2, so a degraded
read is one that passed the mode check before the failure was noticed (`reading`).

### GaloisField and FieldCodes

`GaloisField` builds the logarithm, multiplication and division tables as
`raid6.cc` and `galois.c` do, and the two functions the coders use of jerasure: the
Vandermonde distribution matrix and the decoding matrix by Gauss elimination.
`field_power` is a constant; the code uses 8, the runs 3.

In `FieldCodes` a block is one element of the field (the coders work byte by
byte). `status` and the blocks on the devices are the state; `Write` puts a
value at a block and updates the redundant blocks by the difference, as the
encoders do; a lost disk is replaced by a blank one; `Recover` writes what
`./recover` writes. A decode operator gives the set of results the program may
compute: one element, or all of the field when a coefficient is read behind a
matrix. RAID 6 is decoded case by case as in `raid6.cc` (P, Q, data with P, data
with Q, two data disks); SRC follows its path over the `f + 1` code blocks when one
disk has failed and Reed-Solomon otherwise; MBR takes the other copy of a block
and, without one, the coded blocks. The functions of a coder that methods 2 to 5
of `./recover` call return 0: `Rebuilt` leaves the disk blank.

### FileIO and FileStore

`FileStore` is what users expect: a file is a sequence of bytes, and write, read,
stat and unlink take effect at one instant. A byte is labelled by the write that
gave it and its position. `FileIO` is the way through `ncfs.cc` and `no_cache.cc`:
the table of paths by descriptor (a linear search; a path may be there twice), the
descriptors of the process (release does not close them), the metadata file (size,
then a block per index), the cutting of a write into blocks (`Written`, a fold over
its pieces; without space the loop ends in the middle), the buffer `bigtempbuf` that
collects system blocks when `disk_block_size` is larger (`BigPiece`), and the
reads: first block, middle blocks, last block (`Byte`, `finishedSize`). getattr and
unlink use the table more than once and are two and three steps; the other
handlers are one. `exit(-1)` sets `running` to `FALSE`. `Files` is the instance
of `FileStore` with `files <- Contents`: what the blocks of a file, in the order
of its metadata file, and the bytes still in the buffer say.

### Cache and AtomicFile

A `CacheTemplate` has `numOfBuffer` buffers; a client holds `cacheLock_` for a
whole read or write, transfers what the current buffer has and calls `flush` for
the rest, which queues a write-back of the buffer and a fetch into the next
(`FlushWriteBack` ... `FlushPrefetch`, one step per lock or job). A buffer's lock
is taken by the client that posts a job and released by the worker that has done
it. A worker's wait on the condition variable, its waking and its taking of a job
are steps of their own (`FetchOneJob`, `CondWait`, `Woken`), as `fetchOneJob` has no
loop around `pthread_cond_wait`. `containOffset` is called without the lock, so while
a worker changes a buffer its answer is either (`SeenToContain`). `AtomicFile` is a
file whose reads and writes take effect at one instant between call and return;
the mapping gives an address its dirty content or what is on the disk, and a write
under way has taken effect from the moment its client has `cacheLock_`.

### RepairScheduler

`./scheduler` keeps `QueueLen` tasks in a queue with a status each, gives one to each
executer, and on every report replaces the finished task by the next one and sends
the executer a task that is still to do. A connection carries at most one message.
An executer accepts a connection, does the task and reports; it may crash, which
ends its connection, and the scheduler that reads the end of a connection exits.
Runs of the scheduler can be repeated. What the task does to the disks is a stub
of the coders.

## Runs

Passing:

| Run | Shows |
|---|---|
| `alloc` | RAID 1, 5, 6, 6 without rotation, EVENODD and Reed-Solomon, all safe user actions and restarts: `NoSharedBlock`, `ListedIsDeleted`, `RecycledOnlyWhenFull` |
| `fill` | all twelve coders fill their disks, with removals: `NoSharedBlock`, `DataNotOnParity`, `FullMeansInUse` |
| `mishaps` | every user and host action, crashes: `TypeOK`, `RecycledOnlyWhenFull` |
| `status_serial` | the mode follows the status: one failure at a time for seven types, any number under RAID 6 and MBR |
| `redundancy_serial` | RAID 1, 4, 5, two writes: devices breaking and processes killed between any two accesses, commands, recovery: `OneFailureTolerated`, `ReadsBack` |
| `codes_repair` | MDR-1, EVENODD, RDP: any live block can be rebuilt after any sequence of writes, removals, failures and rebuilds, every disk but RDP's Q is rebuilt as it was, reads caught by a failure decode the right blocks |
| `field_careful` | RAID 6, 6 without rotation, Reed-Solomon, SRC, MBR: after any two writes, removals, failures and repairs each file's block is decoded from every set of disks the code claims to do without (`AnyFailuresDecode`) |
| `file_io` | two paths, requests of several blocks, both block geometries, leaking descriptors, overlapping getattr: `FileIO` implements `FileStore`; a handle keeps its path in the table |
| `cache_one` | one worker, two clients: `Cache` implements `AtomicFile`, a job holds the lock of its buffer, emptied buffers are on the disk, every call returns |
| `scheduler` | three executers, queue of four, six tasks, a crash, two runs: no task twice, none left, and the scheduler ends |

Violations, each a disagreement with what the repository says (quoted under
`findings` in PROJECT.json):

| Run | Shows |
|---|---|
| `file_long` | `readFileCache` reads the blocks between the first and the last but does not count them: a read over three blocks returns too few bytes |
| `file_exit` | create, release, unlink, stat: `ncfs_unlink` leaves its entry in the table, and `ncfs_getattr` of that path ends the process |

### Cases the passing runs leave out

A passing run leaves out what the code does not handle. Every such case is an
element of `Env` or `Usage` or a value of a constant, and adding it makes TLC
report the property named here:

| Case | How to add it | Property violated |
|---|---|---|
| a disk larger than disk 0 | `Size` above `SizeOfDisk0` | `RecycledOnlyWhenFull` |
| RAID 6 with disk 0 larger than the others: alone in front of two adjacent parity blocks it is stepped over one of them (`coding_raid6.cc:181`) | `RaidTypes = {6}`, four disks, disk 0 of 8 blocks and the others of 5, `MaxCount = 8` in `fill` | `DataNotOnParity` |
| removal of an empty file, of a file with a hole, of a shortened file | `"empty"`, `"sparse"`, `"shorten"` in `Env` of `alloc` | `ListedIsDeleted` or `NoSharedBlock` |
| removal of one of two names of a file | `"link"` in `Env` of `alloc` | `ListedIsDeleted` |
| a crash of ncfs | `"crash"` in `Env` of `alloc` | `NoSharedBlock` |
| two workers that choose a block before either charges it | two `Threads`, `Serial = FALSE` in `alloc` | `NoSharedBlock` |
| `free_size` of a recycled disk, saved in bytes, wraps in an `int` | `IntHalf = 8` in `alloc` | `NoSharedBlock` |
| two calls of `set_device_status` at once | `Serial = FALSE` in `status_serial` | `WritesOnlyWhenHealthy` |
| two failures of RAID 1, 4, 5 | the type in `Several` | `WritesOnlyWhenHealthy` |
| one failure of type 61 to 64 | the type in `RaidTypes` of `status_serial` | `IncapableOnlyBeyondCode` |
| Reed-Solomon with `K = 3`, `N = 4`: an enumerator of value 2 stands for `data_disk_num` | those values, 13 in `Several` | `DegradedIsReadable` |
| two writes to one row at once | two `Threads`, `Serial = FALSE` in `redundancy_serial` | `OneFailureTolerated` |
| a row cut by a crash; a write to a disk that failed unnoticed | `EveryWriteSurvives` in `redundancy_serial` | `EveryWriteSurvives` |
| recovery beside a write | `"busy"` in `Env` | `OneFailureTolerated` |
| a second disk failing unnoticed: a degraded read uses the buffer of a failed access and reports success | `MaxBroken = 2` in `redundancy_serial` | `ReadsBack` |
| a recycled block under MDR-1, EVENODD, RDP: its old content stays in the parities | `"recycle"` in `Env` of `codes_repair` | `AcknowledgedSurvives` |
| another disk failing later, MDR-1's list of rows still for the first | `"another"` in `Env` of `codes_repair` | `DegradedReadsBack` |
| method 1 of `./recover` for Q of MDR-1, a "TODO" that leaves zeros | 61 in `Both` | `AcknowledgedSurvives` |
| Q of RDP rebuilt | `ImageRestored` in `codes_repair` | `ImageRestored` |
| two failed disks of RAID 6, one of them P of a row: P' is divided by a coefficient | `Careful = FALSE` in `field_careful`, `Codes = {6}` | `AnyFailuresDecode` |
| type 62 decodes with rotated positions what it encodes with fixed ones | `Rows62` with a row that is no multiple of `N` | `AnyFailuresDecode` |
| a parity disk of Reed-Solomon rebuilt; MBR with both copies of a coded block lost; methods 2 to 5 | `Careful = FALSE`, the type in `Codes`, the methods | `AnyFailuresDecode` |
| a write in the middle of a file, or rewriting with the disks full | `"anywhere"` in `Usage` of `file_io` | `ImplementsFileStore` |
| a write that does not begin at a block | `"unaligned"` | `ImplementsFileStore` |
| a file closed, looked at or followed by another while `bigtempbuf` is half full | `"shared"` | `ImplementsFileStore` |
| stat of an empty file | `"empty"` | `ImplementsFileStore` |
| getattr beside create or unlink of the same file | `"together"` | `ImplementsFileStore` |
| no descriptor left | `"exhaust"` | `ImplementsFileStore` |
| two workers: `continue` in a `do ... while(0)` leaves the loop with no job (`config.xml` has three threads) | two `Workers` in `cache_one` | `JobHasItsBuffer` |
| a cache opened for another file | two `Paths` in `cache_one` | `ImplementsAtomicFile` |
| four buffers (`config.xml` has 4 and 8): a prefetch asks only the next buffer, so two may hold one range, and the one that was not written is read | `numOfBuffer = 4` in `cache_one`, all sizes 1, `Last = 4`, `Ranges` single addresses, `MaxCalls = 7`, with `tlc -simulate` | `ImplementsAtomicFile` |
| the end of the pool: `ended_` is set and signalled without `queueLock_` | `PoolEnds` in `cache_one` | `PoolEnds` |

### Bounds

Three or four disks give every rotation of RAID 5 and 6 (rows go beyond `N`) and
both Reed-Solomon cases; two names and two blocks per file are enough for holes,
links, replaced files and recycling; `MaxCount` lets a disk fill and blocks be
recycled several times; `MaxList` bounds the list only where a removal starts.
In `Redundancy` two writes on two rows give a neighbour in the row, a recycled
block and a rebuilt disk, and `MaxBroken = 1` is what the codes claim; with
`MaxWrites = 3`, which lets a removed block be written again beside a live
neighbour, the run also passes (11.7 million states, under five minutes).
`MaxFailed` bounds, for each RAID type, the disks out of service at once in
`DeviceStatus`. Three data disks and two strips in `codes_repair` give MDR-1 two
steps of its recursion, RDP and EVENODD diagonals that wrap, and blocks that must
not reach into the neighbouring strip; since contents are sets of writes under XOR,
a wrong term shows with one write and two cover its interplay with a removal or a
rebuild in between. MDR-1's masks are shifts of an `int`, hence the assumption
`K <= 5`.

`field_careful` uses GF(8), five disks (four for MBR) and two values: coding is
linear, so a wrong coefficient shows with one nonzero block; rows 0, 1 and 4 of
RAID 6 put P and Q at the ends and next to each other, and the rows of type 62
are those in which its two layouts agree. `src_f = 2` gives SRC a segment of
three blocks. `file_io` has three descriptors, three blocks of two bytes, four bytes
to a file and two writes, so that files need two blocks and the disks fill;
`file_long` needs three blocks in one file. `cache_one` has three buffers' worth
of addresses for two buffers, so that every access may need a write-back and a
fetch, and ranges that cross a boundary; two calls and two opens let a read follow a
write from another client. `scheduler` has more tasks than positions and
more positions than executers, as the code has (16 positions).

### Fairness

`cache_one` and `scheduler` check liveness; the other specifications state no
fairness. `Cache`: `WF_vars(ClientStep)` for the thread that holds `cacheLock_` or waits
for it, and `WF_vars(WorkerStep(w))` for each worker; they are threads of the
kernel's scheduler and wait only for mutexes and the condition variable, and their
I/O ends. Calls themselves, opening and closing have no fairness: nobody
has to use the cache. A mutex that is free is taken by someone: no fairness
between clients is assumed beyond that, and `CallsReturn` needs none since the
number of calls is bounded. `RepairScheduler`: `WF_vars(SchedulerStep)` and
`WF_vars(ExecuterStep(e))`; both programs only wait in `select`, `recv` and
`accept`, and the scheduler's select comes back when a connection ends. Starting a
run, reporting and crashing are not fair.

## Proofs

`SpaceAllocProofs!TypeCorrect`: `Spec => []TypeOK` for all constants, all `Env` and any
number of unserialised threads.

`NoSharedBlockHolds`, `ListedIsDeletedHolds`, `RecycledOnlyWhenFullHolds` assume
`SafeConfig`: one request at a time; no holes, links, shortened or empty files
and no crash; no disk larger than disk 0; counters whose byte values fit an
`int`. Each excluded case is a line of the table above, so the hypothesis is not
stronger than the code requires.

They follow from `IInv`. `NoSharedBlock` alone is not inductive: a block can only
be handed out safely if it is *above* every block in use, so the invariant says
where the blocks are. On a disk with free space every block handed out lies below
`free_offset` (`Placed`); the block a write has chosen and not yet charged is
exactly at `free_offset` (`Reserved`); a block of the list may be charged like a
new one because then no data disk has space left (`Full \/ Exact`). All three
are stated over `CurOffset`, `CurSize`, `CurList`, the values the running *or the
next* process works with, so that unmount and mount preserve them; that needs
`CountersFit`. `OneName`, `Dense`, `UnlinkProgress` say that a removal sees the
table the writes made. `RecycledOnlyWhenFull` is an action property: a full scan
fails only if every data disk is full, because disk 0 has the largest offset only
when it is full (`Exact`, no disk larger than disk 0).

`DataNotOnParityHolds`: data never goes to a block of redundancy. The step over a
parity block is taken by the scan and is not undone when another disk is chosen,
so `free_offset` itself may stand on parity; the invariant (`PlaceInv`) says that
every block in a file, on the list or in hand is one of data. For RAID 4, 5 and the
codes with fixed parity disks this needs one fact about the rotation (rows less
than `N` apart keep parity on different disks: lemma `Rotation`) and holds with any threads, crashes and sizes of disks; only the
removal of an empty file is excluded, which frees a block named by uninitialized
values. RAID 6 has rows in which a disk meets two parity blocks one after the other and steps over one.
That it is never chosen there is `RowInv`: disks of one size fill row after row,
and some disk that is further back (`DataBeforeTwo`, `FirstRow`) is taken first.
Hence `SafeConfig` and `EqualDisks`, and without them it is false (table).

`FullMeansInUseHolds`: when no disk is eligible and the list is empty, each data block
is in a file. `LossInv` counts each data block at one of four places: in a file, on the list,
in the hand of the write under way, or ahead of `free_offset` (`Accounted`); and a
removal has put on the list what it has passed (`FreedListed`). `GrowOnly` excludes
overwriting, replacing and truncating, after which a block is at none of them:
the code forgets it.

`RepairSchedulerProofs` proves `TypeCorrect`, `TasksGivenOnce` and
`AllTasksExecuted` for any number of executers, tasks, crashes and runs, assuming
only `RepairSchedulerAssumption` (at least as many positions as executers, at
least as many tasks as positions). Its invariant `Inv`: the tasks at the positions
are distinct (`Distinct`); a task has been handed out exactly when it has left the
queue or its position is not "to do" (`GivenIff`), which makes a second hand-out
impossible; an outstanding task is on one connection only and its position is
"handed out" (`OnOneLink`); the first round goes through the positions in order
(`InitOrder`); and a task whose position is done, or that has left the queue, has
been executed (`WhereExecuted`). When all positions are done and no task is left,
that is `DoneMeansExecuted`.

`DeviceStatusProofs` proves `TypeCorrect` without a hypothesis, also for overlapping
calls, and the three properties of the mode for `Serial` setters. The invariant is
that the mode stored, or about to be stored, is one `get_operation_mode` gives for
the array as it is now (`ModeUpToDate`), which a second setter breaks. The other
hypotheses are `ModeDefined` (no type for which no mode is assigned gets two
failures), `CodeAsConfigured` (the enumerator taken for the number of data disks of
Reed-Solomon does no harm) and `DegradedModeExists` (not types 61 to 64); each case
they exclude is a line of the table.

`XorTheorems` are the algebra of `XorOver`, for any finite row: what changing,
renaming, adding or removing a term does to the XOR. `RedundancyProofs` and
`StripeCodesProofs` rest on them.

`RedundancyProofs` proves `TypeCorrect` for any threads, failures and crashes, and
`OneFailureTolerated` and `ReadsBack` under `OneFault`: one request at a time, the
recovery tool not started under one, one device out of service at a time (again
lines of the table). "The XOR of a row is empty" is not an invariant: it fails in
the middle of a write, and on the devices whenever one is broken. `ParityInv`
therefore says there *is* a row `V` with XOR zero that the working devices hold,
except for a data block whose parity write is still to come, and whose blocks are
those the files refer to; the block of `V` on the broken device is what `decode`
computes. `delta` is what the write under way is to add to the parity, through its
five accesses. `MirrorInv` is the same for RAID 1, `RecoveryInv` says which rows
`./recover` has filled, `OneDiskOut` and `WriteInProgress` that a write meets one
missing device at most and a block without live data.

`StripeCodesProofs` proves, for every number of disks, strips and writes:
`AcknowledgedSurvives` and `ImageRestoredButRdpQ` under `AsSupported` (no recycled
blocks, MDR-1's Q not rebuilt by method 1), `DegradedReadsBack` if moreover no other
disk fails after MDR-1 has made its list. The invariant: P is the XOR of its row
(`RowsHold`), each block of Q is the XOR of its `QTerms` except for RDP (`QHolds`),
a live block is on its disk (`StoredIsThere`). What remains is that the blocks each
rebuild function reads leave exactly the missing one: arithmetic for P, EVENODD and
RDP. For MDR-1 it depends on tables built by recursion on the number of data disks,
and is stated as `Mdr1Lists`, a hypothesis about constants only; `ListsFit` in
`MCStripeCodes` has TLC evaluate it, and it is true for 2, 3, 4 and 5 data disks, all that
`StripeCodesAssumption` admits for MDR-1.

`CacheProofs` proves for any number of clients, buffers, pages and calls:
`TypeCorrect`, for any number of workers (the invariant `BufferOK`: a page that is
marked as read holds contents of the file or of a write, and a dirty block lies
in such a page, so that a write back writes nothing else; it needs that a page
written only in part is read first); `EmptiedToDisk`, for any number of workers
(`EmptyInv`: a dirty buffer that the loop has passed is locked, and a worker leaves
clean what it unlocks); `JobHasItsBuffer` for one worker (`JobsInv`: the buffers of
queued jobs are locked and distinct, and the worker is woken only for a job or the
end). With two workers it is false (table).

`FileIsAtomic` is the refinement: `Cache` implements `AtomicFile` for one worker
(`OneWorker`), two buffers (`TwoBuffers`) and one file (`OnePath`), any number of
clients and calls, and any sizes of buffers, pages, blocks and file. Each of the
hypotheses is there because without it the code does something else: two workers
may do one job twice, four buffers may hold one range twice, and a cache opened for
another file keeps the pages of the old one (three lines of the table). The inductive
invariant `RefInv` adds to the types and `JobsInv`:

* what the buffers are going to hold (`TargetInv`). `Target` is the range of a buffer
  once its jobs are done. Two buffers may be about to hold one range after all: a
  client that asks `containOffset` while a worker is changing a buffer can be
  told that it has what it has not, wait for it in vain, and prefetch the range that
  the first buffer already has. The invariant says that then neither is dirty and the
  address that is wanted is in neither, so the next turn of the loop fetches it
  over one of them before anything is transferred;
* what may be thrown away (`CleanInv`): a buffer that is being fetched into is clean, and
  a dirty buffer other than the working one has its write back queued. This
  is what keeps a fetch from reading the disk before the write back of the same
  range;
* what a buffer has read and not changed is what the disk holds (`Coherent`), so that
  an address counts for what any buffer says of it (`HoldsIs`);
* what a call has transferred so far is what the file holds now (`AnswerInv`): nothing else
  can change it while the call has `cacheLock_`.

A call, a write's taking of `cacheLock_` and the last turn of the loop are the steps of
`AtomicFile`; everything else, the workers included, leaves what the file holds as
it is (`HoldsWorker`, `CoherentElsewhere`).

`FileIOProofs` proves `HandleKeepsItsPath` for every `Usage`, and `TypeCorrect` and
`FilesAreKept` (`FileIO` implements `FileStore`) under `SupportedUsage`, which admits
only `"long"` reads beyond what the code handles: they come out short but are
bytes of the file. Every other element of `Usage` is a line of the table that breaks
`ImplementsFileStore`. The theorems hold for every geometry, number of
blocks, length of a file and of a request. The invariant `FInv` has one part per thing that a handler
relies on:

* the table (`HandlesOpen`, `EntriesOK`): a handle's descriptor is open and its entry
  is its path; an entry that is neither a handle's nor an unlink's under way was
  left by one (`LeftOver`): it stands at the least free descriptor, which the next
  `open()` takes, and names a file that is gone. This is why `ncfs_getattr` finds the right entry
  of a file that exists although `ncfs_unlink` never clears its own;
* the blocks (`BlocksHeld`): every block of a file up to its size has been handed out,
  so `encode` never writes into a file's bytes;
* the buffer (`BufferOK`): it is empty exactly when it has no owner, the owner exists
  and is open, and with big blocks every file's size is a multiple of one, so that
  the buffered bytes follow the written ones;
* the requests (`Requests`): a getattr and an unlink under way are for different
  files, what a getattr has seen of its file is still so, and while there is a
  file a descriptor is left.

The body of a write is a recursive function over its pieces. What it computes is
proved by taking the least number of pieces for which the claim fails
(`LeastNatural`): for small blocks piece `i` leaves the first `i` pieces in
new blocks, everything else where it was, and the size behind the last byte
(`PlainInv`, `PlainAt`); for big blocks the buffer collects the pieces and the last
one of a big block flushes it (`BigAt`); with the disks full the loop ends in the
middle and the bytes that were written count (`-ENOSPC` leaves a prefix). `WriteEffect`
sums this up in the terms of `Contents`, and each action is then shown to be a
step of `FileStore` or a stutter.

Only model-checked: `FieldCodes` (its module uses the bit operators of `Bitwise`, and
what its field tables, Vandermonde matrices and eliminations compute is recursion
over data). Out of the prover's reach: liveness (`CallsReturn`, `SchedulerEnds`). The lists of MDR-1 stay the
hypothesis `Mdr1Lists`.

## Not modelled, and the plan

1. Proofs: `Mdr1Lists`.
2. An abstract block store (write, remove, read returns the last write or an
   error) that `SpaceAlloc` with `Redundancy` implements.
3. Threads and sockets of methods 2 to 5 of `./recover`: what they would share out
   is a stub in every coder.

Renaming a file with an open handle is in `SpaceAlloc` (`"stale"`), not in
`FileIO`. Handlers that only forward to the host (chmod, chown, utime, xattr,
directories), the GUI, reports, configuration parsing, tinyxml, the unused rest of
jerasure, the notifier and tracer and the benchmark programs keep no state of the
system and are not modelled.
