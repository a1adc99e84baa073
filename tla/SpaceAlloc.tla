----------------------------- MODULE SpaceAlloc -----------------------------
(***************************************************************************)
(* How NCFS hands out, frees and recycles disk blocks.                     *)
(*                                                                         *)
(* Every coder's encode() picks the block a write goes to: it scans the    *)
(* disks' free_offset / free_size counters and, when the scan finds        *)
(* nothing, takes the head of the list of deleted spaces.  ncfs_write      *)
(* records the block in the file's metadata, ncfs_unlink puts the blocks   *)
(* of a removed file on the list, ncfs_destroy saves counters and list in  *)
(* raid_metadata and main() loads them at the next start.                  *)
(*                                                                         *)
(* A file is its metadata file in rootdir: the size it records and one     *)
(* data_block_info per block.  Offsets are in blocks (disk_block_size is   *)
(* the 4096 bytes of a FUSE request, usebigblock = 0) and a request writes *)
(* one block: a larger request is the same loop body, once per block.      *)
(* Disk contents and device failures are in other modules.                 *)
(***************************************************************************)
EXTENDS Integers, Sequences, FiniteSets

CONSTANTS
    N,           \* disk_total_num
    K,           \* data_disk_num, the k of the Reed-Solomon coders
    StripSize,   \* rows of a stripe of EVENODD, RDP and MDR-1
    FreeSize,    \* the configured free blocks of each disk
    RaidTypes,   \* the RaidType values the configuration may hold
    Names,       \* paths
    NoName,
    Inodes,      \* metadata files in rootdir
    NoInode,
    MaxBlocks,   \* bound: blocks of a file
    MaxCount,    \* bound: free_offset and -free_size stay below it
    MaxList,     \* bound: a file is removed while the space list is shorter
    Threads,     \* FUSE worker threads
    Serial,      \* TRUE: one request at a time (fuse option -s)
    Env,         \* what users and the host may do, see EnvEvents
    BlockSize,   \* disk_block_size
    IntHalf      \* 2^31 for the int of the code

Disks == 0 .. N - 1
Index == 0 .. MaxBlocks - 1

(***************************************************************************)
(* "overwrite": write to a block the file already has; "sparse": write     *)
(* past the end; "stale": write through a handle opened before its path    *)
(* was renamed or removed; "link": a second name; "replace": rename over   *)
(* an existing file; "truncate": to nothing; "shorten": to some other      *)
(* length; "remove": a file; "empty": remove a file whose metadata file is *)
(* empty; "crash": the process dies without ncfs_destroy.                  *)
(***************************************************************************)
EnvEvents == {"overwrite", "sparse", "stale", "link", "replace", "truncate",
              "shorten", "remove", "empty", "crash"}

(* The disk scans of the coders, by RaidType. *)
FirstFit == {100, 1}            \* JBOD, RAID 1
ReedSolomon == {13, 130}
DualParity == {61, 62, 63, 64}  \* MDR-1, RAID 6 without rotation, EVENODD, RDP
Striped == {0, 4, 5, 6} \cup DualParity
Supported == FirstFit \cup ReedSolomon \cup Striped

ASSUME ConstantsAssumption ==
    /\ N \in Nat /\ N >= 3
    /\ K \in 2 .. N
    /\ StripSize \in Nat \ {0}
    /\ FreeSize \in [Disks -> Nat]
    /\ RaidTypes \subseteq Supported
    /\ NoName \notin Names /\ NoInode \notin Inodes
    /\ MaxBlocks \in Nat \ {0}
    /\ MaxCount \in Nat /\ MaxList \in Nat
    /\ Serial \in BOOLEAN
    /\ Env \subseteq EnvEvents
    /\ BlockSize \in Nat \ {0}
    /\ IntHalf \in Nat \ {0}

(* struct data_block_info; disk_id = -1 stands for "none". *)
BlockInfo == [disk_id : Disks, block_no : Int]
NoBlock == [disk_id |-> -1, block_no |-> 0]
Zeros == [disk_id |-> 0, block_no |-> 0]
Block(d, b) == [disk_id |-> d, block_no |-> b]

VARIABLES
    raid_type,      \* NCFS_DATA->disk_raid_type, read from config.xml
    mounted,        \* the ncfs process runs
    free_offset,    \* NCFS_DATA->free_offset, in blocks
    free_size,      \* NCFS_DATA->free_size, in blocks
    space_list,     \* NCFS_DATA->space_list_head: deleted spaces
    raid_metadata,  \* the file raid_metadata
    dir,            \* rootdir: path -> metadata file
    meta,           \* contents of the metadata files
    req             \* what each worker thread is doing

vars == <<raid_type, mounted, free_offset, free_size, space_list,
          raid_metadata, dir, meta, req>>
ncfsVars == <<free_offset, free_size, space_list>>
fileVars == <<dir, meta>>

Idle == [op |-> "idle", name |-> NoName, idx |-> 0, blk |-> NoBlock, num |-> 0]

Request ==
    {Idle} \cup [op : {"encode", "save"}, name : Names, idx : Index,
                 blk : BlockInfo, num : {0}]
           \cup [op : {"unlink"}, name : Names, idx : 0 .. MaxBlocks,
                 blk : BlockInfo, num : 0 .. MaxBlocks]

(* A metadata file; in an empty one there is no size to read (size = -1). *)
MetaFile == [size : -1 .. MaxBlocks, info : [Index -> BlockInfo \cup {NoBlock}]]
EmptyMeta == [size |-> -1, info |-> [i \in Index |-> NoBlock]]

RaidMetadata == [magic : BOOLEAN, free_offset : [Disks -> Int],
                 free_size : [Disks -> Int], list : Seq(BlockInfo)]
NoMetadata == [magic |-> FALSE, free_offset |-> [d \in Disks |-> 0],
               free_size |-> [d \in Disks |-> 0], list |-> <<>>]

TypeOK ==
    /\ raid_type \in RaidTypes
    /\ mounted \in BOOLEAN
    /\ free_offset \in [Disks -> Int]
    /\ free_size \in [Disks -> Int]
    /\ space_list \in Seq(BlockInfo)
    /\ raid_metadata \in RaidMetadata
    /\ dir \in [Names -> Inodes \cup {NoInode}]
    /\ meta \in [Inodes -> MetaFile]
    /\ req \in [Threads -> Request]

-----------------------------------------------------------------------------
(* The choice of a block in encode().                                      *)

(* The disks a coder's scan visits. *)
Candidates(rt) ==
    CASE rt = 1 -> 0 .. (N \div 2) - 1
      [] rt = 4 -> 0 .. N - 2
      [] rt \in ReedSolomon -> 0 .. K - 1
      [] rt \in DualParity -> 0 .. N - 3
      [] OTHER -> Disks

(* Division and remainder of C. *)
CDiv(x, y) == IF x >= 0 THEN x \div y ELSE -((-x) \div y)
CRem(x, y) == x - y * CDiv(x, y)

(* The disks that hold row b's redundancy under a rotating layout. *)
ParityDisks(rt, b) ==
    CASE rt = 5 -> {N - 1 - CRem(b, N)}
      [] rt = 6 -> {N - 1 - CRem(b, N), N - 1 - CRem(b + 1, N)}
      [] OTHER -> {}

(* RAID 5 and 6 first step, once, over a disk whose next row is parity. *)
NoneSkipped(rt, fo) == {} \* mutant: no step
Skipped(rt, fo) == {d \in Disks : d \in ParityDisks(rt, fo[d])}
SkipOffset(rt, fo) ==
    [d \in Disks |-> IF d \in Skipped(rt, fo) THEN fo[d] + 1 ELSE fo[d]]
SkipSize(rt, fo, fs) ==
    [d \in Disks |-> IF d \in Skipped(rt, fo) THEN fs[d] - 1 ELSE fs[d]]

(* Reed-Solomon: the disk is within a run of K-1 rows or behind disk 0. *)
RSWritable(fo, d) == CRem(fo[d], K - 1) # 0 \/ fo[d] < fo[0]

(* block_request <= free_size, for a request of one block. *)
HasMoreRoom(fs, d) == fs[d] > 1 \* mutant: <
HasRoom(fs, d) == fs[d] >= 1

(* The disks the scan accepts. *)
Eligible(rt, fo, fs) ==
    {d \in Candidates(rt) :
        /\ HasRoom(fs, d)
        /\ rt \in ReedSolomon => d = 0 \/ RSWritable(fo, d)
        /\ rt \in Striped => fo[d] <= fo[0]}

(* Disk d beats disk e: the accepted disk the scan ends with. *)
Beats(rt, fo, d, e) ==
    IF rt \in ReedSolomon /\ RSWritable(fo, d) # RSWritable(fo, e)
    THEN RSWritable(fo, d)
    ELSE IF rt \in Striped /\ fo[d] # fo[e] THEN fo[d] < fo[e] ELSE d < e

Chosen(rt, fo, fs, d) ==
    /\ d \in Eligible(rt, fo, fs)
    /\ \A e \in Eligible(rt, fo, fs) \ {d} : Beats(rt, fo, d, e)

(* What the parity disks are charged when the scan ends with disk 0.  *)
ParityCharge(rt, d, b, p) ==
    IF rt \notin DualParity \/ d # 0 THEN 0
    ELSE CASE p = N - 2 -> 1
           [] p = N - 1 -> IF rt = 62 THEN 1
                           ELSE IF CRem(b, StripSize) = 0 THEN StripSize ELSE 0
           [] OTHER -> 0

(* The node list inserts a new node before position p. *)
GoesBefore(b, node) == b.disk_id <= node.disk_id /\ b.block_no < node.block_no
InsertPoint(l, b, p) ==
    /\ p <= Len(l) => GoesBefore(b, l[p])
    /\ \A q \in 1 .. p - 1 : ~GoesBefore(b, l[q])
InsertNode(l, b, p) ==
    [q \in 1 .. Len(l) + 1 |-> IF q < p THEN l[q]
                               ELSE IF q = p THEN b ELSE l[q - 1]]

-----------------------------------------------------------------------------
(* raid_metadata stores bytes in an int; main() divides again.             *)
ToInt(x) == IF x >= -IntHalf /\ x < IntHalf THEN x
            ELSE ((x + IntHalf) % (2 * IntHalf)) - IntHalf
ToBytes(f) == [d \in Disks |-> ToInt(f[d] * BlockSize)]
ToBlocks(f) == [d \in Disks |-> CDiv(f[d], BlockSize)]

Named(i) == \E a \in Names : dir[a] = i

(* The host drops a metadata file with its last name. *)
Kept(d) == [i \in Inodes |-> IF \E a \in Names : d[a] = i THEN meta[i]
                             ELSE EmptyMeta]
Quiet == \A t \in Threads : req[t] = Idle
CanServe == mounted /\ (Serial => Quiet)
CanStart(t) == CanServe /\ req[t] = Idle

(* The entries of a metadata file before its end of file. *)
HasInfo(i, j) == meta[i].info[j] # NoBlock

Init ==
    /\ raid_type \in RaidTypes
    /\ mounted = FALSE
    /\ free_offset = [d \in Disks |-> 0]
    /\ free_size = [d \in Disks |-> 0]
    /\ space_list = <<>>
    /\ raid_metadata = NoMetadata
    /\ dir = [a \in Names |-> NoInode]
    /\ meta = [i \in Inodes |-> EmptyMeta]
    /\ req = [t \in Threads |-> Idle]

(* main(): configuration, then raid_metadata if its magic number is there. *)
Mount ==
    /\ ~mounted
    /\ mounted' = TRUE
    /\ IF raid_metadata.magic
       THEN /\ free_offset' = ToBlocks(raid_metadata.free_offset)
            /\ free_size' = ToBlocks(raid_metadata.free_size)
            /\ space_list' = raid_metadata.list
       ELSE /\ free_offset' = [d \in Disks |-> 0]
            /\ free_size' = FreeSize
            /\ space_list' = <<>>
    /\ UNCHANGED <<raid_type, raid_metadata, fileVars, req>>

(* The memory of the process is gone. *)
Forget ==
    /\ mounted' = FALSE
    /\ free_offset' = [d \in Disks |-> 0]
    /\ free_size' = [d \in Disks |-> 0]
    /\ space_list' = <<>>

(* ncfs_destroy: unmount, after the last request. *)
Destroy ==
    /\ mounted /\ Quiet
    /\ raid_metadata' = [magic |-> TRUE, free_offset |-> ToBytes(free_offset),
                         free_size |-> ToBytes(free_size), list |-> space_list]
    /\ Forget
    /\ UNCHANGED <<raid_type, fileVars, req>>

(* The process ends without ncfs_destroy. *)
Exit ==
    /\ Forget
    /\ req' = [t \in Threads |-> Idle]
    /\ UNCHANGED <<raid_type, raid_metadata, fileVars>>

Crash == "crash" \in Env /\ mounted /\ Exit

-----------------------------------------------------------------------------
(* ncfs_mknod, ncfs_create: a new, empty metadata file. *)
Create(a, i) ==
    /\ CanServe /\ dir[a] = NoInode /\ ~Named(i)
    /\ dir' = [dir EXCEPT ![a] = i]
    /\ UNCHANGED <<raid_type, mounted, ncfsVars, raid_metadata, meta, req>>

(* ncfs_rename: what the new name stood for is gone, its blocks with it. *)
Rename(a, b) ==
    /\ CanServe /\ a # b /\ dir[a] # NoInode
    /\ dir[b] # NoInode => "replace" \in Env
    /\ dir' = IF dir[a] = dir[b] THEN dir
              ELSE [dir EXCEPT ![a] = NoInode, ![b] = dir[a]]
    /\ meta' = Kept(dir')
    /\ UNCHANGED <<raid_type, mounted, ncfsVars, raid_metadata, req>>

(* ncfs_link *)
Link(a, b) ==
    /\ "link" \in Env
    /\ CanServe /\ dir[a] # NoInode /\ dir[b] = NoInode
    /\ dir' = [dir EXCEPT ![b] = dir[a]]
    /\ UNCHANGED <<raid_type, mounted, ncfsVars, raid_metadata, meta, req>>

(* ncfs_truncate cuts or zero-extends the metadata file itself; len is the *)
(* number of data_block_info left in it, -1 an empty file.                 *)
Truncate(a, len) ==
    /\ CanServe /\ dir[a] # NoInode
    /\ (IF len = -1 THEN "truncate" ELSE "shorten") \in Env
    /\ LET m == meta[dir[a]] IN
       meta' = [meta EXCEPT ![dir[a]] =
                 [size |-> IF len = -1 THEN -1
                           ELSE IF m.size = -1 THEN 0 ELSE m.size,
                  info |-> [j \in Index |->
                              IF j >= len THEN NoBlock
                              ELSE IF m.info[j] = NoBlock THEN Zeros
                              ELSE m.info[j]]]]
    /\ UNCHANGED <<raid_type, mounted, ncfsVars, raid_metadata, dir, req>>

-----------------------------------------------------------------------------
(* ncfs_write, from its call of encode(), for block idx of path a.         *)
Encoding(t, a, idx, blk) ==
    req' = [req EXCEPT ![t] = [op |-> "encode", name |-> a, idx |-> idx,
                               blk |-> blk, num |-> 0]]

(* The bound on the counters. *)
CountersInRange ==
    \A d \in Disks : free_offset[d] < MaxCount /\ free_size[d] > -MaxCount

WriteAllowed(a, idx) ==
    LET m == IF dir[a] = NoInode THEN EmptyMeta ELSE meta[dir[a]] IN
    /\ CountersInRange
    /\ dir[a] = NoInode => "stale" \in Env /\ \E i \in Inodes : ~Named(i)
    /\ m.info[idx] # NoBlock => "overwrite" \in Env
    /\ (idx > 0 /\ m.info[idx - 1] = NoBlock) => "sparse" \in Env

(* The scan ends with disk d. *)
TakeFree(t, a, idx, d) ==
    LET fo == SkipOffset(raid_type, free_offset)
        fs == SkipSize(raid_type, free_offset, free_size)
    IN  /\ CanStart(t) /\ WriteAllowed(a, idx)
        /\ Chosen(raid_type, fo, fs, d)
        /\ free_offset' = [p \in Disks |->
                             fo[p] + ParityCharge(raid_type, d, fo[d], p)]
        /\ free_size' = [p \in Disks |->
                           fs[p] - ParityCharge(raid_type, d, fo[d], p)]
        /\ Encoding(t, a, idx, Block(d, fo[d]))
        /\ UNCHANGED <<raid_type, mounted, space_list, raid_metadata, fileVars>>

(* The scan finds nothing: take the head of the space list, or fail.       *)
ScanFails ==
    LET fo == SkipOffset(raid_type, free_offset)
        fs == SkipSize(raid_type, free_offset, free_size)
    IN  /\ Eligible(raid_type, fo, fs) = {}
        /\ free_offset' = fo
        /\ free_size' = fs

(* mutant: no space_list_remove *)
TakeAndKeepListed(t, a, idx) ==
    /\ CanStart(t) /\ WriteAllowed(a, idx)
    /\ ScanFails
    /\ space_list # <<>>
    /\ Encoding(t, a, idx, Head(space_list))
    /\ UNCHANGED <<raid_type, mounted, space_list, raid_metadata, fileVars>>

TakeListed(t, a, idx) ==
    /\ CanStart(t) /\ WriteAllowed(a, idx)
    /\ ScanFails
    /\ space_list # <<>>
    /\ space_list' = Tail(space_list)
    /\ Encoding(t, a, idx, Head(space_list))
    /\ UNCHANGED <<raid_type, mounted, raid_metadata, fileVars>>

(* mutant: ncfs_write does not look at disk_id = -1 *)
SpaceAnyway(t, a, idx) ==
    /\ CanStart(t) /\ WriteAllowed(a, idx)
    /\ ScanFails
    /\ space_list = <<>>
    /\ Encoding(t, a, idx, NoBlock)
    /\ UNCHANGED <<raid_type, mounted, space_list, raid_metadata, fileVars>>

NoSpace(t, a, idx) ==
    /\ CanStart(t) /\ WriteAllowed(a, idx)
    /\ ScanFails
    /\ space_list = <<>>
    /\ UNCHANGED <<raid_type, mounted, space_list, raid_metadata, fileVars, req>>

(* encode() charges the block to its disk, after it started disk I/O. *)
SameBlock(b) == b.block_no \* mutant: free_offset stays
NextBlock(b) == b.block_no + 1

Charge(t) ==
    LET b == req[t].blk IN
    /\ req[t].op = "encode"
    /\ free_offset' = [free_offset EXCEPT ![b.disk_id] = NextBlock(b)]
    /\ free_size' = [free_size EXCEPT ![b.disk_id] = @ - 1]
    /\ req' = [req EXCEPT ![t].op = "save"]
    /\ UNCHANGED <<raid_type, mounted, space_list, raid_metadata, fileVars>>

(* ncfs_write saves the size (offset + size) and the block's place; the    *)
(* metadata file is opened by path, and created if it has gone.            *)
SaveInfo(t) ==
    LET a == req[t].name
        idx == req[t].idx
        Saved(m) == [size |-> idx + 1,
                     info |-> [j \in Index |->
                                 IF j = idx THEN req[t].blk
                                 ELSE IF j < idx /\ m.info[j] = NoBlock THEN Zeros
                                 ELSE m.info[j]]]
    IN  /\ req[t].op = "save"
        /\ \/ /\ dir[a] # NoInode
              /\ meta' = [meta EXCEPT ![dir[a]] = Saved(meta[dir[a]])]
              /\ UNCHANGED dir
           \/ /\ dir[a] = NoInode
              /\ \E i \in Inodes :
                   /\ ~Named(i)
                   /\ dir' = [dir EXCEPT ![a] = i]
                   /\ meta' = [meta EXCEPT ![i] = Saved(EmptyMeta)]
        /\ req' = [req EXCEPT ![t] = Idle]
        /\ UNCHANGED <<raid_type, mounted, ncfsVars, raid_metadata>>

-----------------------------------------------------------------------------
(* ncfs_unlink opens the file and reads its size.  Nothing is read from an *)
(* empty metadata file: file_size and temp_info are uninitialized.         *)
UnlinkStart(t, a) ==
    /\ CanStart(t) /\ dir[a] # NoInode
    /\ Len(space_list) < MaxList
    /\ LET size == meta[dir[a]].size
           Reading(n, temp) ==
             req' = [req EXCEPT ![t] = [op |-> "unlink", name |-> a, idx |-> 0,
                                        blk |-> temp, num |-> n]]
       IN  \/ size # -1 /\ "remove" \in Env /\ Reading(size, Zeros)
           \/ /\ size = -1 /\ "empty" \in Env
              /\ \E n \in 0 .. 1, d \in Disks : Reading(n, Block(d, 0))
    /\ UNCHANGED <<raid_type, mounted, ncfsVars, raid_metadata, fileVars>>

(* Read one data_block_info (past the end, temp_info keeps what it had)    *)
(* and space_list_add it.                                                  *)
UnlinkAdd(t) ==
    LET j == req[t].idx
        i == dir[req[t].name]
        info == IF HasInfo(i, j) THEN meta[i].info[j] ELSE req[t].blk
    IN  /\ req[t].op = "unlink" /\ j < req[t].num
        /\ i # NoInode
        /\ \E p \in 1 .. Len(space_list) + 1 :
             /\ InsertPoint(space_list, info, p)
             /\ space_list' = InsertNode(space_list, info, p)
        /\ req' = [req EXCEPT ![t].idx = j + 1, ![t].blk = info]
        /\ UNCHANGED <<raid_type, mounted, free_offset, free_size,
                       raid_metadata, fileVars>>

(* The path has gone since: readFileInfo's open fails, it calls exit(-1). *)
UnlinkExit(t) ==
    /\ req[t].op = "unlink" /\ req[t].idx < req[t].num
    /\ dir[req[t].name] = NoInode
    /\ Exit

(* unlink(fpath) *)
UnlinkEnd(t) ==
    /\ req[t].op = "unlink" /\ req[t].idx = req[t].num
    /\ dir' = [dir EXCEPT ![req[t].name] = NoInode]
    /\ meta' = Kept(dir')
    /\ req' = [req EXCEPT ![t] = Idle]
    /\ UNCHANGED <<raid_type, mounted, ncfsVars, raid_metadata>>

-----------------------------------------------------------------------------
Write(t) ==
    \/ \E a \in Names, idx \in Index :
         \/ \E d \in Disks : TakeFree(t, a, idx, d)
         \/ TakeListed(t, a, idx)
         \/ NoSpace(t, a, idx)
    \/ Charge(t)
    \/ SaveInfo(t)

Unlink(t) ==
    \/ \E a \in Names : UnlinkStart(t, a)
    \/ UnlinkAdd(t)
    \/ UnlinkExit(t)
    \/ UnlinkEnd(t)

Next ==
    \/ Mount
    \/ Destroy
    \/ Crash
    \/ \E a \in Names, i \in Inodes : Create(a, i)
    \/ \E a, b \in Names : Rename(a, b) \/ Link(a, b)
    \/ \E a \in Names, len \in -1 .. MaxBlocks : Truncate(a, len)
    \/ \E t \in Threads : Write(t) \/ Unlink(t)

Spec == Init /\ [][Next]_vars

-----------------------------------------------------------------------------
(* Properties.                                                             *)

(* Entry j of file i is already on the space list: its ncfs_unlink is      *)
(* under way.                                                              *)
BeingFreed(i, j) ==
    \E t \in Threads : req[t].op = "unlink" /\ dir[req[t].name] = i
                          /\ j < req[t].idx

(* No block belongs to two places of files: encode() never hands out a     *)
(* block that some file still refers to.                                   *)
NoSharedBlock ==
    \A i1, i2 \in Inodes : \A j1, j2 \in Index :
        /\ HasInfo(i1, j1) /\ HasInfo(i2, j2)
        /\ meta[i1].info[j1] = meta[i2].info[j2]
        => i1 = i2 /\ j1 = j2

(* The space list holds deleted spaces: each once, and none that a file    *)
(* refers to, except while ncfs_unlink is removing that file.              *)
ListedIsDeleted ==
    /\ \A p, q \in 1 .. Len(space_list) : space_list[p] = space_list[q] => p = q
    /\ \A i \in Inodes, j \in Index, p \in 1 .. Len(space_list) :
         HasInfo(i, j) /\ meta[i].info[j] = space_list[p] => BeingFreed(i, j)

(* Where a coder may put data: not on a parity disk nor on a row's parity. *)
DataPlace(b) ==
    /\ b.disk_id \in Candidates(raid_type)
    /\ b.disk_id \notin ParityDisks(raid_type, b.block_no)

(* Data never lands on a block that holds its row's parity: the one step   *)
(* RAID 5 and RAID 6 take over a parity block at each write is enough, and *)
(* so is the scan order, also after a restart.                             *)
DataNotOnParity ==
    \A i \in Inodes, j \in Index : HasInfo(i, j) => DataPlace(meta[i].info[j])

(* "get block from space_list if no free block available": a step that     *)
(* takes a node off the list starts with every data disk full.             *)
RecycledOnlyWhenFull ==
    [][Len(space_list') < Len(space_list) /\ mounted'
         => \A d \in Candidates(raid_type) :
              SkipSize(raid_type, free_offset, free_size)[d] <= 0]_vars

(* While files only grow and are removed, no block is lost: a write is     *)
(* refused (-ENOSPC) only when every data block is in use by a file.       *)
FullMeansInUse ==
    /\ mounted /\ Quiet
    /\ space_list = <<>>
    /\ Eligible(raid_type, SkipOffset(raid_type, free_offset),
                SkipSize(raid_type, free_offset, free_size)) = {}
    => \A d \in Disks : \A b \in 0 .. FreeSize[d] - 1 :
         DataPlace(Block(d, b)) =>
           \E i \in Inodes, j \in Index :
             HasInfo(i, j) /\ meta[i].info[j] = Block(d, b)
=============================================================================
