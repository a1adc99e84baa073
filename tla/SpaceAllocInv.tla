--------------------------- MODULE SpaceAllocInv ---------------------------
(***************************************************************************)
(* The inductive invariant behind SpaceAlloc's safety properties, for the  *)
(* configurations in which the code keeps them: one request at a time, no  *)
(* disk larger than disk 0, counters that fit the int of raid_metadata,    *)
(* and none of the user actions the unlink and allocation code mishandles. *)
(* PlaceInv and RowInv are for DataNotOnParity, LossInv for FullMeansInUse;*)
(* they have hypotheses of their own (EqualDisks, GrowOnly).               *)
(***************************************************************************)
EXTENDS SpaceAlloc

(* A counter after the write that passes the bound, plus its charges. *)
CountBound == MaxCount + StripSize + 1

SafeConfig ==
    /\ Serial
    /\ Env \cap {"sparse", "link", "shorten", "empty", "crash"} = {}
    /\ \A d \in Disks : FreeSize[d] <= FreeSize[0]
    /\ FreeSize[0] * BlockSize < IntHalf
    /\ CountBound * BlockSize < IntHalf

(* The counters and the list a running or the next process works with. *)
CurOffset ==
    IF mounted THEN free_offset
    ELSE IF raid_metadata.magic THEN ToBlocks(raid_metadata.free_offset)
    ELSE [d \in Disks |-> 0]
CurSize ==
    IF mounted THEN free_size
    ELSE IF raid_metadata.magic THEN ToBlocks(raid_metadata.free_size)
    ELSE FreeSize
CurList ==
    IF mounted THEN space_list
    ELSE IF raid_metadata.magic THEN raid_metadata.list
    ELSE <<>>

(* One request at a time, and only while the process runs. *)
OneRequest ==
    /\ \A t, u \in Threads : req[t] # Idle /\ req[u] # Idle => t = u
    /\ \A t \in Threads : req[t] # Idle => mounted

(* A metadata file has at most one name, and no contents without one. *)
OneName ==
    /\ \A a, b \in Names : dir[a] = dir[b] /\ dir[a] # NoInode => a = b
    /\ \A i \in Inodes : ~Named(i) => meta[i] = EmptyMeta

(* A block table has no holes, and covers the recorded size. *)
Dense ==
    \A i \in Inodes : \A j \in Index :
        /\ HasInfo(i, j) => \A k \in Index : k < j => HasInfo(i, k)
        /\ j < meta[i].size => HasInfo(i, j)

Holding(t) == req[t].op \in {"encode", "save"}

(* A write under way goes to the end of its file, or overwrites. *)
WriteInPlace ==
    \A t \in Threads : Holding(t) /\ req[t].idx > 0 =>
        /\ dir[req[t].name] # NoInode
        /\ HasInfo(dir[req[t].name], req[t].idx - 1)

(* A removal under way sees the size it read. *)
UnlinkProgress ==
    \A t \in Threads : req[t].op = "unlink" =>
        /\ dir[req[t].name] # NoInode
        /\ meta[dir[req[t].name]].size = req[t].num
        /\ req[t].idx <= req[t].num

(* Nobody else has the block a write under way is going to save. *)
HeldIsPrivate ==
    \A t \in Threads : Holding(t) =>
        /\ \A i \in Inodes, j \in Index :
             HasInfo(i, j) => meta[i].info[j] # req[t].blk
        /\ \A p \in 1 .. Len(CurList) : CurList[p] # req[t].blk

ListedOnce ==
    \A p, q \in 1 .. Len(CurList) : CurList[p] = CurList[q] => p = q

ListedIsFree ==
    \A i \in Inodes, j \in Index : \A p \in 1 .. Len(CurList) :
        HasInfo(i, j) /\ meta[i].info[j] = CurList[p] => BeingFreed(i, j)

(* A block handed out before: below the free space of a disk that has any. *)
Placed(b) ==
    /\ b.disk_id \in Candidates(raid_type)
    /\ b.block_no \in 0 .. MaxCount
    /\ CurSize[b.disk_id] >= 1 => b.block_no < CurOffset[b.disk_id]

(* No data disk has free space / every one has free_offset blocks used. *)
Full == \A d \in Candidates(raid_type) : CurSize[d] <= 0
Exact ==
    \A d \in Candidates(raid_type) : CurOffset[d] + CurSize[d] = FreeSize[d]

(* The block a write chose and has not charged yet. *)
Reserved(b) ==
    /\ b.disk_id \in Candidates(raid_type)
    /\ b.block_no \in 0 .. MaxCount
    /\ Full \/ (CurSize[b.disk_id] >= 1 /\ b.block_no = CurOffset[b.disk_id])

AllPlaced ==
    /\ \A i \in Inodes, j \in Index : HasInfo(i, j) => Placed(meta[i].info[j])
    /\ \A p \in 1 .. Len(CurList) : Placed(CurList[p])
    /\ \A t \in Threads : req[t].op = "save" => Placed(req[t].blk)
    /\ \A t \in Threads : req[t].op = "encode" => Reserved(req[t].blk)

(* The counters fit: within the bound, one less before the charge. *)
Slack == IF \E t \in Threads : req[t].op = "encode" THEN 1 ELSE 0
CountersFit ==
    \A d \in Disks :
        /\ CurOffset[d] \in 0 .. CountBound - Slack
        /\ CurSize[d] >= Slack - CountBound /\ CurSize[d] <= FreeSize[0]

(* Without a process there is no list in memory. *)
Unloaded == ~mounted => space_list = <<>>

IInv ==
    /\ TypeOK
    /\ OneRequest
    /\ OneName
    /\ Dense
    /\ WriteInPlace
    /\ UnlinkProgress
    /\ NoSharedBlock
    /\ HeldIsPrivate
    /\ ListedOnce
    /\ ListedIsFree
    /\ Full \/ Exact
    /\ AllPlaced
    /\ CountersFit

-----------------------------------------------------------------------------
(* Blocks known to the file system lie where data may lie.                 *)
PlaceInv ==
    /\ DataNotOnParity
    /\ \A p \in 1 .. Len(space_list) : DataPlace(space_list[p])
    /\ \A p \in 1 .. Len(raid_metadata.list) : DataPlace(raid_metadata.list[p])
    /\ \A t \in Threads : req[t].op # "idle" => DataPlace(req[t].blk)

(* The disks of an array of equal disks fill row after row. *)
EqualDisks == \A d, e \in Disks : FreeSize[d] = FreeSize[e]

(* RAID 6: rows b and b + 1 of the disk both hold redundancy. *)
BeforeTwo(d, b) == d = N - 1 - CRem(b + 1, N)

(* No disk has data in a row behind which another disk is left. *)
RowOrder ==
    \A d, e \in Disks : \A q \in 0 .. CurOffset[e] - 1 :
        e \notin ParityDisks(6, q) => q <= CurOffset[d]

(* A disk in front of two parity blocks has company: the disks with data   *)
(* in that row still have to take theirs.                                  *)
DataBeforeTwo ==
    \A d \in Disks : BeforeTwo(d, CurOffset[d]) =>
        \A e \in Disks \ ParityDisks(6, CurOffset[d]) :
            CurOffset[e] <= CurOffset[d]

(* A write has stepped over the parity blocks and taken the first row. *)
FirstRow ==
    \A t \in Threads : req[t].op = "encode" =>
        \A d \in Disks : /\ ~BeforeTwo(d, CurOffset[d])
                         /\ req[t].blk.block_no <= CurOffset[d]

RowInv == raid_type = 6 => Full \/ (RowOrder /\ DataBeforeTwo /\ FirstRow)

-----------------------------------------------------------------------------
(* Files only grow, move to free names and are removed.                    *)
GrowOnly == Env \cap {"overwrite", "replace", "truncate"} = {}

(* The size of a file covers its block table; a write appends to it. *)
SizeCovers == \A i \in Inodes, j \in Index : HasInfo(i, j) => j < meta[i].size
Appends ==
    \A t \in Threads : Holding(t) /\ dir[req[t].name] # NoInode =>
        ~HasInfo(dir[req[t].name], req[t].idx)

(* Where a data block can be. *)
InFile(b) == \E i \in Inodes, j \in Index : HasInfo(i, j) /\ meta[i].info[j] = b
InList(b) == \E p \in 1 .. Len(CurList) : CurList[p] = b
InHand(b) == \E t \in Threads : Holding(t) /\ req[t].blk = b
Known(b) == InFile(b) \/ InList(b) \/ InHand(b)
Ahead(d, b) == CurSize[d] >= 1 /\ b >= CurOffset[d]

Accounted ==
    \A d \in Candidates(raid_type) : \A b \in 0 .. FreeSize[d] - 1 :
        DataPlace(Block(d, b)) => Known(Block(d, b)) \/ Ahead(d, b)

(* A removal has put the blocks it has read on the list. *)
FreedListed ==
    \A t \in Threads : req[t].op = "unlink" =>
        \A j \in Index : j < req[t].idx /\ HasInfo(dir[req[t].name], j) =>
            InList(meta[dir[req[t].name]].info[j])

LossInv == SizeCovers /\ Appends /\ FreedListed /\ Accounted
=============================================================================
