-------------------------- MODULE SpaceAllocProofs --------------------------
(***************************************************************************)
(* Theorems about SpaceAlloc, for every value of its constants: types, and *)
(* that in a safe configuration no block has two owners, the space list    *)
(* holds deleted spaces only, and they are recycled only once the disks    *)
(* are full; where data lies, and that no block is lost.                   *)
(***************************************************************************)
EXTENDS SpaceAllocInv, TLAPS

USE DEF Disks, Index

-----------------------------------------------------------------------------
(* What the helpers return.                                                *)

(* C division and the conversion to int return integers. *)
LEMMA ConversionTypes ==
    /\ \A x \in Int, y \in Nat \ {0} : CDiv(x, y) \in Int
    /\ \A x \in Int : ToInt(x) \in Int
    /\ \A f \in [Disks -> Int] :
         ToBytes(f) \in [Disks -> Int] /\ ToBlocks(f) \in [Disks -> Int]
<1>1. ASSUME NEW x \in Int, NEW y \in Nat \ {0} PROVE CDiv(x, y) \in Int
  BY DEF CDiv
<1>2. ASSUME NEW x \in Int PROVE ToInt(x) \in Int
  <2>1. IntHalf \in Nat \ {0}
    BY ConstantsAssumption DEF ConstantsAssumption
  <2>2. (x + IntHalf) % (2 * IntHalf) \in Int
    BY <2>1
  <2> QED BY <2>1, <2>2 DEF ToInt
<1>3. BlockSize \in Nat \ {0}
  BY ConstantsAssumption DEF ConstantsAssumption
<1>4. ASSUME NEW f \in [Disks -> Int] PROVE ToBytes(f) \in [Disks -> Int]
  <2>1. \A d \in Disks : f[d] * BlockSize \in Int
    BY <1>3
  <2> QED BY <1>2, <2>1 DEF ToBytes
<1>5. ASSUME NEW f \in [Disks -> Int] PROVE ToBlocks(f) \in [Disks -> Int]
  BY <1>1, <1>3 DEF ToBlocks
<1> QED BY <1>1, <1>2, <1>4, <1>5

(* The step over parity rows and the parity charge keep counters integers. *)
LEMMA SkipTypes ==
    ASSUME NEW rt, NEW fo \in [Disks -> Int], NEW fs \in [Disks -> Int]
    PROVE  /\ SkipOffset(rt, fo) \in [Disks -> Int]
           /\ SkipSize(rt, fo, fs) \in [Disks -> Int]
  BY DEF SkipOffset, SkipSize

(* What an encode() adds to the counters of a parity disk. *)
LEMMA ParityChargeType ==
    ASSUME NEW rt, NEW d, NEW b, NEW p
    PROVE  ParityCharge(rt, d, b, p) \in 0 .. StripSize
  BY ConstantsAssumption DEF ConstantsAssumption, ParityCharge

(* Inserting a node gives a list. *)
LEMMA InsertNodeType ==
    ASSUME NEW l \in Seq(BlockInfo), NEW b \in BlockInfo,
           NEW p \in 1 .. Len(l) + 1
    PROVE  /\ InsertNode(l, b, p) \in Seq(BlockInfo)
           /\ Len(InsertNode(l, b, p)) = Len(l) + 1
           /\ \A q \in 1 .. Len(l) + 1 :
                InsertNode(l, b, p)[q] = IF q < p THEN l[q]
                                         ELSE IF q = p THEN b ELSE l[q - 1]
<1> DEFINE m == InsertNode(l, b, p)
<1>1. Len(l) \in Nat /\ \A q \in 1 .. Len(l) : l[q] \in BlockInfo
  OBVIOUS
<1>2. m \in [1 .. Len(l) + 1 -> BlockInfo]
  BY <1>1 DEF InsertNode
<1>3. m \in Seq(BlockInfo) /\ Len(m) = Len(l) + 1
  BY <1>1, <1>2
<1>4. \A q \in 1 .. Len(l) + 1 : m[q] = IF q < p THEN l[q]
                                       ELSE IF q = p THEN b ELSE l[q - 1]
  BY DEF InsertNode
<1> QED BY <1>3, <1>4

-----------------------------------------------------------------------------
(* Type correctness.                                                       *)

LEMMA EmptyMetaType == EmptyMeta \in MetaFile
  BY ConstantsAssumption DEF EmptyMeta, MetaFile, ConstantsAssumption

(* What a restart keeps. *)
LEMMA KeptType ==
    ASSUME meta \in [Inodes -> MetaFile], NEW d
    PROVE  Kept(d) \in [Inodes -> MetaFile]
  BY EmptyMetaType DEF Kept

(* The start. *)
LEMMA TypeInit == Init => TypeOK
<1> SUFFICES ASSUME Init PROVE TypeOK
  OBVIOUS
<1>1. raid_type \in RaidTypes /\ mounted \in BOOLEAN
  BY DEF Init
<1>2. /\ free_offset \in [Disks -> Int] /\ free_size \in [Disks -> Int]
      /\ space_list \in Seq(BlockInfo)
  BY DEF Init
<1>3. raid_metadata \in RaidMetadata
  BY DEF Init, NoMetadata, RaidMetadata
<1>4. dir \in [Names -> Inodes \cup {NoInode}]
  BY DEF Init
<1>6. meta \in [Inodes -> MetaFile]
  BY EmptyMetaType DEF Init
<1>7. req \in [Threads -> Request]
  BY DEF Init, Request
<1> QED BY <1>1, <1>2, <1>3, <1>4, <1>6, <1>7 DEF TypeOK

(* Starting to encode a block, for the three outcomes of the disk scan. *)
LEMMA TypeEncode ==
    ASSUME TypeOK, NEW t \in Threads, NEW a \in Names, NEW idx \in Index,
           NEW blk \in BlockInfo, Encoding(t, a, idx, blk)
    PROVE  req' \in [Threads -> Request]
  BY DEF TypeOK, Encoding, Request

(* A free block is chosen ... *)
LEMMA TypeTakeFree ==
    ASSUME TypeOK, NEW t \in Threads, NEW a \in Names, NEW idx \in Index,
           NEW d \in Disks, TakeFree(t, a, idx, d)
    PROVE  TypeOK'
<1> DEFINE fo == SkipOffset(raid_type, free_offset)
           fs == SkipSize(raid_type, free_offset, free_size)
<1>1. fo \in [Disks -> Int] /\ fs \in [Disks -> Int]
  BY SkipTypes DEF TypeOK
<1> HIDE DEF fo, fs
<1>2. /\ free_offset' = [p \in Disks |->
                           fo[p] + ParityCharge(raid_type, d, fo[d], p)]
      /\ free_size' = [p \in Disks |->
                         fs[p] - ParityCharge(raid_type, d, fo[d], p)]
      /\ Encoding(t, a, idx, Block(d, fo[d]))
      /\ UNCHANGED <<raid_type, mounted, space_list, raid_metadata, fileVars>>
  BY DEF TakeFree, fo, fs
<1>3. \A p \in Disks : ParityCharge(raid_type, d, fo[d], p) \in Int
  BY ParityChargeType, ConstantsAssumption DEF ConstantsAssumption
<1>4. free_offset' \in [Disks -> Int] /\ free_size' \in [Disks -> Int]
  BY <1>1, <1>2, <1>3
<1>5. Block(d, fo[d]) \in BlockInfo
  BY <1>1 DEF Block, BlockInfo
<1>6. req' \in [Threads -> Request]
  BY <1>2, <1>5, TypeEncode
<1> QED BY <1>2, <1>4, <1>6 DEF TypeOK, fileVars

(* ... or one of the list. *)
LEMMA TypeTakeListed ==
    ASSUME TypeOK, NEW t \in Threads, NEW a \in Names, NEW idx \in Index,
           TakeListed(t, a, idx)
    PROVE  TypeOK'
<1>1. free_offset' \in [Disks -> Int] /\ free_size' \in [Disks -> Int]
  BY SkipTypes DEF TypeOK, TakeListed, ScanFails
<1>2. space_list # <<>> /\ space_list \in Seq(BlockInfo)
  BY DEF TakeListed, TypeOK
<1>3. Head(space_list) \in BlockInfo /\ Tail(space_list) \in Seq(BlockInfo)
  BY <1>2
<1>4. req' \in [Threads -> Request]
  BY <1>3, TypeEncode DEF TakeListed
<1> QED BY <1>1, <1>3, <1>4 DEF TypeOK, TakeListed, fileVars

(* What a thread in a request has, by its place in it. *)
LEMMA RequestTypes ==
    ASSUME TypeOK, NEW t \in Threads
    PROVE  /\ req[t].op \in {"encode", "save"} =>
                req[t] \in [op : {"encode", "save"}, name : Names, idx : Index,
                           blk : BlockInfo, num : {0}]
           /\ req[t].op = "unlink" =>
                req[t] \in [op : {"unlink"}, name : Names, idx : 0 .. MaxBlocks,
                           blk : BlockInfo, num : 0 .. MaxBlocks]
<1>1. req[t] \in Request
  BY DEF TypeOK
<1> QED BY <1>1 DEF Request, Idle

(* One more step of a removal: what it reads and what it changes. *)
LEMMA UnlinkAddFacts ==
    ASSUME TypeOK, NEW t \in Threads, UnlinkAdd(t)
    PROVE  /\ req[t] \in [op : {"unlink"}, name : Names, idx : 0 .. MaxBlocks,
                         blk : BlockInfo, num : 0 .. MaxBlocks]
           /\ req[t].idx \in Index /\ req[t].idx < req[t].num
           /\ dir[req[t].name] \in Inodes
<1>1. req[t].op = "unlink" /\ req[t].idx < req[t].num /\ dir[req[t].name] # NoInode
  BY Zenon DEF UnlinkAdd
<1>2. req[t] \in [op : {"unlink"}, name : Names, idx : 0 .. MaxBlocks,
                 blk : BlockInfo, num : 0 .. MaxBlocks]
  BY <1>1, RequestTypes
<1>3. MaxBlocks \in Nat
  BY ConstantsAssumption DEF ConstantsAssumption
<1>4. req[t].idx \in Index
  BY <1>1, <1>2, <1>3 DEF Index
<1>5. dir[req[t].name] \in Inodes
  BY <1>1, <1>2 DEF TypeOK
<1> QED BY <1>1, <1>2, <1>4, <1>5

(* The metadata file is written. *)
LEMMA TypeSaveInfo ==
    ASSUME TypeOK, NEW t \in Threads, SaveInfo(t)
    PROVE  TypeOK'
<1> DEFINE a == req[t].name
           idx == req[t].idx
           Saved(m) == [size |-> idx + 1,
                        info |-> [j \in Index |->
                                    IF j = idx THEN req[t].blk
                                    ELSE IF j < idx /\ m.info[j] = NoBlock
                                    THEN Zeros ELSE m.info[j]]]
<1>1. idx \in Index /\ a \in Names /\ req[t].blk \in BlockInfo
  <2>1. req[t].op = "save"
    BY Zenon DEF SaveInfo
  <2> QED BY <2>1, RequestTypes
<1>2. Zeros \in BlockInfo
  BY ConstantsAssumption DEF Zeros, BlockInfo, ConstantsAssumption
<1>3. \A m \in MetaFile : Saved(m) \in MetaFile
  BY <1>1, <1>2, ConstantsAssumption DEF MetaFile, ConstantsAssumption
<1>4. /\ dir' \in [Names -> Inodes \cup {NoInode}]
      /\ meta' \in [Inodes -> MetaFile]
  <2> HIDE DEF Saved
  <2>1. CASE /\ dir[a] # NoInode
             /\ meta' = [meta EXCEPT ![dir[a]] = Saved(meta[dir[a]])]
             /\ UNCHANGED dir
    BY <1>1, <1>3, <2>1 DEF TypeOK
  <2>2. CASE \E i \in Inodes : /\ dir' = [dir EXCEPT ![a] = i]
                               /\ meta' = [meta EXCEPT ![i] = Saved(EmptyMeta)]
    BY <1>1, <1>3, <2>2, EmptyMetaType DEF TypeOK
  <2> QED BY <2>1, <2>2 DEF SaveInfo, Saved
<1>5. req' \in [Threads -> Request]
  BY DEF SaveInfo, TypeOK, Request
<1> QED BY <1>4, <1>5 DEF TypeOK, SaveInfo, ncfsVars

(* ncfs_truncate(). *)
LEMMA TypeTruncate ==
    ASSUME TypeOK, NEW a \in Names, NEW len \in -1 .. MaxBlocks,
           Truncate(a, len)
    PROVE  TypeOK'
<1>1. Zeros \in BlockInfo
  BY ConstantsAssumption DEF Zeros, BlockInfo, ConstantsAssumption
<1>2. dir[a] \in Inodes /\ meta[dir[a]] \in MetaFile
  BY DEF Truncate, TypeOK
<1> DEFINE m == meta[dir[a]]
           cut == [size |-> IF len = -1 THEN -1
                            ELSE IF m.size = -1 THEN 0 ELSE m.size,
                   info |-> [j \in Index |->
                               IF j >= len THEN NoBlock
                               ELSE IF m.info[j] = NoBlock THEN Zeros
                               ELSE m.info[j]]]
<1>3. cut \in MetaFile
  BY <1>1, <1>2, ConstantsAssumption DEF MetaFile, ConstantsAssumption
<1>4. meta' = [meta EXCEPT ![dir[a]] = cut]
  BY DEF Truncate
<1> HIDE DEF cut
<1> QED BY <1>3, <1>4 DEF Truncate, TypeOK, ncfsVars

(* ncfs_unlink() reads the table ... *)
LEMMA TypeUnlinkStart ==
    ASSUME TypeOK, NEW t \in Threads, NEW a \in Names, UnlinkStart(t, a)
    PROVE  TypeOK'
<1> DEFINE Reading(n, temp) ==
             req' = [req EXCEPT ![t] = [op |-> "unlink", name |-> a, idx |-> 0,
                                        blk |-> temp, num |-> n]]
<1>1. \E n \in 0 .. MaxBlocks, temp \in BlockInfo : Reading(n, temp)
  <2>1. meta[dir[a]].size \in -1 .. MaxBlocks
    BY DEF UnlinkStart, TypeOK, MetaFile
  <2>2. Zeros \in BlockInfo /\ \A d \in Disks : Block(d, 0) \in BlockInfo
    BY ConstantsAssumption DEF Zeros, Block, BlockInfo, ConstantsAssumption
  <2>3. \/ meta[dir[a]].size # -1 /\ Reading(meta[dir[a]].size, Zeros)
        \/ \E n \in 0 .. 1, d \in Disks : Reading(n, Block(d, 0))
    BY DEF UnlinkStart
  <2>4. MaxBlocks \in Nat \ {0}
    BY ConstantsAssumption DEF ConstantsAssumption
  <2> HIDE DEF Reading
  <2>5. CASE meta[dir[a]].size # -1 /\ Reading(meta[dir[a]].size, Zeros)
    <3>1. meta[dir[a]].size \in 0 .. MaxBlocks
      BY <2>1, <2>4, <2>5
    <3> QED BY <2>2, <2>5, <3>1
  <2>6. CASE \E n \in 0 .. 1, d \in Disks : Reading(n, Block(d, 0))
    <3>1. 0 .. 1 \subseteq 0 .. MaxBlocks
      BY <2>4
    <3> QED BY <2>2, <2>6, <3>1
  <2> QED BY <2>3, <2>5, <2>6
<1>2. req' \in [Threads -> Request]
  BY <1>1, ConstantsAssumption DEF TypeOK, Request, ConstantsAssumption
<1> QED BY <1>2 DEF TypeOK, UnlinkStart, ncfsVars, fileVars

(* ... and adds a block to the list. *)
LEMMA TypeUnlinkAdd ==
    ASSUME TypeOK, NEW t \in Threads, UnlinkAdd(t)
    PROVE  TypeOK'
<1> DEFINE j == req[t].idx
           i == dir[req[t].name]
           info == IF HasInfo(i, j) THEN meta[i].info[j] ELSE req[t].blk
<1>1. /\ j \in Nat /\ req[t].num \in 0 .. MaxBlocks /\ j < req[t].num
      /\ req[t].blk \in BlockInfo /\ req[t].name \in Names
  BY UnlinkAddFacts
<1>2. j \in Index /\ i \in Inodes
  BY UnlinkAddFacts
<1>3. info \in BlockInfo
  <2>1. meta[i].info[j] \in BlockInfo \cup {NoBlock}
    <3>1. meta[i] \in MetaFile
      BY <1>2 DEF TypeOK
    <3> QED BY <1>2, <3>1 DEF MetaFile
  <2> QED BY <1>1, <2>1 DEF HasInfo
<1>4. space_list' \in Seq(BlockInfo)
  <2> HIDE DEF info
  <2>1. \E p \in 1 .. Len(space_list) + 1 :
          space_list' = InsertNode(space_list, info, p)
    BY DEF UnlinkAdd, info
  <2> QED BY <1>3, <2>1, InsertNodeType DEF TypeOK
<1>5. req' \in [Threads -> Request]
  <2> DEFINE r == [req[t] EXCEPT !.idx = j + 1, !.blk = info]
  <2>1. req' = [req EXCEPT ![t] = r]
    BY DEF UnlinkAdd, TypeOK
  <2> HIDE DEF info
  <2>2. req[t] \in [op : {"unlink"}, name : Names, idx : 0 .. MaxBlocks,
                    blk : BlockInfo, num : 0 .. MaxBlocks]
    BY UnlinkAddFacts
  <2>3. j + 1 \in 0 .. MaxBlocks
    BY <1>1, ConstantsAssumption DEF ConstantsAssumption
  <2>4. r \in Request
    BY <1>3, <2>2, <2>3 DEF Request
  <2> HIDE DEF r
  <2> QED BY <2>1, <2>4 DEF TypeOK
<1> QED BY <1>4, <1>5 DEF TypeOK, UnlinkAdd, fileVars

(* Every step. *)
LEMMA TypeNext == TypeOK /\ [Next]_vars => TypeOK'
<1> SUFFICES ASSUME TypeOK, [Next]_vars PROVE TypeOK'
  OBVIOUS
<1>0. ASSUME Forget
      PROVE  /\ mounted' \in BOOLEAN
             /\ free_offset' \in [Disks -> Int] /\ free_size' \in [Disks -> Int]
             /\ space_list' \in Seq(BlockInfo)
  <2>1. <<>> \in Seq(BlockInfo) /\ [d \in Disks |-> 0] \in [Disks -> Int]
    OBVIOUS
  <2> QED BY <1>0, <2>1 DEF Forget
<1>1. CASE Mount
  <2>1. /\ ToBlocks(raid_metadata.free_offset) \in [Disks -> Int]
        /\ ToBlocks(raid_metadata.free_size) \in [Disks -> Int]
        /\ raid_metadata.list \in Seq(BlockInfo)
    BY ConversionTypes DEF TypeOK, RaidMetadata
  <2>2. FreeSize \in [Disks -> Int]
    BY ConstantsAssumption DEF ConstantsAssumption
  <2>3. [d \in Disks |-> 0] \in [Disks -> Int] /\ <<>> \in Seq(BlockInfo)
    OBVIOUS
  <2>4. /\ free_offset' \in [Disks -> Int] /\ free_size' \in [Disks -> Int]
        /\ space_list' \in Seq(BlockInfo)
    BY <1>1, <2>1, <2>2, <2>3 DEF Mount
  <2> QED BY <1>1, <2>4 DEF Mount, TypeOK, fileVars
<1>2. CASE Destroy
  <2>1. raid_metadata' \in RaidMetadata
    BY <1>2, ConversionTypes DEF Destroy, TypeOK, RaidMetadata
  <2> QED BY <1>0, <1>2, <2>1 DEF Destroy, TypeOK, fileVars
<1>3. ASSUME Exit PROVE TypeOK'
  BY <1>0, <1>3 DEF Exit, TypeOK, Request, fileVars
<1>4. CASE Crash
  BY <1>3, <1>4 DEF Crash
<1>5. ASSUME NEW a \in Names, NEW i \in Inodes, Create(a, i) PROVE TypeOK'
  BY <1>5 DEF Create, TypeOK, ncfsVars
<1>6. ASSUME NEW a \in Names, NEW b \in Names, Rename(a, b) PROVE TypeOK'
  BY <1>6, KeptType DEF Rename, TypeOK, ncfsVars
<1>7. ASSUME NEW a \in Names, NEW b \in Names, Link(a, b) PROVE TypeOK'
  BY <1>7 DEF Link, TypeOK, ncfsVars
<1>8. ASSUME NEW t \in Threads, NEW a \in Names, NEW idx \in Index,
             NoSpace(t, a, idx)
      PROVE  TypeOK'
  BY <1>8, SkipTypes DEF NoSpace, ScanFails, TypeOK, fileVars
<1>9. ASSUME NEW t \in Threads, Charge(t) PROVE TypeOK'
  <2>1. /\ req[t] \in [op : {"encode", "save"}, name : Names, idx : Index,
                        blk : BlockInfo, num : {0}]
        /\ req[t].blk.disk_id \in Disks /\ req[t].blk.block_no \in Int
    BY <1>9 DEF Charge, TypeOK, Request, Idle, BlockInfo
  <2>2. free_offset' \in [Disks -> Int] /\ free_size' \in [Disks -> Int]
    BY <1>9, <2>1 DEF Charge, NextBlock, TypeOK
  <2>3. req' \in [Threads -> Request]
    BY <1>9, <2>1 DEF Charge, TypeOK, Request
  <2> QED BY <1>9, <2>2, <2>3 DEF Charge, TypeOK, fileVars
<1>10. ASSUME NEW t \in Threads, UnlinkEnd(t) PROVE TypeOK'
  BY <1>10, KeptType DEF UnlinkEnd, TypeOK, Request, ncfsVars
<1>11. CASE UNCHANGED vars
  BY <1>11 DEF vars, TypeOK
<1>12. ASSUME NEW t \in Threads, Write(t) PROVE TypeOK'
  BY <1>8, <1>9, <1>12, TypeTakeFree, TypeTakeListed, TypeSaveInfo DEF Write
<1>13. ASSUME NEW t \in Threads, Unlink(t) PROVE TypeOK'
  BY <1>3, <1>10, <1>13, TypeUnlinkStart, TypeUnlinkAdd DEF Unlink, UnlinkExit
<1> QED
  BY <1>1, <1>2, <1>4, <1>5, <1>6, <1>7, <1>11, <1>12, <1>13, TypeTruncate
     DEF Next

(* Type correctness of the allocator: whatever the users do, the counters, *)
(* the space list, the metadata files and the requests under way keep      *)
(* their shape.                                                            *)
THEOREM TypeCorrect == Spec => []TypeOK
  BY TypeInit, TypeNext, PTL DEF Spec


-----------------------------------------------------------------------------
(* Lemmas about the helpers.                                               *)

(* A counter that fits survives raid_metadata. *)
LEMMA RoundTrip ==
    ASSUME SafeConfig, NEW x \in Int, x >= -CountBound,
           x <= CountBound \/ x <= FreeSize[0]
    PROVE  CDiv(ToInt(x * BlockSize), BlockSize) = x
<1>1. /\ BlockSize \in Nat \ {0} /\ IntHalf \in Nat \ {0}
      /\ CountBound \in Nat /\ FreeSize[0] \in Nat
  BY ConstantsAssumption DEF ConstantsAssumption, CountBound
<1>2. CountBound * BlockSize < IntHalf /\ FreeSize[0] * BlockSize < IntHalf
  BY DEF SafeConfig
<1>3. ASSUME NEW n \in Nat, NEW y \in Int, y <= n, n * BlockSize < IntHalf
      PROVE  y * BlockSize < IntHalf
  <2>1. y * BlockSize <= n * BlockSize
    BY <1>1, <1>3
  <2> QED BY <1>1, <1>3, <2>1
<1>4. x * BlockSize < IntHalf
  BY <1>1, <1>2, <1>3
<1>5. x * BlockSize >= -IntHalf
  <2>1. (-x) * BlockSize < IntHalf
    BY <1>1, <1>2, <1>3
  <2> QED BY <1>1, <2>1
<1>6. ToInt(x * BlockSize) = x * BlockSize
  BY <1>1, <1>4, <1>5 DEF ToInt
<1>7. \A y \in Nat : (y * BlockSize) \div BlockSize = y
  BY <1>1
<1>8. CASE x >= 0
  <2>1. x * BlockSize >= 0
    BY <1>1, <1>8
  <2> QED BY <1>1, <1>6, <1>7, <1>8, <2>1 DEF CDiv
<1>9. CASE x < 0
  <2>1. x * BlockSize < 0 /\ -(x * BlockSize) = (-x) * BlockSize
    BY <1>1, <1>9
  <2>2. ((-x) * BlockSize) \div BlockSize = -x
    BY <1>7, <1>9
  <2> QED BY <1>1, <1>6, <2>1, <2>2 DEF CDiv
<1> QED BY <1>8, <1>9

(* The disks that the scan of a coder visits. *)
LEMMA CandidateDisks ==
    ASSUME NEW rt \in RaidTypes
    PROVE  /\ Candidates(rt) \subseteq Disks
           /\ 0 \in Candidates(rt)
           /\ rt \in DualParity => \A p \in Candidates(rt) : p # N - 1 /\ p # N - 2
<1>1. /\ rt \in Supported /\ N \in Nat /\ N >= 3 /\ K \in 2 .. N
  BY ConstantsAssumption DEF ConstantsAssumption
<1> USE DEF Supported, FirstFit, ReedSolomon, Striped, DualParity
<1>2. CASE rt = 1
  BY <1>1, <1>2 DEF Candidates
<1>3. CASE rt = 4
  BY <1>1, <1>3 DEF Candidates
<1>4. CASE rt \in ReedSolomon
  BY <1>1, <1>4 DEF Candidates
<1>5. CASE rt \in DualParity
  BY <1>1, <1>5 DEF Candidates
<1>6. CASE rt \notin {1, 4} \cup ReedSolomon \cup DualParity
  BY <1>1, <1>6 DEF Candidates
<1> QED BY <1>2, <1>3, <1>4, <1>5, <1>6

(* The step over a parity row moves one block from free to used. *)
LEMMA SkipFacts ==
    ASSUME NEW rt, NEW fo \in [Disks -> Int], NEW fs \in [Disks -> Int],
           NEW d \in Disks
    PROVE  /\ SkipOffset(rt, fo)[d] \in {fo[d], fo[d] + 1}
           /\ SkipOffset(rt, fo)[d] + SkipSize(rt, fo, fs)[d] = fo[d] + fs[d]
  BY DEF SkipOffset, SkipSize

(* The parity charge spares the data disks. *)
LEMMA NoChargeOnData ==
    ASSUME NEW rt \in RaidTypes, NEW d, NEW b, NEW p \in Candidates(rt)
    PROVE  ParityCharge(rt, d, b, p) = 0
  BY CandidateDisks DEF ParityCharge

(* A scan that finds no disk has found no free block: disk 0 is the        *)
(* largest, and a disk with free space is behind a full disk 0.            *)
LEMMA ScanFindsFree ==
    ASSUME SafeConfig, NEW rt \in RaidTypes,
           NEW fo \in [Disks -> Int], NEW fs \in [Disks -> Int],
           \/ \A d \in Candidates(rt) : fs[d] <= 0
           \/ \A d \in Candidates(rt) : fo[d] + fs[d] = FreeSize[d],
           Eligible(rt, fo, fs) = {},
           NEW d \in Candidates(rt)
    PROVE  fs[d] <= 0
<1> SUFFICES ASSUME fs[d] >= 1,
                    \A e \in Candidates(rt) : fo[e] + fs[e] = FreeSize[e]
             PROVE  FALSE
  BY CandidateDisks
<1>1. d \in Disks /\ 0 \in Disks /\ 0 \in Candidates(rt)
  BY CandidateDisks
<1>2. FreeSize[d] <= FreeSize[0] /\ FreeSize[d] \in Nat /\ FreeSize[0] \in Nat
  BY <1>1, ConstantsAssumption DEF SafeConfig, ConstantsAssumption
<1>3. fs[0] <= 0
  <2>1. fs[0] \in Int /\ fo[0] \in Int
    BY <1>1
  <2>2. ASSUME fs[0] >= 1 PROVE 0 \in Eligible(rt, fo, fs)
    BY <1>1, <2>1, <2>2 DEF Eligible, HasRoom
  <2> QED BY <2>1, <2>2
<1>4. fo[d] < fo[0]
  <2>1. fo[d] + fs[d] = FreeSize[d] /\ fo[0] + fs[0] = FreeSize[0]
    BY <1>1
  <2>2. fo[d] \in Int /\ fs[d] \in Int /\ fo[0] \in Int /\ fs[0] \in Int
    BY <1>1
  <2> QED BY <1>2, <1>3, <2>1, <2>2
<1>5. d \in Eligible(rt, fo, fs)
  BY <1>1, <1>4 DEF Eligible, HasRoom, RSWritable
<1> QED BY <1>5

-----------------------------------------------------------------------------
(* The invariant holds initially and is preserved.                         *)

(* With every thread idle nothing is held and nothing is being freed. *)
LEMMA QuietFacts ==
    ASSUME Quiet
    PROVE  /\ \A t \in Threads : req[t].op = "idle" /\ ~Holding(t)
           /\ \A i, j : ~BeingFreed(i, j)
           /\ Slack = 0
<1>1. \A t \in Threads : req[t].op = "idle"
  BY DEF Quiet, Idle
<1> QED BY <1>1 DEF Holding, BeingFreed, Slack

(* The start. *)
LEMMA InvInit == ASSUME SafeConfig, Init PROVE IInv
<1>1. TypeOK
  BY TypeInit
<1>2. Quiet /\ mounted = FALSE /\ raid_metadata.magic = FALSE
  BY DEF Init, Quiet, NoMetadata
<1>3. CurOffset = [d \in Disks |-> 0] /\ CurSize = FreeSize /\ CurList = <<>>
  BY <1>2 DEF CurOffset, CurSize, CurList
<1>4. \A i \in Inodes : meta[i] = EmptyMeta
  BY DEF Init
<1>5. \A i \in Inodes, j \in Index : ~HasInfo(i, j)
  <2> SUFFICES ASSUME NEW i \in Inodes, NEW j \in Index
               PROVE  meta[i].info[j] = NoBlock
    BY DEF HasInfo
  <2>1. EmptyMeta.info[j] = NoBlock
    BY DEF EmptyMeta
  <2> QED BY <1>4, <2>1
<1>6. OneRequest /\ WriteInPlace /\ UnlinkProgress /\ HeldIsPrivate
  BY <1>2, QuietFacts DEF OneRequest, WriteInPlace, UnlinkProgress,
                          HeldIsPrivate, Quiet
<1>7. OneName
  BY <1>4 DEF OneName, Init
<1>8. Dense
  BY <1>4, <1>5 DEF Dense, EmptyMeta
<1>9. NoSharedBlock /\ ListedOnce /\ ListedIsFree
  BY <1>3, <1>5 DEF NoSharedBlock, ListedOnce, ListedIsFree
<1>10. Exact
  BY <1>1, <1>3, CandidateDisks, ConstantsAssumption
     DEF Exact, TypeOK, ConstantsAssumption
<1>11. AllPlaced
  <2>1. Len(CurList) = 0
    BY <1>3
  <2> QED BY <1>2, <1>5, <2>1, QuietFacts DEF AllPlaced
<1>12. CountersFit
  <2>1. CountBound \in Nat
    BY ConstantsAssumption DEF ConstantsAssumption, CountBound
  <2>2. \A d \in Disks : FreeSize[d] \in Nat /\ FreeSize[d] <= FreeSize[0]
    BY ConstantsAssumption DEF ConstantsAssumption, SafeConfig
  <2> QED BY <1>2, <1>3, <2>1, <2>2, QuietFacts DEF CountersFit
<1> QED BY <1>1, <1>6, <1>7, <1>8, <1>9, <1>10, <1>11, <1>12 DEF IInv

(* A start or an unmount: what the next process works with is unchanged. *)
LEMMA InvSameCur ==
    ASSUME IInv, TypeOK', Quiet,
           UNCHANGED <<raid_type, dir, meta, req, CurOffset, CurSize, CurList>>
    PROVE  IInv'
<1>1. Quiet'
  BY DEF Quiet
<1>2. OneRequest' /\ WriteInPlace' /\ UnlinkProgress' /\ HeldIsPrivate'
  BY <1>1, QuietFacts DEF OneRequest, WriteInPlace, UnlinkProgress,
                          HeldIsPrivate, Quiet, Holding, Idle
<1>3. OneName' /\ Dense' /\ NoSharedBlock'
  BY DEF IInv, OneName, Named, Dense, HasInfo, NoSharedBlock
<1>4. ListedOnce' /\ ListedIsFree'
  BY DEF IInv, ListedOnce, ListedIsFree, BeingFreed, HasInfo
<1>5. (Full \/ Exact)'
  BY DEF IInv, Full, Exact
<1>6. AllPlaced'
  BY DEF IInv, AllPlaced, Placed, Reserved, Full, HasInfo
<1>7. CountersFit'
  BY DEF IInv, CountersFit, Slack
<1> QED BY <1>2, <1>3, <1>4, <1>5, <1>6, <1>7 DEF IInv

(* A restart. *)
LEMMA InvMount == ASSUME SafeConfig, IInv, TypeOK', Mount PROVE IInv'
<1>1. Quiet
  BY DEF IInv, OneRequest, Mount, Quiet
<1>2. UNCHANGED <<raid_type, dir, meta, req>>
  BY DEF Mount, fileVars
<1>3. UNCHANGED <<CurOffset, CurSize, CurList>>
  BY DEF Mount, CurOffset, CurSize, CurList
<1> QED BY <1>1, <1>2, <1>3, InvSameCur

(* An unmount saves what the next mount needs. *)
LEMMA DestroyKeeps ==
    ASSUME SafeConfig, IInv, Destroy
    PROVE  UNCHANGED <<CurOffset, CurSize, CurList>>
<1>1. Quiet
  BY DEF Destroy
<1>2. /\ CurOffset = free_offset /\ CurSize = free_size /\ CurList = space_list
      /\ free_offset \in [Disks -> Int] /\ free_size \in [Disks -> Int]
  BY DEF Destroy, CurOffset, CurSize, CurList, IInv, TypeOK
<1>3. /\ CurOffset' = ToBlocks(ToBytes(free_offset))
      /\ CurSize' = ToBlocks(ToBytes(free_size))
      /\ CurList' = space_list
  BY DEF Destroy, Forget, CurOffset, CurSize, CurList
<1>4. CountBound \in Nat /\ FreeSize[0] \in Nat
  BY ConstantsAssumption DEF ConstantsAssumption, CountBound
<1>5. \A d \in Disks : /\ free_offset[d] \in 0 .. CountBound
                       /\ free_size[d] >= -CountBound
                       /\ free_size[d] <= FreeSize[0]
  BY <1>1, <1>2, <1>4, QuietFacts DEF IInv, CountersFit
<1>6. ToBlocks(ToBytes(free_offset)) = free_offset
  <2>1. \A d \in Disks :
          CDiv(ToInt(free_offset[d] * BlockSize), BlockSize) = free_offset[d]
    BY <1>2, <1>4, <1>5, RoundTrip
  <2> QED BY <1>2, <2>1 DEF ToBlocks, ToBytes
<1>7. ToBlocks(ToBytes(free_size)) = free_size
  <2>1. \A d \in Disks :
          CDiv(ToInt(free_size[d] * BlockSize), BlockSize) = free_size[d]
    BY <1>2, <1>4, <1>5, RoundTrip
  <2> QED BY <1>2, <2>1 DEF ToBlocks, ToBytes
<1> QED BY <1>2, <1>3, <1>6, <1>7

(* An unmount. *)
LEMMA InvDestroy == ASSUME SafeConfig, IInv, TypeOK', Destroy PROVE IInv'
<1>1. Quiet /\ UNCHANGED <<raid_type, dir, meta, req>>
  BY DEF Destroy, fileVars
<1> QED BY <1>1, DestroyKeeps, InvSameCur

(* While the process runs, the counters and the list are its own. *)
LEMMA CurMounted ==
    ASSUME mounted
    PROVE  CurOffset = free_offset /\ CurSize = free_size /\ CurList = space_list
  BY DEF CurOffset, CurSize, CurList

(* An empty metadata file lists no block. *)
LEMMA NoEmptyInfo ==
    ASSUME NEW j \in Index
    PROVE  EmptyMeta.info[j] = NoBlock /\ EmptyMeta.size = -1
  BY DEF EmptyMeta

(* Files disappear or are emptied, and nothing else happens to blocks. *)
LEMMA InvFilesShrink ==
    ASSUME IInv, TypeOK', mounted, OneName', Quiet',
           \A t \in Threads : req[t].op # "encode",
           UNCHANGED <<raid_type, mounted, free_offset, free_size, space_list>>,
           \A i \in Inodes : meta'[i] = meta[i] \/ meta'[i] = EmptyMeta,
           \A i \in Inodes, j \in Index : \A p \in 1 .. Len(space_list) :
             HasInfo(i, j)' => meta'[i].info[j] # space_list[p]
    PROVE  IInv'
<1>1. /\ CurOffset = free_offset /\ CurSize = free_size /\ CurList = space_list
      /\ UNCHANGED <<CurOffset, CurSize, CurList>>
  BY DEF CurOffset, CurSize, CurList
<1>2. ASSUME NEW i \in Inodes, NEW j \in Index, HasInfo(i, j)'
      PROVE  meta'[i] = meta[i] /\ HasInfo(i, j)
  BY <1>2, NoEmptyInfo DEF HasInfo
<1>3. OneRequest' /\ WriteInPlace' /\ UnlinkProgress' /\ HeldIsPrivate'
  BY DEF OneRequest, WriteInPlace, UnlinkProgress, HeldIsPrivate, Quiet,
         Holding, Idle
<1>4. Dense'
  <2> SUFFICES ASSUME NEW i \in Inodes, NEW j \in Index
               PROVE  /\ HasInfo(i, j)' =>
                            \A k \in Index : k < j => HasInfo(i, k)'
                      /\ j < meta'[i].size => HasInfo(i, j)'
    BY DEF Dense
  <2>1. CASE meta'[i] = meta[i]
    BY <2>1 DEF IInv, Dense, HasInfo
  <2>2. CASE meta'[i] = EmptyMeta
    BY <2>2, NoEmptyInfo DEF HasInfo
  <2> QED BY <2>1, <2>2
<1>5. NoSharedBlock'
  BY <1>2 DEF IInv, NoSharedBlock
<1>6. ListedOnce' /\ ListedIsFree'
  BY <1>1 DEF IInv, ListedOnce, ListedIsFree
<1>7. (Full \/ Exact)'
  BY <1>1 DEF IInv, Full, Exact
<1>8. AllPlaced'
  <2>2. \A i \in Inodes, j \in Index :
          HasInfo(i, j)' => Placed(meta'[i].info[j])
    BY <1>2 DEF IInv, AllPlaced
  <2>3. \A p \in 1 .. Len(CurList) : Placed(CurList[p])
    BY DEF IInv, AllPlaced
  <2>4. \A t \in Threads : req'[t].op = "idle"
    BY DEF Quiet, Idle
  <2>5. \A i \in Inodes, j \in Index :
          HasInfo(i, j)' => Placed(meta[i].info[j])'
    BY <1>1, <2>2 DEF Placed
  <2>6. \A p \in 1 .. Len(CurList') : Placed(CurList[p])'
    BY <1>1, <2>3 DEF Placed
  <2> QED BY <2>4, <2>5, <2>6 DEF AllPlaced
<1>9. CountersFit'
  <2>1. Slack = 0 /\ Slack' = 0
    BY DEF Slack, Quiet, Idle
  <2> QED BY <1>1, <2>1 DEF IInv, CountersFit
<1> QED BY <1>3, <1>4, <1>5, <1>6, <1>7, <1>8, <1>9 DEF IInv

(* The same for a request that finds every thread idle. *)
LEMMA InvQuietShrink ==
    ASSUME IInv, TypeOK', mounted, OneName', Quiet,
           UNCHANGED <<raid_type, mounted, free_offset, free_size, space_list,
                       req>>,
           \A i \in Inodes : meta'[i] = meta[i] \/ meta'[i] = EmptyMeta
    PROVE  IInv'
<1>1. Quiet' /\ \A t \in Threads : req[t].op # "encode"
  BY QuietFacts DEF Quiet
<1>2. ASSUME NEW i \in Inodes, NEW j \in Index,
             NEW p \in 1 .. Len(space_list), HasInfo(i, j)'
      PROVE  meta'[i].info[j] # space_list[p]
  <2>1. meta'[i] = meta[i] /\ HasInfo(i, j)
    BY <1>2, NoEmptyInfo DEF HasInfo
  <2>2. meta[i].info[j] = space_list[p] => BeingFreed(i, j)
    BY <2>1, CurMounted DEF IInv, ListedIsFree
  <2> QED BY <2>1, <2>2, QuietFacts
<1> QED BY <1>1, <1>2, InvFilesShrink

(* A request is served when none is under way. *)
LEMMA ServeQuiet ==
    ASSUME SafeConfig, CanServe PROVE mounted /\ Quiet
  BY DEF SafeConfig, CanServe

(* A metadata file stays as it is, or is gone. *)
LEMMA KeptShrinks ==
    ASSUME NEW d, NEW i \in Inodes
    PROVE  Kept(d)[i] = meta[i] \/ Kept(d)[i] = EmptyMeta
  BY DEF Kept

(* ncfs_create(). *)
LEMMA InvCreate ==
    ASSUME SafeConfig, IInv, TypeOK', NEW a \in Names, NEW i \in Inodes,
           Create(a, i)
    PROVE  IInv'
<1>1. OneName'
  <2>1. /\ dir' = [dir EXCEPT ![a] = i] /\ meta' = meta
        /\ dir \in [Names -> Inodes \cup {NoInode}]
        /\ \A b \in Names : dir[b] # i
    BY DEF Create, IInv, TypeOK, Named
  <2>2. \A k \in Inodes : Named(k) => Named(k)'
    BY <2>1, ConstantsAssumption DEF Named, Create, ConstantsAssumption
  <2> QED BY <2>1, <2>2 DEF IInv, OneName
<1> QED BY <1>1, ServeQuiet, InvQuietShrink DEF Create, ncfsVars

(* ncfs_rename(). *)
LEMMA InvRename ==
    ASSUME SafeConfig, IInv, TypeOK', NEW a \in Names, NEW b \in Names,
           Rename(a, b)
    PROVE  IInv'
<1>1. \A i \in Inodes : meta'[i] = meta[i] \/ meta'[i] = EmptyMeta
  BY KeptShrinks DEF Rename
<1>2. OneName'
  <2>1. /\ a # b /\ dir \in [Names -> Inodes \cup {NoInode}]
        /\ dir' = IF dir[a] = dir[b] THEN dir
                  ELSE [dir EXCEPT ![a] = NoInode, ![b] = dir[a]]
    BY DEF Rename, IInv, TypeOK
  <2>2. \A c, e \in Names : dir'[c] = dir'[e] /\ dir'[c] # NoInode => c = e
    BY <2>1 DEF IInv, OneName
  <2>3. \A i \in Inodes : ~Named(i)' => meta'[i] = EmptyMeta
    <3>1. meta' = Kept(dir')
      BY DEF Rename
    <3> QED BY <3>1 DEF Named, Kept
  <2> QED BY <2>2, <2>3 DEF OneName
<1> QED BY <1>1, <1>2, ServeQuiet, InvQuietShrink DEF Rename, ncfsVars

(* ncfs_truncate(). *)
LEMMA InvTruncate ==
    ASSUME SafeConfig, IInv, TypeOK', NEW a \in Names,
           NEW len \in -1 .. MaxBlocks, Truncate(a, len)
    PROVE  IInv'
<1>1. len = -1
  BY DEF Truncate, SafeConfig
<1>2. meta' = [meta EXCEPT ![dir[a]] = EmptyMeta]
  <2>1. [j \in Index |-> IF j >= len THEN NoBlock
                         ELSE IF meta[dir[a]].info[j] = NoBlock THEN Zeros
                         ELSE meta[dir[a]].info[j]]
          = [j \in Index |-> NoBlock]
    BY <1>1, ConstantsAssumption DEF ConstantsAssumption
  <2> QED BY <1>1, <2>1 DEF Truncate, EmptyMeta
<1>3. \A i \in Inodes : meta'[i] = meta[i] \/ meta'[i] = EmptyMeta
  BY <1>2 DEF IInv, TypeOK
<1>4. OneName'
  BY <1>3 DEF IInv, OneName, Named, Truncate
<1> QED BY <1>3, <1>4, ServeQuiet, InvQuietShrink DEF Truncate, ncfsVars

(* The end of ncfs_unlink(). *)
LEMMA InvUnlinkEnd ==
    ASSUME SafeConfig, IInv, TypeOK', NEW t \in Threads, UnlinkEnd(t)
    PROVE  IInv'
<1>1. /\ req[t] # Idle /\ req[t].op = "unlink" /\ req[t].name \in Names
      /\ mounted
  BY DEF UnlinkEnd, IInv, OneRequest, TypeOK, Request, Idle
<1>2. \A u \in Threads \ {t} : req[u] = Idle
  BY <1>1 DEF IInv, OneRequest
<1>3. Quiet'
  BY <1>2 DEF UnlinkEnd, Quiet, IInv, TypeOK
<1>4. \A u \in Threads : req[u].op # "encode"
  BY <1>1, <1>2 DEF Idle
<1>5. /\ dir' = [dir EXCEPT ![req[t].name] = NoInode]
      /\ dir \in [Names -> Inodes \cup {NoInode}]
      /\ \A i \in Inodes : meta'[i] = IF Named(i)' THEN meta[i] ELSE EmptyMeta
  BY DEF UnlinkEnd, IInv, TypeOK, Kept, Named
<1>6. OneName'
  BY <1>1, <1>5 DEF IInv, OneName
<1>7. ASSUME NEW i \in Inodes, NEW j \in Index,
             NEW p \in 1 .. Len(space_list), HasInfo(i, j)'
      PROVE  meta'[i].info[j] # space_list[p]
  <2>1. Named(i)' /\ meta'[i] = meta[i] /\ HasInfo(i, j)
    BY <1>5, <1>7, NoEmptyInfo DEF HasInfo
  <2>2. PICK a \in Names : dir'[a] = i
    BY <2>1 DEF Named
  <2>3. a # req[t].name /\ dir[a] = i
    BY <1>1, <1>5, <2>2, ConstantsAssumption DEF ConstantsAssumption
  <2>4. dir[req[t].name] # i
    BY <1>1, <2>3, ConstantsAssumption DEF IInv, OneName, ConstantsAssumption
  <2>5. ~BeingFreed(i, j)
    BY <1>2, <2>4 DEF BeingFreed, Idle
  <2> QED BY <1>1, <2>1, <2>5, CurMounted DEF IInv, ListedIsFree
<1> QED BY <1>1, <1>3, <1>4, <1>5, <1>6, <1>7, InvFilesShrink
        DEF UnlinkEnd, ncfsVars

(* A write takes a block at free_offset: above all that was handed out. *)
LEMMA InvTakeFree ==
    ASSUME SafeConfig, IInv, TypeOK', NEW t \in Threads, NEW a \in Names,
           NEW idx \in Index, NEW d \in Disks, TakeFree(t, a, idx, d)
    PROVE  IInv'
<1> DEFINE fo == SkipOffset(raid_type, free_offset)
           fs == SkipSize(raid_type, free_offset, free_size)
           C == Candidates(raid_type)
<1>1. mounted /\ Quiet /\ raid_type \in RaidTypes
  BY ServeQuiet DEF TakeFree, CanStart, IInv, TypeOK
<1>2. /\ free_offset \in [Disks -> Int] /\ free_size \in [Disks -> Int]
      /\ fo \in [Disks -> Int] /\ fs \in [Disks -> Int]
      /\ \A p \in Disks : /\ fo[p] \in {free_offset[p], free_offset[p] + 1}
                          /\ fo[p] + fs[p] = free_offset[p] + free_size[p]
  <2>1. free_offset \in [Disks -> Int] /\ free_size \in [Disks -> Int]
    BY DEF IInv, TypeOK
  <2>2. fo \in [Disks -> Int] /\ fs \in [Disks -> Int]
    BY <2>1, SkipTypes
  <2>3. \A p \in Disks : /\ fo[p] \in {free_offset[p], free_offset[p] + 1}
                         /\ fo[p] + fs[p] = free_offset[p] + free_size[p]
    BY <2>1, SkipFacts, ZenonT(30)
  <2> QED BY <2>1, <2>2, <2>3
<1>3. C \subseteq Disks
  BY <1>1, CandidateDisks
<1>4. d \in C /\ fs[d] >= 1
  BY DEF TakeFree, Chosen, Eligible, HasRoom
<1> DEFINE charge(p) == ParityCharge(raid_type, d, fo[d], p)
<1>5. \A p \in Disks : charge(p) \in 0 .. StripSize
  BY ParityChargeType
<1>6. \A p \in C : charge(p) = 0
  BY <1>1, NoChargeOnData
<1>7. /\ free_offset' = [p \in Disks |-> fo[p] + charge(p)]
      /\ free_size' = [p \in Disks |-> fs[p] - charge(p)]
      /\ WriteAllowed(a, idx)
      /\ req' = [req EXCEPT ![t] = [op |-> "encode", name |-> a, idx |-> idx,
                                    blk |-> Block(d, fo[d]), num |-> 0]]
      /\ UNCHANGED <<raid_type, mounted, space_list, dir, meta>>
  BY DEF TakeFree, Encoding, fileVars
<1> HIDE DEF fo, fs, charge
<1>8. /\ CurOffset = free_offset /\ CurSize = free_size /\ CurList = space_list
      /\ CurOffset' = free_offset' /\ CurSize' = free_size'
      /\ CurList' = space_list
  BY <1>1, <1>7 DEF CurOffset, CurSize, CurList
<1>9. \A p \in C : /\ CurOffset'[p] = fo[p] /\ CurSize'[p] = fs[p]
                   /\ CurOffset[p] <= CurOffset'[p]
                   /\ CurSize'[p] <= CurSize[p]
                   /\ CurOffset'[p] + CurSize'[p] = CurOffset[p] + CurSize[p]
                   /\ CurOffset[p] \in Int /\ CurSize[p] \in Int
  BY <1>2, <1>3, <1>6, <1>7, <1>8
<1>10. StripSize \in Nat /\ MaxCount \in Nat /\ FreeSize[0] \in Nat
  BY ConstantsAssumption DEF ConstantsAssumption
<1>11. \A p \in Disks : /\ free_offset[p] >= 0 /\ free_offset[p] < MaxCount
                        /\ free_size[p] > -MaxCount /\ free_size[p] <= FreeSize[0]
  <2>1. \A p \in Disks : CurOffset[p] >= 0 /\ CurSize[p] <= FreeSize[0]
    BY DEF IInv, CountersFit
  <2> QED BY <1>7, <1>8, <2>1 DEF WriteAllowed, CountersInRange
<1>12. /\ req'[t] = [op |-> "encode", name |-> a, idx |-> idx,
                     blk |-> Block(d, fo[d]), num |-> 0]
       /\ \A u \in Threads \ {t} : req'[u] = Idle
       /\ \A u \in Threads : req'[u].op \in {"idle", "encode"}
  BY <1>1, <1>7 DEF Quiet, Idle, IInv, TypeOK
<1>13. OneRequest'
  BY <1>1, <1>7, <1>12 DEF OneRequest
<1>14. OneName' /\ Dense' /\ NoSharedBlock'
  BY <1>7 DEF IInv, OneName, Named, Dense, HasInfo, NoSharedBlock
<1>15. WriteInPlace'
  <2>1. ASSUME idx > 0 PROVE dir[a] # NoInode /\ HasInfo(dir[a], idx - 1)
    <3>1. idx - 1 \in Index
      BY <2>1, ConstantsAssumption DEF ConstantsAssumption
    <3>2. "sparse" \notin Env
      BY DEF SafeConfig
    <3> QED BY <1>7, <2>1, <3>1, <3>2, NoEmptyInfo DEF WriteAllowed, HasInfo
  <2> QED BY <1>7, <1>12, <2>1 DEF WriteInPlace, Holding, HasInfo, Idle
<1>16. UnlinkProgress'
  BY <1>12 DEF UnlinkProgress
<1>17. ASSUME NEW b, Placed(b) PROVE b # Block(d, fo[d])
  BY <1>2, <1>4, <1>8, <1>9, <1>17 DEF Placed, Block
<1>18. HeldIsPrivate'
  <2>1. \A i \in Inodes, j \in Index :
          HasInfo(i, j) => meta[i].info[j] # Block(d, fo[d])
    BY <1>17 DEF IInv, AllPlaced
  <2>2. \A p \in 1 .. Len(CurList) : CurList[p] # Block(d, fo[d])
    BY <1>17 DEF IInv, AllPlaced
  <2> QED BY <1>7, <1>8, <1>12, <2>1, <2>2
          DEF HeldIsPrivate, HasInfo, Holding, Idle
<1>19. ListedOnce' /\ ListedIsFree'
  BY <1>1, <1>7, <1>8, QuietFacts
     DEF IInv, ListedOnce, ListedIsFree, HasInfo
<1>20. Exact /\ Exact'
  <2>1. Exact
    <3>1. CurSize[d] >= 1 /\ CurSize[d] \in Int
      BY <1>2, <1>4, <1>9
    <3> QED BY <1>4, <3>1 DEF IInv, Full
  <2> QED BY <1>7, <1>9, <2>1 DEF Exact
<1>21. AllPlaced'
  <2>1. ASSUME NEW b, Placed(b)
        PROVE  /\ b.disk_id \in C /\ b.block_no \in 0 .. MaxCount
               /\ CurSize'[b.disk_id] >= 1 => b.block_no < CurOffset'[b.disk_id]
    <3>1. /\ b.disk_id \in C /\ b.block_no \in 0 .. MaxCount
          /\ CurSize[b.disk_id] >= 1 => b.block_no < CurOffset[b.disk_id]
      BY <2>1 DEF Placed
    <3>2. /\ CurOffset[b.disk_id] <= CurOffset'[b.disk_id]
          /\ CurSize'[b.disk_id] <= CurSize[b.disk_id]
          /\ CurOffset'[b.disk_id] \in Int /\ CurSize'[b.disk_id] \in Int
          /\ CurOffset[b.disk_id] \in Int /\ CurSize[b.disk_id] \in Int
      BY <1>2, <1>3, <1>9, <3>1
    <3> QED BY <3>1, <3>2, <1>10
  <2>2. \A i \in Inodes, j \in Index :
          HasInfo(i, j)' => Placed(meta[i].info[j])'
    BY <1>7, <2>1 DEF IInv, AllPlaced, Placed, HasInfo
  <2>3. \A p \in 1 .. Len(CurList') : Placed(CurList[p])'
    BY <1>7, <1>8, <2>1 DEF IInv, AllPlaced, Placed
  <2>4. PICK blk : blk = Block(d, fo[d])
    OBVIOUS
  <2>5. Reserved(blk)'
    <3>1. fo[d] \in 0 .. MaxCount
      BY <1>2, <1>10, <1>11
    <3>2. blk.disk_id = d /\ blk.block_no = fo[d]
      BY <2>4 DEF Block
    <3>3. CurOffset'[d] = fo[d] /\ CurSize'[d] >= 1 /\ d \in Candidates(raid_type')
      BY <1>4, <1>7, <1>9
    <3> QED BY <3>1, <3>2, <3>3 DEF Reserved
  <2>6. \A u \in Threads : req'[u].op = "encode" => Reserved(req[u].blk)'
    <3>1. \A u \in Threads : req'[u].op = "encode" => req'[u].blk = blk
      BY <1>12, <2>4 DEF Idle
    <3> QED BY <2>5, <3>1 DEF Reserved
  <2> QED BY <1>12, <2>2, <2>3, <2>6 DEF AllPlaced
<1>22. CountersFit'
  <2>1. Slack' \in 0 .. 1
    BY DEF Slack
  <2>2. ASSUME NEW p \in Disks
        PROVE  /\ free_offset'[p] \in 0 .. MaxCount + StripSize
               /\ free_size'[p] >= -(MaxCount + StripSize)
               /\ free_size'[p] <= FreeSize[0] /\ free_size'[p] \in Int
    <3>1. free_offset'[p] = fo[p] + charge(p) /\ free_size'[p] = fs[p] - charge(p)
      BY <1>7
    <3>2. /\ fo[p] \in Int /\ fs[p] \in Int /\ charge(p) \in 0 .. StripSize
          /\ free_offset[p] \in Int /\ free_size[p] \in Int
          /\ fo[p] \in {free_offset[p], free_offset[p] + 1}
          /\ fo[p] + fs[p] = free_offset[p] + free_size[p]
          /\ free_offset[p] >= 0 /\ free_offset[p] < MaxCount
          /\ free_size[p] > -MaxCount /\ free_size[p] <= FreeSize[0]
      BY <1>2, <1>5, <1>11
    <3> QED BY <1>10, <3>1, <3>2
  <2> QED BY <1>8, <1>10, <2>1, <2>2 DEF CountersFit, CountBound
<1> QED BY <1>13, <1>14, <1>15, <1>16, <1>18, <1>19, <1>20, <1>21, <1>22 DEF IInv

(* A scan that finds nothing has met full data disks. *)
LEMMA NothingFound ==
    ASSUME SafeConfig, IInv, mounted,
           Eligible(raid_type, SkipOffset(raid_type, free_offset),
                    SkipSize(raid_type, free_offset, free_size)) = {}
    PROVE  \A d \in Candidates(raid_type) :
             SkipSize(raid_type, free_offset, free_size)[d] <= 0
<1> DEFINE fo == SkipOffset(raid_type, free_offset)
           fs == SkipSize(raid_type, free_offset, free_size)
           C == Candidates(raid_type)
<1>1. free_offset \in [Disks -> Int] /\ free_size \in [Disks -> Int]
  BY DEF IInv, TypeOK
<1>2. fo \in [Disks -> Int] /\ fs \in [Disks -> Int]
  BY <1>1, SkipTypes
<1>3. \A p \in Disks : /\ fo[p] \in {free_offset[p], free_offset[p] + 1}
                       /\ fo[p] + fs[p] = free_offset[p] + free_size[p]
  BY <1>1 DEF SkipOffset, SkipSize
<1>4. Eligible(raid_type, fo, fs) = {}
  OBVIOUS
<1>5. raid_type \in RaidTypes /\ C \subseteq Disks
  BY CandidateDisks DEF IInv, TypeOK
<1> HIDE DEF fo, fs
<1>6. CurOffset = free_offset /\ CurSize = free_size
  BY CurMounted
<1>7. \/ \A d \in C : fs[d] <= 0
      \/ \A d \in C : fo[d] + fs[d] = FreeSize[d]
  <2>1. CASE Full
    <3>1. ASSUME NEW d \in C PROVE fs[d] <= 0
      <4>1. free_size[d] <= 0
        BY <1>6, <2>1 DEF Full
      <4> QED BY <1>1, <1>2, <1>3, <1>5, <4>1
    <3> QED BY <3>1
  <2>2. CASE Exact
    BY <1>3, <1>5, <1>6, <2>2 DEF Exact
  <2> QED BY <2>1, <2>2 DEF IInv
<1>8. \A d \in C : fs[d] <= 0
  BY <1>2, <1>4, <1>5, <1>7, ScanFindsFree
<1> QED BY <1>8 DEF fs

(* A failed scan leaves every data disk full, and the counters in range. *)
LEMMA ScanFailsFull ==
    ASSUME SafeConfig, IInv, mounted, ScanFails, CountersInRange,
           UNCHANGED <<raid_type, mounted>>
    PROVE  /\ Full' /\ CountersFit'
           /\ \A d \in Candidates(raid_type) :
                SkipSize(raid_type, free_offset, free_size)[d] <= 0
<1> DEFINE fo == SkipOffset(raid_type, free_offset)
           fs == SkipSize(raid_type, free_offset, free_size)
           C == Candidates(raid_type)
<1>1. free_offset \in [Disks -> Int] /\ free_size \in [Disks -> Int]
  BY DEF IInv, TypeOK
<1>2. fo \in [Disks -> Int] /\ fs \in [Disks -> Int]
  BY <1>1, SkipTypes
<1>3. \A p \in Disks : /\ fo[p] \in {free_offset[p], free_offset[p] + 1}
                       /\ fo[p] + fs[p] = free_offset[p] + free_size[p]
  BY <1>1, SkipFacts
<1>4. free_offset' = fo /\ free_size' = fs /\ Eligible(raid_type, fo, fs) = {}
  BY DEF ScanFails
<1>5. raid_type \in RaidTypes /\ C \subseteq Disks
  BY CandidateDisks DEF IInv, TypeOK
<1> HIDE DEF fo, fs
<1>6. /\ CurOffset = free_offset /\ CurSize = free_size
      /\ CurOffset' = fo /\ CurSize' = fs
  BY <1>4 DEF CurOffset, CurSize
<1>8. \A d \in C : fs[d] <= 0
  BY NothingFound DEF ScanFails, fs
<1>9. Full'
  BY <1>6, <1>8 DEF Full
<1>10. CountersFit'
  <2>1. StripSize \in Nat /\ MaxCount \in Nat /\ FreeSize[0] \in Nat
    BY ConstantsAssumption DEF ConstantsAssumption
  <2>2. ASSUME NEW p \in Disks
        PROVE  /\ fo[p] \in 0 .. MaxCount /\ fs[p] >= -MaxCount
               /\ fs[p] <= FreeSize[0] /\ fs[p] \in Int
    <3>1. CurOffset[p] >= 0 /\ CurSize[p] <= FreeSize[0]
      BY DEF IInv, CountersFit
    <3>2. free_offset[p] < MaxCount /\ free_size[p] > -MaxCount
      BY DEF CountersInRange
    <3>3. /\ fo[p] \in Int /\ fs[p] \in Int
          /\ free_offset[p] \in Int /\ free_size[p] \in Int
          /\ fo[p] \in {free_offset[p], free_offset[p] + 1}
          /\ fo[p] + fs[p] = free_offset[p] + free_size[p]
      BY <1>1, <1>2, <1>3
    <3> QED BY <1>6, <2>1, <3>1, <3>2, <3>3
  <2>3. Slack' \in 0 .. 1
    BY DEF Slack
  <2>4. StripSize >= 1
    BY ConstantsAssumption DEF ConstantsAssumption
  <2> QED BY <1>6, <2>1, <2>2, <2>3, <2>4 DEF CountersFit, CountBound
<1> QED BY <1>8, <1>9, <1>10 DEF fs

(* Once the disks are full, a block stays where it was placed. *)
LEMMA PlacedFull ==
    ASSUME Full', raid_type' = raid_type, CurSize' \in [Disks -> Int],
           raid_type \in RaidTypes, NEW b, Placed(b)
    PROVE  Placed(b)'
<1>1. /\ b.disk_id \in Candidates(raid_type) /\ b.block_no \in 0 .. MaxCount
  BY DEF Placed
<1>2. CurSize'[b.disk_id] <= 0 /\ CurSize'[b.disk_id] \in Int
  BY <1>1, CandidateDisks DEF Full
<1> QED BY <1>1, <1>2 DEF Placed

(* A write without space. *)
LEMMA InvNoSpace ==
    ASSUME SafeConfig, IInv, TypeOK', NEW t \in Threads, NEW a \in Names,
           NEW idx \in Index, NoSpace(t, a, idx)
    PROVE  IInv'
<1>1. mounted /\ Quiet /\ Quiet'
  BY ServeQuiet DEF NoSpace, CanStart, Quiet
<1>2. /\ UNCHANGED <<raid_type, mounted, space_list, dir, meta, req>>
      /\ ScanFails /\ CountersInRange
  BY DEF NoSpace, fileVars, WriteAllowed
<1>3. Full' /\ CountersFit'
  BY <1>1, <1>2, ScanFailsFull
<1>4. CurList' = CurList /\ CurSize' \in [Disks -> Int] /\ raid_type \in RaidTypes
  BY <1>1, <1>2 DEF CurList, CurSize, TypeOK, IInv
<1>5. OneRequest' /\ WriteInPlace' /\ UnlinkProgress' /\ HeldIsPrivate'
  BY <1>1 DEF OneRequest, WriteInPlace, UnlinkProgress, HeldIsPrivate, Quiet,
              Holding, Idle
<1>6. OneName' /\ Dense' /\ NoSharedBlock'
  BY <1>2 DEF IInv, OneName, Named, Dense, HasInfo, NoSharedBlock
<1>7. ListedOnce' /\ ListedIsFree'
  BY <1>1, <1>2, <1>4, QuietFacts DEF IInv, ListedOnce, ListedIsFree, HasInfo
<1>8. AllPlaced'
  <2>1. ASSUME NEW i \in Inodes, NEW j \in Index, HasInfo(i, j)'
        PROVE  Placed(meta[i].info[j])'
    <3>1. PICK b : b = meta[i].info[j]
      OBVIOUS
    <3>2. Placed(b)
      BY <1>2, <2>1, <3>1 DEF IInv, AllPlaced, HasInfo
    <3>3. Placed(b)'
      BY <1>2, <1>3, <1>4, <3>2, PlacedFull
    <3> QED BY <1>2, <3>1, <3>3 DEF Placed
  <2>2. ASSUME NEW p \in 1 .. Len(CurList') PROVE Placed(CurList[p])'
    <3>1. PICK b : b = CurList[p]
      OBVIOUS
    <3>2. Placed(b)
      BY <1>4, <3>1 DEF IInv, AllPlaced
    <3>3. Placed(b)'
      BY <1>2, <1>3, <1>4, <3>2, PlacedFull
    <3> QED BY <1>4, <3>1, <3>3 DEF Placed
  <2> QED BY <1>1, <2>1, <2>2 DEF AllPlaced, Quiet, Idle
<1> QED BY <1>3, <1>5, <1>6, <1>7, <1>8 DEF IInv

(* A write takes the head of the list: a deleted space, now nobody else's. *)
LEMMA InvTakeListed ==
    ASSUME SafeConfig, IInv, TypeOK', NEW t \in Threads, NEW a \in Names,
           NEW idx \in Index, TakeListed(t, a, idx)
    PROVE  IInv'
<1>1. mounted /\ Quiet
  BY ServeQuiet DEF TakeListed, CanStart
<1>2. PICK blk : blk = Head(space_list)
  OBVIOUS
<1>3. /\ UNCHANGED <<raid_type, mounted, dir, meta>>
      /\ ScanFails /\ CountersInRange /\ WriteAllowed(a, idx)
      /\ space_list # <<>> /\ space_list' = Tail(space_list)
      /\ req' = [req EXCEPT ![t] = [op |-> "encode", name |-> a, idx |-> idx,
                                    blk |-> blk, num |-> 0]]
  BY <1>2 DEF TakeListed, fileVars, WriteAllowed, Encoding
<1>4. Full' /\ CountersFit'
  BY <1>1, <1>3, ScanFailsFull
<1>5. /\ CurList = space_list /\ CurList' = Tail(space_list)
      /\ CurSize' \in [Disks -> Int] /\ raid_type \in RaidTypes
      /\ space_list \in Seq(BlockInfo)
  BY <1>1, <1>3 DEF CurList, CurSize, TypeOK, IInv
<1>6. /\ Len(CurList) \in Nat /\ Len(CurList) >= 1
      /\ Len(CurList') = Len(CurList) - 1
      /\ blk = CurList[1]
      /\ \A p \in 1 .. Len(CurList') :
           CurList'[p] = CurList[p + 1] /\ p + 1 \in 1 .. Len(CurList)
  BY <1>2, <1>3, <1>5
<1>7. /\ req'[t] = [op |-> "encode", name |-> a, idx |-> idx, blk |-> blk,
                    num |-> 0]
      /\ \A u \in Threads \ {t} : req'[u] = Idle
      /\ \A u \in Threads : req'[u].op \in {"idle", "encode"}
  BY <1>1, <1>3 DEF Quiet, Idle, IInv, TypeOK
<1>8. OneRequest' /\ UnlinkProgress'
  BY <1>1, <1>3, <1>7 DEF OneRequest, UnlinkProgress
<1>9. OneName' /\ Dense' /\ NoSharedBlock'
  BY <1>3 DEF IInv, OneName, Named, Dense, HasInfo, NoSharedBlock
<1>10. WriteInPlace'
  <2>1. ASSUME idx > 0 PROVE dir[a] # NoInode /\ HasInfo(dir[a], idx - 1)
    <3>1. idx - 1 \in Index
      BY <2>1, ConstantsAssumption DEF ConstantsAssumption
    <3>2. "sparse" \notin Env
      BY DEF SafeConfig
    <3> QED BY <1>3, <2>1, <3>1, <3>2, NoEmptyInfo DEF WriteAllowed, HasInfo
  <2> QED BY <1>3, <1>7, <2>1 DEF WriteInPlace, Holding, HasInfo, Idle
<1>11. \A i \in Inodes, j \in Index : \A p \in 1 .. Len(CurList) :
         HasInfo(i, j) => meta[i].info[j] # CurList[p]
  BY <1>1, QuietFacts DEF IInv, ListedIsFree
<1>12. HeldIsPrivate'
  <2>1. \A i \in Inodes, j \in Index : HasInfo(i, j) => meta[i].info[j] # blk
    BY <1>6, <1>11
  <2>2. \A p \in 1 .. Len(CurList') : CurList'[p] # blk
    BY <1>6 DEF IInv, ListedOnce
  <2> QED BY <1>3, <1>7, <2>1, <2>2 DEF HeldIsPrivate, HasInfo, Holding, Idle
<1>13. ListedOnce' /\ ListedIsFree'
  <2>1. ListedOnce'
    BY <1>6 DEF IInv, ListedOnce
  <2>2. ListedIsFree'
    BY <1>3, <1>6, <1>11 DEF ListedIsFree, HasInfo
  <2> QED BY <2>1, <2>2
<1>14. AllPlaced'
  <2>1. ASSUME NEW i \in Inodes, NEW j \in Index, HasInfo(i, j)'
        PROVE  Placed(meta[i].info[j])'
    <3>1. PICK b : b = meta[i].info[j]
      OBVIOUS
    <3>2. Placed(b)
      BY <1>3, <2>1, <3>1 DEF IInv, AllPlaced, HasInfo
    <3>3. Placed(b)'
      BY <1>3, <1>4, <1>5, <3>2, PlacedFull
    <3> QED BY <1>3, <3>1, <3>3 DEF Placed
  <2>2. ASSUME NEW p \in 1 .. Len(CurList') PROVE Placed(CurList[p])'
    <3>1. PICK b : b = CurList[p + 1]
      OBVIOUS
    <3>2. Placed(b)
      BY <1>6, <3>1 DEF IInv, AllPlaced
    <3>3. Placed(b)'
      BY <1>3, <1>4, <1>5, <3>2, PlacedFull
    <3> QED BY <1>6, <3>1, <3>3 DEF Placed
  <2>3. Placed(blk)
    BY <1>6 DEF IInv, AllPlaced
  <2>4. Reserved(blk)'
    BY <1>3, <1>4, <2>3 DEF Placed, Reserved
  <2>5. \A u \in Threads : req'[u].op = "encode" => Reserved(req[u].blk)'
    <3>1. \A u \in Threads : req'[u].op = "encode" => req'[u].blk = blk
      BY <1>7 DEF Idle
    <3> QED BY <2>4, <3>1 DEF Reserved
  <2> QED BY <1>7, <2>1, <2>2, <2>5 DEF AllPlaced
<1> QED BY <1>4, <1>8, <1>9, <1>10, <1>12, <1>13, <1>14 DEF IInv

(* The only thread with a request under way. *)
LEMMA ActiveThread ==
    ASSUME IInv, NEW t \in Threads, req[t].op # "idle"
    PROVE  mounted /\ \A u \in Threads \ {t} : req[u] = Idle
  BY DEF IInv, OneRequest, Idle

(* The counters are advanced. *)
LEMMA InvCharge ==
    ASSUME SafeConfig, IInv, TypeOK', NEW t \in Threads, Charge(t)
    PROVE  IInv'
<1>1. mounted /\ req[t].op = "encode" /\ \A u \in Threads \ {t} : req[u] = Idle
  BY ActiveThread DEF Charge
<1>2. PICK blk : blk = req[t].blk
  OBVIOUS
<1>3. /\ UNCHANGED <<raid_type, mounted, space_list, dir, meta>>
      /\ free_offset' = [free_offset EXCEPT ![blk.disk_id] = blk.block_no + 1]
      /\ free_size' = [free_size EXCEPT ![blk.disk_id] = @ - 1]
      /\ req' = [req EXCEPT ![t].op = "save"]
  BY <1>2 DEF Charge, NextBlock, fileVars
<1>4. /\ req[t] \in [op : {"encode", "save"}, name : Names, idx : Index,
                      blk : BlockInfo, num : {0}]
      /\ req \in [Threads -> Request]
  BY <1>1 DEF IInv, TypeOK, Request, Idle
<1>5. /\ req'[t].op = "save" /\ req'[t].blk = blk /\ req'[t].idx = req[t].idx
      /\ req'[t].name = req[t].name
      /\ req'[t] # Idle
      /\ \A u \in Threads \ {t} : req'[u] = Idle /\ req'[u] = req[u]
  BY <1>1, <1>2, <1>3, <1>4 DEF Idle
<1>6. \A u \in Threads \ {t} : req'[u].op = "idle" /\ req[u].op = "idle"
  BY <1>5 DEF Idle
<1>7. /\ CurOffset = free_offset /\ CurSize = free_size /\ CurList = space_list
      /\ CurOffset' = free_offset' /\ CurSize' = free_size'
      /\ CurList' = CurList
  BY <1>1, <1>3 DEF CurOffset, CurSize, CurList
<1>8. /\ free_offset \in [Disks -> Int] /\ free_size \in [Disks -> Int]
      /\ raid_type \in RaidTypes /\ Candidates(raid_type) \subseteq Disks
  BY CandidateDisks DEF IInv, TypeOK
<1>9. Reserved(blk)
  BY <1>1, <1>2 DEF IInv, AllPlaced
<1>10. blk.disk_id \in Candidates(raid_type) /\ blk.block_no \in 0 .. MaxCount
  BY <1>9 DEF Reserved
<1>11. blk.disk_id \in Disks
  BY <1>8, <1>10
<1>12. OneRequest'
  BY <1>1, <1>3, <1>5 DEF OneRequest
<1>13. OneName' /\ Dense' /\ NoSharedBlock'
  BY <1>3 DEF IInv, OneName, Named, Dense, HasInfo, NoSharedBlock
<1>14. WriteInPlace' /\ UnlinkProgress'
  <2>1. ASSUME NEW u \in Threads, Holding(u)', req'[u].idx > 0
        PROVE  (dir[req[u].name] # NoInode /\ HasInfo(dir[req[u].name], req[u].idx - 1))'
    <3>1. u = t
      BY <1>6, <2>1 DEF Holding
    <3>2. Holding(t) /\ req[t].idx > 0
      BY <1>1, <1>5, <2>1, <3>1 DEF Holding
    <3>3. dir[req[t].name] # NoInode /\ HasInfo(dir[req[t].name], req[t].idx - 1)
      BY <3>2 DEF IInv, WriteInPlace
    <3> QED BY <1>3, <1>5, <3>1, <3>3 DEF HasInfo
  <2>2. \A u \in Threads : req'[u].op # "unlink"
    BY <1>5, <1>6
  <2>3. WriteInPlace'
    BY <2>1 DEF WriteInPlace
  <2>4. UnlinkProgress'
    BY <2>2 DEF UnlinkProgress
  <2> QED BY <2>3, <2>4
<1>15. HeldIsPrivate'
  BY <1>1, <1>2, <1>3, <1>5, <1>6, <1>7 DEF IInv, HeldIsPrivate, Holding, HasInfo
<1>16. ListedOnce' /\ ListedIsFree'
  <2>1. \A i \in Inodes, j \in Index : ~BeingFreed(i, j)
    BY <1>1, <1>6 DEF BeingFreed
  <2> QED BY <1>3, <1>7, <2>1 DEF IInv, ListedOnce, ListedIsFree, HasInfo
<1>17. \A p \in Disks :
         /\ CurOffset'[p] = IF p = blk.disk_id THEN blk.block_no + 1
                            ELSE CurOffset[p]
         /\ CurSize'[p] = IF p = blk.disk_id THEN CurSize[p] - 1 ELSE CurSize[p]
         /\ CurOffset[p] \in Int /\ CurSize[p] \in Int
  BY <1>3, <1>7, <1>8, <1>11
<1>18. Full => Full'
  BY <1>3, <1>8, <1>17 DEF Full
<1>19. \/ Full /\ Full'
       \/ CurSize[blk.disk_id] >= 1 /\ blk.block_no = CurOffset[blk.disk_id]
  BY <1>9, <1>18 DEF Reserved
<1>20. (Full \/ Exact)'
  <2>1. CASE Full
    BY <1>18, <2>1
  <2>2. CASE Exact /\ blk.block_no = CurOffset[blk.disk_id]
    <3>1. ASSUME NEW p \in Candidates(raid_type)
          PROVE  CurOffset'[p] + CurSize'[p] = FreeSize[p]
      <4>1. p \in Disks /\ CurOffset[p] + CurSize[p] = FreeSize[p]
        BY <1>8, <2>2 DEF Exact
      <4> QED BY <1>17, <2>2, <4>1
    <3> QED BY <1>3, <3>1 DEF Exact
  <2> QED BY <1>19, <2>1, <2>2 DEF IInv
<1>21. ASSUME NEW b, Placed(b) PROVE Placed(b)'
  <2>1. CASE Full'
    <3>1. CurSize' \in [Disks -> Int]
      BY <1>7 DEF TypeOK
    <3> QED BY <1>3, <1>8, <1>21, <2>1, <3>1, PlacedFull
  <2>2. CASE CurSize[blk.disk_id] >= 1 /\ blk.block_no = CurOffset[blk.disk_id]
    <3>1. /\ b.disk_id \in Candidates(raid_type) /\ b.block_no \in 0 .. MaxCount
          /\ CurSize[b.disk_id] >= 1 => b.block_no < CurOffset[b.disk_id]
      BY <1>21 DEF Placed
    <3>2. CurSize'[b.disk_id] >= 1 => b.block_no < CurOffset'[b.disk_id]
      BY <1>8, <1>17, <2>2, <3>1
    <3> QED BY <1>3, <3>1, <3>2 DEF Placed
  <2> QED BY <1>19, <2>1, <2>2
<1>22. Placed(blk)'
  BY <1>3, <1>10, <1>11, <1>17 DEF Placed
<1>23. AllPlaced'
  <2>1. ASSUME NEW i \in Inodes, NEW j \in Index, HasInfo(i, j)'
        PROVE  Placed(meta[i].info[j])'
    <3>1. PICK b : b = meta[i].info[j]
      OBVIOUS
    <3>2. Placed(b)'
      BY <1>3, <1>21, <2>1, <3>1 DEF IInv, AllPlaced, HasInfo
    <3> QED BY <1>3, <3>1, <3>2 DEF Placed
  <2>2. ASSUME NEW p \in 1 .. Len(CurList') PROVE Placed(CurList[p])'
    <3>1. PICK b : b = CurList[p]
      OBVIOUS
    <3>2. Placed(b)'
      BY <1>7, <1>21, <3>1 DEF IInv, AllPlaced
    <3> QED BY <1>7, <3>1, <3>2 DEF Placed
  <2>3. \A u \in Threads : req'[u].op = "save" => req'[u].blk = blk
    BY <1>5, <1>6
  <2>4. \A u \in Threads : req'[u].op # "encode"
    BY <1>5, <1>6
  <2> QED BY <1>22, <2>1, <2>2, <2>3, <2>4 DEF AllPlaced, Placed
<1>24. CountersFit'
  <2>1. Slack = 1 /\ Slack' = 0
    BY <1>1, <1>5, <1>6 DEF Slack
  <2>2. MaxCount \in Nat /\ StripSize \in Nat
    BY ConstantsAssumption DEF ConstantsAssumption
  <2>3. FreeSize[0] \in Nat
    BY ConstantsAssumption DEF ConstantsAssumption
  <2>4. ASSUME NEW p \in Disks
        PROVE  /\ CurOffset[p] \in 0 .. CountBound - 1
               /\ CurSize[p] >= 1 - CountBound /\ CurSize[p] <= FreeSize[0]
    BY <2>1 DEF IInv, CountersFit
  <2>5. CountBound = MaxCount + StripSize + 1
    BY DEF CountBound
  <2>6. ASSUME NEW p \in Disks
        PROVE  /\ CurOffset'[p] \in 0 .. CountBound
               /\ CurSize'[p] >= -CountBound /\ CurSize'[p] <= FreeSize[0]
    <3>1. CurOffset'[p] \in 0 .. CountBound
      BY <1>10, <1>17, <2>2, <2>4, <2>5
    <3>2. CurSize'[p] \in {CurSize[p], CurSize[p] - 1} /\ CurSize[p] \in Int
      BY <1>17
    <3> QED BY <2>2, <2>3, <2>4, <2>5, <3>1, <3>2
  <2>7. CountBound \in Nat
    BY <2>2, <2>5
  <2> QED BY <2>1, <2>6, <2>7 DEF CountersFit
<1> QED BY <1>12, <1>13, <1>14, <1>15, <1>16, <1>20, <1>23, <1>24 DEF IInv

(* What saving a block does to the files. *)
LEMMA SaveEffect ==
    ASSUME SafeConfig, IInv, NEW t \in Threads, SaveInfo(t),
           NEW blk, NEW idx, NEW a,
           blk = req[t].blk, idx = req[t].idx, a = req[t].name
    PROVE  /\ idx \in Index /\ a \in Names /\ blk \in BlockInfo
           /\ \E i0 \in Inodes :
                /\ dir' = [dir EXCEPT ![a] = i0]
                /\ dir[a] = i0 \/ (dir[a] = NoInode /\ ~Named(i0))
                /\ \A j \in Index : j < idx => HasInfo(i0, j)
                /\ meta'[i0].size = idx + 1
                /\ \A i \in Inodes \ {i0} : meta'[i] = meta[i]
                /\ \A i \in Inodes, j \in Index :
                     /\ HasInfo(i, j)' <=> HasInfo(i, j) \/ (i = i0 /\ j = idx)
                     /\ meta'[i].info[j] = IF i = i0 /\ j = idx THEN blk
                                           ELSE meta[i].info[j]
<1>1. mounted /\ req[t].op = "save" /\ \A u \in Threads \ {t} : req[u] = Idle
  BY ActiveThread DEF SaveInfo
<1>2. blk = req[t].blk /\ idx = req[t].idx /\ a = req[t].name
  OBVIOUS
<1>3. idx \in Index /\ a \in Names /\ blk \in BlockInfo
  BY <1>1, <1>2 DEF IInv, TypeOK, Request, Idle
<1>4. blk # NoBlock
  BY <1>3 DEF BlockInfo, NoBlock
<1> DEFINE Saved(m) == [size |-> idx + 1,
                        info |-> [j \in Index |->
                                    IF j = idx THEN blk
                                    ELSE IF j < idx /\ m.info[j] = NoBlock
                                    THEN Zeros ELSE m.info[j]]]
<1>5. PICK i0 \in Inodes :
        /\ dir' = [dir EXCEPT ![a] = i0]
        /\ meta' = [meta EXCEPT ![i0] = Saved(meta[i0])]
        /\ dir[a] = i0 \/ (dir[a] = NoInode /\ ~Named(i0))
  <2>1. CASE /\ dir[a] # NoInode
             /\ meta' = [meta EXCEPT ![dir[a]] = Saved(meta[dir[a]])]
             /\ UNCHANGED dir
    <3>1. dir[a] \in Inodes /\ dir' = [dir EXCEPT ![a] = dir[a]]
      BY <1>3, <2>1 DEF IInv, TypeOK
    <3> QED BY <2>1, <3>1
  <2>2. CASE /\ dir[a] = NoInode
             /\ \E i \in Inodes :
                  /\ ~Named(i)
                  /\ dir' = [dir EXCEPT ![a] = i]
                  /\ meta' = [meta EXCEPT ![i] = Saved(EmptyMeta)]
    <3>1. \A i \in Inodes : ~Named(i) => meta[i] = EmptyMeta
      BY DEF IInv, OneName
    <3> HIDE DEF Saved
    <3> QED BY <2>2, <3>1
  <2> DEFINE InRequest(m) == [size |-> req[t].idx + 1,
                              info |-> [j \in Index |->
                                          IF j = req[t].idx THEN req[t].blk
                                          ELSE IF j < req[t].idx /\ m.info[j] = NoBlock
                                          THEN Zeros ELSE m.info[j]]]
  <2>3. \/ /\ dir[req[t].name] # NoInode
           /\ meta' = [meta EXCEPT ![dir[req[t].name]] =
                                     InRequest(meta[dir[req[t].name]])]
           /\ UNCHANGED dir
        \/ /\ dir[req[t].name] = NoInode
           /\ \E i \in Inodes :
                /\ ~Named(i)
                /\ dir' = [dir EXCEPT ![req[t].name] = i]
                /\ meta' = [meta EXCEPT ![i] = InRequest(EmptyMeta)]
    BY DEF SaveInfo
  <2>4. ASSUME NEW m PROVE InRequest(m) = Saved(m)
    BY <1>2
  <2> HIDE DEF Saved, InRequest
  <2>5. \/ /\ dir[a] # NoInode
           /\ meta' = [meta EXCEPT ![dir[a]] = Saved(meta[dir[a]])]
           /\ UNCHANGED dir
        \/ /\ dir[a] = NoInode
           /\ \E i \in Inodes :
                /\ ~Named(i)
                /\ dir' = [dir EXCEPT ![a] = i]
                /\ meta' = [meta EXCEPT ![i] = Saved(EmptyMeta)]
    BY <1>2, <2>3, <2>4
  <2> QED BY <2>1, <2>2, <2>5
<1>6. \A j \in Index : j < idx => HasInfo(i0, j)
  <2> SUFFICES ASSUME NEW j \in Index, j < idx PROVE HasInfo(i0, j)
    OBVIOUS
  <2>1. idx > 0 /\ idx - 1 \in Index /\ (j < idx - 1 \/ j = idx - 1)
    BY <1>3, ConstantsAssumption DEF ConstantsAssumption
  <2>2. dir[a] # NoInode /\ HasInfo(dir[a], idx - 1)
    BY <1>1, <1>2, <2>1 DEF IInv, WriteInPlace, Holding
  <2>3. dir[a] = i0
    BY <1>5, <2>2
  <2> QED BY <2>1, <2>2, <2>3 DEF IInv, Dense
<1>7. /\ meta'[i0].size = idx + 1
      /\ \A j \in Index : meta'[i0].info[j] = IF j = idx THEN blk
                                               ELSE meta[i0].info[j]
      /\ \A i \in Inodes \ {i0} : meta'[i] = meta[i]
  BY <1>5, <1>6 DEF HasInfo, IInv, TypeOK
<1>8. \A i \in Inodes, j \in Index :
        /\ HasInfo(i, j)' <=> HasInfo(i, j) \/ (i = i0 /\ j = idx)
        /\ meta'[i].info[j] = IF i = i0 /\ j = idx THEN blk ELSE meta[i].info[j]
  BY <1>4, <1>7 DEF HasInfo
<1> QED BY <1>3, <1>5, <1>6, <1>7, <1>8

(* The file gets the block nobody else has. *)
LEMMA InvSaveInfo ==
    ASSUME SafeConfig, IInv, TypeOK', NEW t \in Threads, SaveInfo(t)
    PROVE  IInv'
<1>1. mounted /\ req[t].op = "save" /\ \A u \in Threads \ {t} : req[u] = Idle
  BY ActiveThread DEF SaveInfo
<1>2. PICK blk, idx, a : blk = req[t].blk /\ idx = req[t].idx /\ a = req[t].name
  OBVIOUS
<1>3. idx \in Index /\ a \in Names /\ blk \in BlockInfo
  BY <1>2, SaveEffect
<1>5. PICK i0 \in Inodes :
        /\ dir' = [dir EXCEPT ![a] = i0]
        /\ dir[a] = i0 \/ (dir[a] = NoInode /\ ~Named(i0))
        /\ \A j \in Index : j < idx => HasInfo(i0, j)
        /\ meta'[i0].size = idx + 1
        /\ \A i \in Inodes \ {i0} : meta'[i] = meta[i]
        /\ \A i \in Inodes, j \in Index :
             /\ HasInfo(i, j)' <=> HasInfo(i, j) \/ (i = i0 /\ j = idx)
             /\ meta'[i].info[j] = IF i = i0 /\ j = idx THEN blk
                                   ELSE meta[i].info[j]
  BY <1>2, SaveEffect
<1>6. \A j \in Index : j < idx => HasInfo(i0, j)
  BY <1>5
<1>7. /\ meta'[i0].size = idx + 1
      /\ \A i \in Inodes \ {i0} : meta'[i] = meta[i]
  BY <1>5
<1>8. \A i \in Inodes, j \in Index :
        /\ HasInfo(i, j)' <=> HasInfo(i, j) \/ (i = i0 /\ j = idx)
        /\ meta'[i].info[j] = IF i = i0 /\ j = idx THEN blk ELSE meta[i].info[j]
  BY <1>5
<1>9. /\ UNCHANGED <<raid_type, mounted, free_offset, free_size, space_list>>
      /\ req' = [req EXCEPT ![t] = Idle]
  BY DEF SaveInfo, ncfsVars
<1>10. Quiet' /\ \A u \in Threads : req'[u].op = "idle"
  BY <1>1, <1>9 DEF Quiet, Idle, IInv, TypeOK
<1>11. /\ CurOffset = free_offset /\ CurSize = free_size /\ CurList = space_list
       /\ UNCHANGED <<CurOffset, CurSize, CurList>>
  BY <1>1, <1>9 DEF CurOffset, CurSize, CurList
<1>12. OneRequest' /\ WriteInPlace' /\ UnlinkProgress' /\ HeldIsPrivate'
  BY <1>10 DEF OneRequest, WriteInPlace, UnlinkProgress, HeldIsPrivate, Quiet,
               Holding, Idle
<1>13. OneName'
  <2>1. dir \in [Names -> Inodes \cup {NoInode}] /\ NoInode \notin Inodes
    BY ConstantsAssumption DEF IInv, TypeOK, ConstantsAssumption
  <2>2. \A b \in Names : dir[b] = i0 => b = a
    BY <1>3, <1>5, <2>1 DEF IInv, OneName, Named
  <2>3. \A b, c \in Names : dir'[b] = dir'[c] /\ dir'[b] # NoInode => b = c
    BY <1>3, <1>5, <2>1, <2>2 DEF IInv, OneName
  <2>4. ASSUME NEW i \in Inodes, ~Named(i)' PROVE meta'[i] = EmptyMeta
    <3>1. i # i0
      BY <1>3, <1>5, <2>1, <2>4 DEF Named
    <3>2. ~Named(i)
      BY <1>3, <1>5, <2>1, <2>4 DEF Named
    <3> QED BY <1>7, <3>1, <3>2 DEF IInv, OneName
  <2> QED BY <2>3, <2>4 DEF OneName
<1>14. Dense'
  <2> SUFFICES ASSUME NEW i \in Inodes, NEW j \in Index
               PROVE  /\ HasInfo(i, j)' =>
                            \A k \in Index : k < j => HasInfo(i, k)'
                      /\ j < meta'[i].size => HasInfo(i, j)'
    BY DEF Dense
  <2>1. HasInfo(i, j)' => \A k \in Index : k < j => HasInfo(i, k)'
    BY <1>6, <1>8 DEF IInv, Dense
  <2>2. j < meta'[i].size => HasInfo(i, j)'
    <3>1. CASE i = i0
      <4>1. j < idx + 1 => j < idx \/ j = idx
        BY <1>3, ConstantsAssumption DEF ConstantsAssumption
      <4> QED BY <1>6, <1>7, <1>8, <3>1, <4>1
    <3>2. CASE i # i0
      BY <1>7, <1>8, <3>2 DEF IInv, Dense
    <3> QED BY <3>1, <3>2
  <2> QED BY <2>1, <2>2
<1>15. /\ \A i \in Inodes, j \in Index : HasInfo(i, j) => meta[i].info[j] # blk
       /\ \A p \in 1 .. Len(CurList) : CurList[p] # blk
  BY <1>1, <1>2 DEF IInv, HeldIsPrivate, Holding
<1>16. NoSharedBlock'
  BY <1>8, <1>15 DEF IInv, NoSharedBlock
<1>17. ListedOnce' /\ ListedIsFree'
  <2>1. \A i \in Inodes, j \in Index : ~BeingFreed(i, j)
    BY <1>1 DEF BeingFreed, Idle
  <2> QED BY <1>8, <1>11, <1>15, <2>1 DEF IInv, ListedOnce, ListedIsFree
<1>18. (Full \/ Exact)'
  BY <1>9, <1>11 DEF IInv, Full, Exact
<1>19. AllPlaced'
  <2>1. Placed(blk)
    BY <1>1, <1>2 DEF IInv, AllPlaced
  <2>2. ASSUME NEW i \in Inodes, NEW j \in Index, HasInfo(i, j)'
        PROVE  Placed(meta[i].info[j])'
    <3>1. PICK b : b = meta'[i].info[j]
      OBVIOUS
    <3>2. Placed(b)
      BY <1>8, <2>1, <2>2, <3>1 DEF IInv, AllPlaced
    <3> QED BY <1>9, <1>11, <3>1, <3>2 DEF Placed
  <2>3. \A p \in 1 .. Len(CurList') : Placed(CurList[p])'
    BY <1>9, <1>11 DEF IInv, AllPlaced, Placed
  <2> QED BY <1>10, <2>2, <2>3 DEF AllPlaced
<1>20. CountersFit'
  <2>1. Slack = 0 /\ Slack' = 0
    BY <1>1, <1>10 DEF Slack, Idle
  <2> QED BY <1>11, <2>1 DEF IInv, CountersFit
<1> QED BY <1>12, <1>13, <1>14, <1>16, <1>17, <1>18, <1>19, <1>20 DEF IInv

(* The start of ncfs_unlink(). *)
LEMMA InvUnlinkStart ==
    ASSUME SafeConfig, IInv, TypeOK', NEW t \in Threads, NEW a \in Names,
           UnlinkStart(t, a)
    PROVE  IInv'
<1>1. mounted /\ Quiet /\ dir[a] # NoInode
  BY ServeQuiet DEF UnlinkStart, CanStart
<1>2. /\ meta[dir[a]].size # -1
      /\ req' = [req EXCEPT ![t] = [op |-> "unlink", name |-> a, idx |-> 0,
                                    blk |-> Zeros, num |-> meta[dir[a]].size]]
      /\ UNCHANGED <<raid_type, mounted, free_offset, free_size, space_list, dir,
                     meta>>
  BY DEF UnlinkStart, SafeConfig, ncfsVars, fileVars
<1>3. /\ req'[t].op = "unlink" /\ req'[t].name = a /\ req'[t].idx = 0
      /\ req'[t].num = meta[dir[a]].size
      /\ \A u \in Threads \ {t} : req'[u] = Idle /\ req'[u].op = "idle"
  BY <1>1, <1>2 DEF Quiet, Idle, IInv, TypeOK
<1>4. /\ CurOffset = free_offset /\ CurSize = free_size /\ CurList = space_list
      /\ UNCHANGED <<CurOffset, CurSize, CurList>>
  BY <1>1, <1>2 DEF CurOffset, CurSize, CurList
<1>5. OneRequest' /\ WriteInPlace' /\ HeldIsPrivate'
  BY <1>1, <1>2, <1>3 DEF OneRequest, WriteInPlace, HeldIsPrivate, Holding
<1>6. UnlinkProgress'
  <2>1. meta[dir[a]].size \in -1 .. MaxBlocks
    BY <1>1 DEF IInv, TypeOK, MetaFile
  <2>2. 0 <= meta[dir[a]].size
    BY <1>2, <2>1, ConstantsAssumption DEF ConstantsAssumption
  <2> QED BY <1>1, <1>2, <1>3, <2>2 DEF UnlinkProgress
<1>7. OneName' /\ Dense' /\ NoSharedBlock'
  BY <1>2 DEF IInv, OneName, Named, Dense, HasInfo, NoSharedBlock
<1>8. ListedOnce' /\ ListedIsFree'
  BY <1>1, <1>2, <1>4, QuietFacts DEF IInv, ListedOnce, ListedIsFree, HasInfo
<1>9. (Full \/ Exact)'
  BY <1>2, <1>4 DEF IInv, Full, Exact
<1>10. AllPlaced'
  <2>1. \A i \in Inodes, j \in Index :
          HasInfo(i, j)' => Placed(meta[i].info[j])'
    BY <1>2, <1>4 DEF IInv, AllPlaced, Placed, HasInfo
  <2>2. \A p \in 1 .. Len(CurList') : Placed(CurList[p])'
    BY <1>2, <1>4 DEF IInv, AllPlaced, Placed
  <2> QED BY <1>3, <2>1, <2>2 DEF AllPlaced
<1>11. CountersFit'
  <2>1. Slack = 0 /\ Slack' = 0
    BY <1>1, <1>3, QuietFacts DEF Slack
  <2> QED BY <1>4, <2>1 DEF IInv, CountersFit
<1> QED BY <1>5, <1>6, <1>7, <1>8, <1>9, <1>10, <1>11 DEF IInv

(* One more block of the file on the list: it was not there before. *)
LEMMA InvUnlinkAdd ==
    ASSUME SafeConfig, IInv, TypeOK', NEW t \in Threads, UnlinkAdd(t)
    PROVE  IInv'
<1>1. mounted /\ req[t].op = "unlink" /\ \A u \in Threads \ {t} : req[u] = Idle
  BY ActiveThread DEF UnlinkAdd
<1>2. PICK j, i, n : j = req[t].idx /\ i = dir[req[t].name] /\ n = req[t].num
  OBVIOUS
<1>3. /\ req[t] \in [op : {"unlink"}, name : Names, idx : 0 .. MaxBlocks,
                      blk : BlockInfo, num : 0 .. MaxBlocks]
      /\ req \in [Threads -> Request]
  BY <1>1 DEF IInv, TypeOK, Request, Idle
<1>4. j \in Index /\ i \in Inodes /\ n \in 0 .. MaxBlocks /\ j < n
  <2>1. TypeOK
    BY DEF IInv
  <2> QED BY <1>2, <1>3, <2>1, UnlinkAddFacts
<1>5. HasInfo(i, j)
  <2>1. meta[i].size = n
    BY <1>1, <1>2 DEF IInv, UnlinkProgress
  <2> QED BY <1>4, <2>1 DEF IInv, Dense
<1>6. PICK info : info = meta[i].info[j]
  OBVIOUS
<1>7. info \in BlockInfo
  <2>1. meta[i] \in MetaFile
    BY <1>4 DEF IInv, TypeOK
  <2> QED BY <1>4, <1>5, <1>6, <2>1 DEF MetaFile, HasInfo
<1>8. PICK q \in 1 .. Len(space_list) + 1 :
        space_list' = InsertNode(space_list, info, q)
  BY <1>2, <1>5, <1>6 DEF UnlinkAdd
<1>9. /\ req' = [req EXCEPT ![t] = [req[t] EXCEPT !.idx = j + 1, !.blk = info]]
      /\ UNCHANGED <<raid_type, mounted, free_offset, free_size, dir, meta>>
  BY <1>2, <1>3, <1>5, <1>6 DEF UnlinkAdd, fileVars
<1>10. /\ req'[t].op = "unlink" /\ req'[t].name = req[t].name
       /\ req'[t].idx = j + 1 /\ req'[t].num = n
       /\ \A u \in Threads \ {t} : req'[u] = Idle
  BY <1>1, <1>2, <1>3, <1>9
<1>11. \A u \in Threads \ {t} : req[u].op = "idle" /\ req'[u].op = "idle"
  BY <1>1, <1>10 DEF Idle
<1>12. /\ CurOffset = free_offset /\ CurSize = free_size /\ CurList = space_list
       /\ UNCHANGED <<CurOffset, CurSize>> /\ CurList' = space_list'
  BY <1>1, <1>9 DEF CurOffset, CurSize, CurList
<1>13. /\ Len(CurList) \in Nat /\ Len(CurList') = Len(CurList) + 1
       /\ \A p \in 1 .. Len(CurList') :
            CurList'[p] = IF p < q THEN CurList[p]
                          ELSE IF p = q THEN info ELSE CurList[p - 1]
  <2>1. space_list \in Seq(BlockInfo) /\ Len(space_list) \in Nat
    BY DEF IInv, TypeOK
  <2> QED BY <1>7, <1>8, <1>12, <2>1, InsertNodeType
<1>14. \A p \in 1 .. Len(CurList) : CurList[p] # info
  <2>1. ~BeingFreed(i, j)
    BY <1>2, <1>4, <1>11 DEF BeingFreed
  <2> QED BY <1>4, <1>5, <1>6, <2>1 DEF IInv, ListedIsFree
<1>15. OneRequest' /\ WriteInPlace' /\ HeldIsPrivate'
  BY <1>1, <1>9, <1>10, <1>11
     DEF OneRequest, WriteInPlace, HeldIsPrivate, Holding
<1>16. UnlinkProgress'
  <2>1. j + 1 <= n
    BY <1>4, ConstantsAssumption DEF ConstantsAssumption
  <2> QED BY <1>1, <1>2, <1>9, <1>10, <1>11, <2>1 DEF IInv, UnlinkProgress
<1>17. OneName' /\ Dense' /\ NoSharedBlock'
  BY <1>9 DEF IInv, OneName, Named, Dense, HasInfo, NoSharedBlock
<1>18. ListedOnce'
  <2> SUFFICES ASSUME NEW p \in 1 .. Len(CurList'), NEW r \in 1 .. Len(CurList'),
                      p < r, CurList'[p] = CurList'[r]
               PROVE  FALSE
    BY <1>13 DEF ListedOnce
  <2>1. \A x, y \in 1 .. Len(CurList) : CurList[x] = CurList[y] => x = y
    BY DEF IInv, ListedOnce
  <2>2. q \in Int
    OBVIOUS
  <2>3. CASE r < q
    <3>1. p \in 1 .. Len(CurList) /\ r \in 1 .. Len(CurList)
      BY <1>12, <1>13, <2>2, <2>3
    <3> QED BY <1>13, <2>1, <2>2, <2>3, <3>1
  <2>4. CASE r = q
    BY <1>8, <1>13, <1>14, <2>4
  <2>5. CASE r > q /\ p < q
    BY <1>8, <1>13, <2>1, <2>5
  <2>6. CASE r > q /\ p = q
    BY <1>8, <1>13, <1>14, <2>6
  <2>7. CASE r > q /\ p > q
    BY <1>8, <1>13, <2>1, <2>7, SMTT(30)
  <2> QED BY <1>13, <2>2, <2>3, <2>4, <2>5, <2>6, <2>7
<1>19. ListedIsFree'
  <2> SUFFICES ASSUME NEW k \in Inodes, NEW l \in Index, HasInfo(k, l),
                      NEW p \in 1 .. Len(CurList'), meta[k].info[l] = CurList'[p]
               PROVE  BeingFreed(k, l)'
    BY <1>9 DEF ListedIsFree, HasInfo
  <2>1. dir'[req'[t].name] = i
    BY <1>2, <1>9, <1>10
  <2>2. CASE CurList'[p] = info
    <3>1. k = i /\ l = j
      BY <1>4, <1>5, <1>6, <2>2 DEF IInv, NoSharedBlock
    <3>2. l < req'[t].idx
      BY <1>4, <1>10, <3>1, ConstantsAssumption DEF ConstantsAssumption
    <3> QED BY <1>10, <2>1, <3>1, <3>2 DEF BeingFreed
  <2>3. CASE CurList'[p] # info
    <3>1. PICK r \in 1 .. Len(CurList) : CurList'[p] = CurList[r]
      <4>1. CASE p < q
        BY <1>8, <1>13, <4>1, <1>12
      <4>2. CASE p > q
        BY <1>8, <1>13, <4>2, <1>12
      <4> QED BY <1>8, <1>13, <2>3, <4>1, <4>2
    <3>2. BeingFreed(k, l)
      BY <3>1 DEF IInv, ListedIsFree
    <3>3. k = i /\ l < j
      BY <1>2, <1>11, <3>2 DEF BeingFreed
    <3>4. l < req'[t].idx
      BY <1>4, <1>10, <3>3, ConstantsAssumption DEF ConstantsAssumption
    <3> QED BY <1>10, <2>1, <3>3, <3>4 DEF BeingFreed
  <2> QED BY <2>2, <2>3
<1>20. (Full \/ Exact)'
  BY <1>9, <1>12 DEF IInv, Full, Exact
<1>21. AllPlaced'
  <2>1. \A k \in Inodes, l \in Index :
          HasInfo(k, l)' => Placed(meta[k].info[l])'
    BY <1>9, <1>12 DEF IInv, AllPlaced, Placed, HasInfo
  <2>2. ASSUME NEW p \in 1 .. Len(CurList') PROVE Placed(CurList[p])'
    <3>1. PICK b : b = CurList'[p]
      OBVIOUS
    <3>2. Placed(b)
      <4>1. CASE p < q
        BY <1>8, <1>12, <1>13, <3>1, <4>1 DEF IInv, AllPlaced
      <4>2. CASE p = q
        BY <1>4, <1>5, <1>6, <1>13, <3>1, <4>2 DEF IInv, AllPlaced
      <4>3. CASE p > q
        BY <1>8, <1>12, <1>13, <3>1, <4>3 DEF IInv, AllPlaced
      <4>4. p \in Int /\ q \in Int
        BY <1>13
      <4>5. p < q \/ p = q \/ p > q
        BY <4>4
      <4> QED BY <4>1, <4>2, <4>3, <4>5
    <3> QED BY <1>9, <1>12, <3>1, <3>2 DEF Placed
  <2> QED BY <1>10, <1>11, <2>1, <2>2 DEF AllPlaced
<1>22. CountersFit'
  <2>1. Slack = 0 /\ Slack' = 0
    BY <1>1, <1>10, <1>11 DEF Slack
  <2> QED BY <1>12, <2>1 DEF IInv, CountersFit
<1> QED BY <1>15, <1>16, <1>17, <1>18, <1>19, <1>20, <1>21, <1>22 DEF IInv

(* Every step. *)
LEMMA InvNext == ASSUME SafeConfig, IInv, [Next]_vars PROVE IInv'
<1>1. TypeOK'
  BY TypeNext DEF IInv
<1>2. ~Crash /\ \A a, b \in Names : ~Link(a, b)
  BY DEF Crash, Link, SafeConfig
<1>3. \A t \in Threads : ~UnlinkExit(t)
  BY DEF UnlinkExit, IInv, UnlinkProgress
<1>4. ASSUME NEW t \in Threads, Write(t) PROVE IInv'
  BY <1>1, <1>4, InvTakeFree, InvTakeListed, InvNoSpace, InvCharge, InvSaveInfo
     DEF Write
<1>5. ASSUME NEW t \in Threads, Unlink(t) PROVE IInv'
  BY <1>1, <1>3, <1>5, InvUnlinkStart, InvUnlinkAdd, InvUnlinkEnd DEF Unlink
<1>6. CASE UNCHANGED vars
  <2>1. UNCHANGED <<CurOffset, CurSize, CurList>>
    BY <1>6 DEF vars, CurOffset, CurSize, CurList
  <2>2. UNCHANGED <<raid_type, mounted, dir, meta, req>>
    BY <1>6 DEF vars
  <2>3. OneRequest' /\ WriteInPlace' /\ UnlinkProgress' /\ HeldIsPrivate'
    BY <2>1, <2>2 DEF IInv, OneRequest, WriteInPlace, UnlinkProgress,
                      HeldIsPrivate, Holding, HasInfo
  <2>4. OneName' /\ Dense' /\ NoSharedBlock'
    BY <2>2 DEF IInv, OneName, Named, Dense, HasInfo, NoSharedBlock
  <2>5. ListedOnce' /\ ListedIsFree'
    BY <2>1, <2>2 DEF IInv, ListedOnce, ListedIsFree, BeingFreed, HasInfo
  <2>6. (Full \/ Exact)' /\ CountersFit'
    BY <2>1, <2>2 DEF IInv, Full, Exact, CountersFit, Slack
  <2>7. AllPlaced'
    BY <2>1, <2>2 DEF IInv, AllPlaced, Placed, Reserved, Full, HasInfo
  <2> QED BY <1>1, <2>3, <2>4, <2>5, <2>6, <2>7 DEF IInv
<1> QED
  BY <1>1, <1>2, <1>4, <1>5, <1>6, InvMount, InvDestroy, InvCreate, InvRename,
     InvTruncate
     DEF Next

-----------------------------------------------------------------------------
(* The theorems.                                                           *)

(* The invariant is inductive. *)
LEMMA InvHolds == ASSUME SafeConfig PROVE Spec => []IInv
<1>1. Init => IInv
  BY InvInit
<1>2. IInv /\ [Next]_vars => IInv'
  BY InvNext
<1> QED BY <1>1, <1>2, PTL DEF Spec

(* In a safe configuration encode() never hands out a block that a file    *)
(* still refers to, over any number of writes, removals and remounts.      *)
THEOREM NoSharedBlockHolds == ASSUME SafeConfig PROVE Spec => []NoSharedBlock
<1>1. IInv => NoSharedBlock
  BY DEF IInv
<1> QED BY <1>1, InvHolds, PTL

(* Without a process there is no list in memory. *)
LEMMA UnloadedNext ==
    ASSUME SafeConfig, IInv, Unloaded, [Next]_vars PROVE Unloaded'
<1> USE DEF Unloaded
<1>1. CASE Mount
  BY <1>1 DEF Mount
<1>2. CASE Destroy
  BY <1>2 DEF Destroy, Forget
<1>3. CASE Crash
  BY <1>3 DEF Crash, Exit, Forget
<1>4. ASSUME NEW a \in Names, NEW i \in Inodes, Create(a, i) PROVE Unloaded'
  BY <1>4 DEF Create, ncfsVars
<1>5. ASSUME NEW a \in Names, NEW b \in Names, Rename(a, b) \/ Link(a, b)
      PROVE  Unloaded'
  BY <1>5 DEF Rename, Link, ncfsVars
<1>6. ASSUME NEW a \in Names, NEW len \in -1 .. MaxBlocks, Truncate(a, len)
      PROVE  Unloaded'
  BY <1>6 DEF Truncate, ncfsVars
<1>7. ASSUME NEW t \in Threads, Write(t) PROVE Unloaded'
  BY <1>7 DEF Write, TakeFree, TakeListed, NoSpace, Charge, SaveInfo, ncfsVars,
              CanStart, CanServe
<1>8. ASSUME NEW t \in Threads, Unlink(t) PROVE Unloaded'
  <2>1. UnlinkAdd(t) => mounted
    BY ActiveThread DEF UnlinkAdd
  <2>2. UnlinkAdd(t) => mounted'
    <3>1. UnlinkAdd(t) => mounted' = mounted
      BY DEF UnlinkAdd
    <3> QED BY <2>1, <3>1
  <2>3. ASSUME NEW a \in Names, UnlinkStart(t, a) PROVE Unloaded'
    BY <2>3 DEF UnlinkStart, ncfsVars
  <2>4. UnlinkExit(t) \/ UnlinkEnd(t) => Unloaded'
    BY DEF UnlinkExit, UnlinkEnd, Exit, Forget, ncfsVars
  <2> QED BY <1>8, <2>2, <2>3, <2>4 DEF Unlink
<1>9. CASE UNCHANGED vars
  BY <1>9 DEF vars
<1> QED BY <1>1, <1>2, <1>3, <1>4, <1>5, <1>6, <1>7, <1>8, <1>9 DEF Next

(* In a safe configuration the space list holds deleted spaces only, each  *)
(* once: ncfs_unlink adds no block that a file keeps.                      *)
THEOREM ListedIsDeletedHolds == ASSUME SafeConfig PROVE Spec => []ListedIsDeleted
<1>1. Init => Unloaded
  BY DEF Init, Unloaded
<1>2. IInv /\ Unloaded /\ [Next]_vars => Unloaded'
  BY UnloadedNext
<1>3. IInv /\ Unloaded => ListedIsDeleted
  <2> SUFFICES ASSUME IInv, Unloaded PROVE ListedIsDeleted
    OBVIOUS
  <2>1. CASE mounted
    BY <2>1, CurMounted DEF IInv, ListedOnce, ListedIsFree, ListedIsDeleted
  <2>2. CASE ~mounted
    <3>1. Len(space_list) = 0
      BY <2>2 DEF Unloaded
    <3> QED BY <3>1 DEF ListedIsDeleted
  <2> QED BY <2>1, <2>2
<1> QED BY <1>1, <1>2, <1>3, InvHolds, PTL DEF Spec

(* In a safe configuration a deleted space is recycled only once no data   *)
(* disk has a free block left.                                             *)
THEOREM RecycledOnlyWhenFullHolds ==
    ASSUME SafeConfig PROVE Spec => RecycledOnlyWhenFull
<1> DEFINE Shrinks == Len(space_list') < Len(space_list) /\ mounted'
           NoFree == \A d \in Candidates(raid_type) :
                       SkipSize(raid_type, free_offset, free_size)[d] <= 0
<1>1. IInv /\ Unloaded /\ [Next]_vars => [Shrinks => NoFree]_vars
  <2> SUFFICES ASSUME IInv, Unloaded, Next, Shrinks PROVE NoFree
    OBVIOUS
  <2>1. space_list \in Seq(BlockInfo) /\ Len(space_list) \in Nat
    BY DEF IInv, TypeOK
  <2>2. space_list' # space_list
    BY <2>1
  <2>3. ~Mount
    <3>1. Mount => Len(space_list) = 0
      BY DEF Mount, Unloaded
    <3>2. Len(space_list') \in Nat
      BY TypeNext DEF IInv, TypeOK
    <3> QED BY <3>1, <3>2
  <2>4. ~Destroy /\ ~Crash
    BY DEF Destroy, Crash, Exit, Forget
  <2>5. /\ \A a \in Names, i \in Inodes : ~Create(a, i)
        /\ \A a, b \in Names : ~(Rename(a, b) \/ Link(a, b))
        /\ \A a \in Names, len \in -1 .. MaxBlocks : ~Truncate(a, len)
    BY <2>2 DEF Create, Rename, Link, Truncate, ncfsVars
  <2>6. \A t \in Threads : ~Unlink(t)
    <3> SUFFICES ASSUME NEW t \in Threads, Unlink(t) PROVE FALSE
      OBVIOUS
    <3>1. /\ ~UnlinkExit(t) /\ ~UnlinkEnd(t)
          /\ \A a \in Names : ~UnlinkStart(t, a)
      BY <2>2 DEF UnlinkStart, UnlinkExit, UnlinkEnd, Exit, Forget, ncfsVars
    <3>2. UnlinkAdd(t)
      BY <3>1 DEF Unlink
    <3>3. PICK info, p : /\ p \in 1 .. Len(space_list) + 1
                         /\ space_list' = InsertNode(space_list, info, p)
      BY <3>2 DEF UnlinkAdd
    <3>4. Len(space_list') = Len(space_list) + 1
      BY <2>1, <3>3 DEF InsertNode
    <3> QED BY <2>1, <3>4
  <2>7. PICK t \in Threads : Write(t)
    BY <2>3, <2>4, <2>5, <2>6 DEF Next
  <2>8. PICK a \in Names, idx \in Index : TakeListed(t, a, idx)
    BY <2>2, <2>7 DEF Write, TakeFree, NoSpace, Charge, SaveInfo, ncfsVars
  <2>9. mounted /\ ScanFails /\ CountersInRange /\ UNCHANGED <<raid_type, mounted>>
    BY <2>8 DEF TakeListed, CanStart, CanServe, WriteAllowed
  <2> QED BY <2>9, ScanFailsFull
<1>2. Init => Unloaded
  BY DEF Init, Unloaded
<1>3. IInv /\ Unloaded /\ [Next]_vars => Unloaded'
  BY UnloadedNext
<1>4. [Shrinks => NoFree]_vars
        <=> [Len(space_list') < Len(space_list) /\ mounted'
             => \A d \in Candidates(raid_type) :
                  SkipSize(raid_type, free_offset, free_size)[d] <= 0]_vars
  OBVIOUS
<1> QED BY <1>1, <1>2, <1>3, InvHolds, PTL DEF Spec, RecycledOnlyWhenFull

-----------------------------------------------------------------------------
(* The rotation of the parity blocks.                                      *)

(* Rows less than N apart have their redundancy on different disks. *)
LEMMA Rotation ==
    ASSUME NEW b \in Int, NEW k \in 1 .. N - 1
    PROVE  CRem(b + k, N) # CRem(b, N)
<1>1. N \in Nat /\ N >= 3
  BY ConstantsAssumption DEF ConstantsAssumption
<1>a. N \in Nat \ {0} /\ b + k \in Int
  BY <1>1
<1>b. CDiv(b, N) \in Int /\ CDiv(b + k, N) \in Int
  BY <1>a, ConversionTypes
<1>2. PICK x \in Int : x = CDiv(b, N)
  BY <1>b
<1>3. PICK y \in Int : y = CDiv(b + k, N)
  BY <1>b
<1>c. CRem(b, N) = b - N * x /\ CRem(b + k, N) = (b + k) - N * y
  BY <1>2, <1>3 DEF CRem
<1> SUFFICES ASSUME (b + k) - N * y = b - N * x PROVE FALSE
  BY <1>c
<1>4. PICK z \in Int : z = y - x
  OBVIOUS
<1>5. N * y = N * x + N * z
  BY <1>1, <1>4
<1>6. N * x \in Int /\ N * y \in Int /\ N * z \in Int
  BY <1>1
<1>7. N * z = k
  BY <1>5, <1>6
<1>8. z <= 0 => N * z <= 0
  BY <1>1
<1>9. z >= 1 => N * z >= N
  BY <1>1
<1> QED BY <1>1, <1>7, <1>8, <1>9

(* C remainders by the number of disks are integers. *)
LEMMA RemType == ASSUME NEW b \in Int PROVE CRem(b, N) \in Int
<1>1. N \in Nat \ {0}
  BY ConstantsAssumption DEF ConstantsAssumption
<1>2. CDiv(b, N) \in Int
  BY <1>1, ConversionTypes
<1> QED BY <1>1, <1>2 DEF CRem

(* Rows 0 and 1 have remainders 0 and 1. *)
LEMMA FirstRows == CRem(0, N) = 0 /\ CRem(1, N) = 1
<1>1. N \in Nat /\ N >= 3
  BY ConstantsAssumption DEF ConstantsAssumption
<1>2. 0 \div N = 0 /\ 1 \div N = 0
  BY <1>1
<1>3. CDiv(0, N) = 0 /\ CDiv(1, N) = 0
  BY <1>2 DEF CDiv
<1> QED BY <1>1, <1>3 DEF CRem

(* The first block of disk 0 holds data in every coder. *)
LEMMA ZerosPlace == ASSUME raid_type \in RaidTypes PROVE DataPlace(Zeros)
<1>1. N \in Nat /\ N >= 3
  BY ConstantsAssumption DEF ConstantsAssumption
<1>2. 0 \in Candidates(raid_type)
  BY CandidateDisks
<1>3. 0 \notin ParityDisks(raid_type, 0)
  BY <1>1, FirstRows DEF ParityDisks
<1> QED BY <1>2, <1>3 DEF DataPlace, Zeros

(* After one step a disk is off its parity block; under RAID 6 unless it   *)
(* was in front of two.                                                    *)
LEMMA OneStep ==
    ASSUME NEW rt, NEW fo \in [Disks -> Int], NEW d \in Disks,
           rt = 6 => ~BeforeTwo(d, fo[d])
    PROVE  d \notin ParityDisks(rt, SkipOffset(rt, fo)[d])
<1>1. N \in Nat /\ N >= 3
  BY ConstantsAssumption DEF ConstantsAssumption
<1>2. PICK b \in Int : b = fo[d]
  OBVIOUS
<1>3. CRem(b, N) \in Int /\ CRem(b + 1, N) \in Int /\ CRem(b + 2, N) \in Int
  <2>1. b + 1 \in Int /\ b + 2 \in Int
    OBVIOUS
  <2> QED BY <2>1, RemType
<1>4. /\ CRem(b + 1, N) # CRem(b, N) /\ CRem(b + 2, N) # CRem(b, N)
  BY <1>1, Rotation
<1>5. SkipOffset(rt, fo)[d] = IF d \in ParityDisks(rt, b) THEN b + 1 ELSE b
  BY <1>2 DEF SkipOffset, Skipped
<1>6. CASE d \notin ParityDisks(rt, b)
  BY <1>5, <1>6
<1>7. CASE d \in ParityDisks(rt, b) /\ rt = 5
  BY <1>1, <1>3, <1>4, <1>5, <1>7 DEF ParityDisks
<1>8. CASE d \in ParityDisks(rt, b) /\ rt = 6
  <2>1. d = N - 1 - CRem(b, N)
    BY <1>2, <1>8 DEF ParityDisks, BeforeTwo
  <2>2. ParityDisks(rt, b + 1) = {N - 1 - CRem(b + 1, N), N - 1 - CRem(b + 2, N)}
    <3>1. (b + 1) + 1 = b + 2
      OBVIOUS
    <3> QED BY <3>1, <1>8 DEF ParityDisks
  <2>3. SkipOffset(rt, fo)[d] = b + 1
    BY <1>5, <1>8
  <2>4. /\ d # N - 1 - CRem(b + 1, N)
        /\ d # N - 1 - CRem(b + 2, N)
    <3>1. PICK x \in Int, y \in Int, z \in Int :
            x = CRem(b, N) /\ y = CRem(b + 1, N) /\ z = CRem(b + 2, N)
      BY <1>3
    <3>2. x # y /\ x # z /\ d = N - 1 - x
      BY <1>4, <2>1, <3>1
    <3>3. d # N - 1 - y /\ d # N - 1 - z
      BY <1>1, <3>2
    <3> QED BY <3>1, <3>3
  <2> QED BY <2>2, <2>3, <2>4
<1> QED BY <1>6, <1>7, <1>8 DEF ParityDisks

-----------------------------------------------------------------------------
(* Data is not written over parity.                                        *)

(* The block a scan ends with. *)
LEMMA ChosenPlace ==
    ASSUME TypeOK, NEW d \in Disks,
           raid_type = 6 => ~BeforeTwo(d, free_offset[d]),
           Chosen(raid_type, SkipOffset(raid_type, free_offset),
                  SkipSize(raid_type, free_offset, free_size), d)
    PROVE  DataPlace(Block(d, SkipOffset(raid_type, free_offset)[d]))
<1>1. free_offset \in [Disks -> Int]
  BY DEF TypeOK
<1>2. d \in Candidates(raid_type)
  BY DEF Chosen, Eligible
<1>3. d \notin ParityDisks(raid_type, SkipOffset(raid_type, free_offset)[d])
  BY <1>1, OneStep
<1> QED BY <1>2, <1>3 DEF DataPlace, Block

(* No write starts with the scan ending in front of two parity blocks. *)
TakesData ==
    \A t \in Threads, a \in Names, idx \in Index, d \in Disks :
        TakeFree(t, a, idx, d) => DataPlace(Block(d, SkipOffset(raid_type, free_offset)[d]))

(* The steps that leave list and files alone, but may start a request. *)
LEMMA PlaceRequest ==
    ASSUME PlaceInv, raid_type' = raid_type, space_list' = space_list,
           raid_metadata' = raid_metadata, meta' = meta,
           \A u \in Threads : req'[u].op # "idle" =>
              req'[u] = req[u] \/ DataPlace(req'[u].blk)
    PROVE  PlaceInv'
  BY DEF PlaceInv, DataNotOnParity, HasInfo, DataPlace

(* The steps of a write. *)
LEMMA PlaceWrite ==
    ASSUME TypeOK, PlaceInv, TakesData, NEW t \in Threads, Write(t)
    PROVE  PlaceInv'
<1>1. ASSUME NEW a \in Names, NEW idx \in Index, NEW d \in Disks,
             TakeFree(t, a, idx, d)
      PROVE  PlaceInv'
  <2>1. PICK b : b = Block(d, SkipOffset(raid_type, free_offset)[d])
    OBVIOUS
  <2>2. DataPlace(b)
    BY <1>1, <2>1 DEF TakesData
  <2>3. /\ UNCHANGED <<raid_type, space_list, raid_metadata, meta>>
        /\ req' = [req EXCEPT ![t] = [op |-> "encode", name |-> a, idx |-> idx,
                                      blk |-> b, num |-> 0]]
    BY <1>1, <2>1 DEF TakeFree, Encoding, fileVars
  <2>4. \A u \in Threads : req'[u] = req[u] \/ req'[u].blk = b
    BY <2>3 DEF TypeOK
  <2> QED BY <2>2, <2>3, <2>4, PlaceRequest
<1>2. ASSUME NEW a \in Names, NEW idx \in Index, TakeListed(t, a, idx)
      PROVE  PlaceInv'
  <2>1. PICK b : b = Head(space_list)
    OBVIOUS
  <2>2. /\ UNCHANGED <<raid_type, raid_metadata, meta>>
        /\ space_list \in Seq(BlockInfo) /\ space_list # <<>>
        /\ space_list' = Tail(space_list)
        /\ req' = [req EXCEPT ![t] = [op |-> "encode", name |-> a, idx |-> idx,
                                      blk |-> b, num |-> 0]]
    BY <1>2, <2>1 DEF TakeListed, Encoding, fileVars, TypeOK
  <2>3. b = space_list[1] /\ 1 \in 1 .. Len(space_list)
    BY <2>1, <2>2
  <2>4. /\ Len(space_list') = Len(space_list) - 1
        /\ \A p \in 1 .. Len(space_list') :
             /\ space_list'[p] = space_list[p + 1]
             /\ p + 1 \in 1 .. Len(space_list)
    BY <2>2
  <2>5. DataPlace(b)
    BY <2>3 DEF PlaceInv
  <2>6. \A p \in 1 .. Len(space_list') : DataPlace(space_list'[p])
    BY <2>4 DEF PlaceInv
  <2>7. \A u \in Threads : req'[u] = req[u] \/ req'[u].blk = b
    BY <2>2 DEF TypeOK
  <2> QED BY <2>2, <2>5, <2>6, <2>7
             DEF PlaceInv, DataNotOnParity, HasInfo, DataPlace
<1>3. ASSUME NEW a \in Names, NEW idx \in Index, NoSpace(t, a, idx)
      PROVE  PlaceInv'
  BY <1>3, PlaceRequest DEF NoSpace, fileVars
<1>4. CASE Charge(t)
  <2>1. \A u \in Threads : req'[u].op # "idle" =>
          req[u].op # "idle" /\ req'[u].blk = req[u].blk
    BY <1>4 DEF Charge, TypeOK
  <2>2. UNCHANGED <<raid_type, space_list, raid_metadata, meta>>
    BY <1>4 DEF Charge, fileVars
  <2> QED BY <2>1, <2>2 DEF PlaceInv, DataNotOnParity, HasInfo, DataPlace
<1>5. CASE SaveInfo(t)
  <2>1. PICK b : b = req[t].blk
    OBVIOUS
  <2>2. DataPlace(b) /\ DataPlace(Zeros)
    BY <1>5, <2>1, ZerosPlace DEF SaveInfo, PlaceInv, TypeOK
  <2>3. /\ UNCHANGED <<raid_type, space_list, raid_metadata>>
        /\ req' = [req EXCEPT ![t] = Idle]
    BY <1>5 DEF SaveInfo, ncfsVars
  <2>4. ASSUME NEW i \in Inodes, NEW j \in Index, HasInfo(i, j)'
        PROVE  DataPlace(meta'[i].info[j])
    <3>1. \/ meta'[i].info[j] \in {b, Zeros}
          \/ meta'[i].info[j] = meta[i].info[j]
          \/ meta'[i].info[j] = EmptyMeta.info[j]
      <4>1. meta \in [Inodes -> MetaFile]
        BY DEF TypeOK
      <4> DEFINE Saved(m) ==
             [size |-> req[t].idx + 1,
              info |-> [k \in Index |->
                          IF k = req[t].idx THEN req[t].blk
                          ELSE IF k < req[t].idx /\ m.info[k] = NoBlock THEN Zeros
                          ELSE m.info[k]]]
      <4>2. ASSUME NEW m
            PROVE  \/ Saved(m).info[j] \in {b, Zeros}
                   \/ Saved(m).info[j] = m.info[j]
        BY <2>1
      <4>3. \/ dir[req[t].name] # NoInode
               /\ meta' = [meta EXCEPT ![dir[req[t].name]] =
                             Saved(meta[dir[req[t].name]])]
            \/ \E k \in Inodes : meta' = [meta EXCEPT ![k] = Saved(EmptyMeta)]
        BY <1>5 DEF SaveInfo
      <4> HIDE DEF Saved
      <4>4. PICK k, m : /\ meta' = [meta EXCEPT ![k] = Saved(m)]
                        /\ m = meta[k] \/ m = EmptyMeta
        BY <4>3
      <4>5. meta'[i] = IF i = k THEN Saved(m) ELSE meta[i]
        BY <4>1, <4>4
      <4> QED BY <4>2, <4>4, <4>5
    <3>2. EmptyMeta.info[j] = NoBlock
      BY NoEmptyInfo
    <3> QED BY <2>2, <2>4, <3>1, <3>2 DEF HasInfo, PlaceInv, DataNotOnParity
  <2>5. \A u \in Threads : req'[u].op # "idle" => req'[u] = req[u]
    BY <2>3 DEF TypeOK, Idle
  <2> QED BY <2>3, <2>4, <2>5 DEF PlaceInv, DataNotOnParity, DataPlace
<1> QED BY <1>1, <1>2, <1>3, <1>4, <1>5 DEF Write

(* The steps of a removal. *)
LEMMA PlaceUnlink ==
    ASSUME TypeOK, PlaceInv, "empty" \notin Env, NEW t \in Threads, Unlink(t)
    PROVE  PlaceInv'
<1>1. ASSUME NEW a \in Names, UnlinkStart(t, a) PROVE PlaceInv'
  <2>1. /\ UNCHANGED <<raid_type, space_list, raid_metadata, meta>>
        /\ \E n : req' = [req EXCEPT ![t] = [op |-> "unlink", name |-> a, idx |-> 0,
                                              blk |-> Zeros, num |-> n]]
    BY <1>1 DEF UnlinkStart, ncfsVars, fileVars
  <2>2. \A u \in Threads : req'[u] = req[u] \/ req'[u].blk = Zeros
    BY <2>1 DEF TypeOK
  <2>3. DataPlace(Zeros)
    BY ZerosPlace DEF TypeOK
  <2> QED BY <2>1, <2>2, <2>3, PlaceRequest
<1>2. CASE UnlinkAdd(t)
  <2>1. PICK j, i : j = req[t].idx /\ i = dir[req[t].name]
    OBVIOUS
  <2>2. PICK b : b = IF HasInfo(i, j) THEN meta[i].info[j] ELSE req[t].blk
    OBVIOUS
  <2>3. PICK p \in 1 .. Len(space_list) + 1 :
          space_list' = InsertNode(space_list, b, p)
    BY <1>2, <2>1, <2>2 DEF UnlinkAdd
  <2>4. /\ UNCHANGED <<raid_type, raid_metadata, meta>>
        /\ req' = [req EXCEPT ![t].idx = j + 1, ![t].blk = b]
        /\ req[t].op = "unlink" /\ j < req[t].num /\ i # NoInode
    BY <1>2, <2>1, <2>2 DEF UnlinkAdd, fileVars
  <2>5. j \in Index /\ i \in Inodes /\ req[t].blk \in BlockInfo
    <3>1. MaxBlocks \in Nat
      BY ConstantsAssumption DEF ConstantsAssumption
    <3>2. req[t] \in [op : {"unlink"}, name : Names, idx : 0 .. MaxBlocks,
                      blk : BlockInfo, num : 0 .. MaxBlocks]
      BY <2>4, SMTT(30) DEF TypeOK, Request, Idle
    <3> QED BY <2>1, <2>4, <3>1, <3>2 DEF TypeOK
  <2>6. DataPlace(b) /\ b \in BlockInfo
    <3>1. CASE HasInfo(i, j)
      <4>1. b = meta[i].info[j] /\ b # NoBlock
        BY <2>2, <3>1 DEF HasInfo
      <4>2. meta[i].info \in [Index -> BlockInfo \cup {NoBlock}]
        BY <2>5 DEF TypeOK, MetaFile
      <4>3. b \in BlockInfo
        BY <2>5, <4>1, <4>2
      <4> QED BY <2>5, <3>1, <4>1, <4>3 DEF PlaceInv, DataNotOnParity
    <3>2. CASE ~HasInfo(i, j)
      BY <2>2, <2>4, <2>5, <3>2 DEF PlaceInv
    <3> QED BY <3>1, <3>2
  <2>7. space_list \in Seq(BlockInfo)
    BY DEF TypeOK
  <2>8. /\ Len(space_list') = Len(space_list) + 1
        /\ \A q \in 1 .. Len(space_list) + 1 :
             space_list'[q] = IF q < p THEN space_list[q]
                              ELSE IF q = p THEN b ELSE space_list[q - 1]
    BY <2>3, <2>6, <2>7, InsertNodeType
  <2>9. \A q \in 1 .. Len(space_list') : DataPlace(space_list'[q])
    <3> SUFFICES ASSUME NEW q \in 1 .. Len(space_list) + 1
                 PROVE  DataPlace(space_list'[q])
      BY <2>8
    <3>1. Len(space_list) \in Nat
      BY <2>7
    <3>2. CASE q < p
      BY <2>8, <3>1, <3>2 DEF PlaceInv
    <3>3. CASE q = p
      BY <2>6, <2>8, <3>3
    <3>4. CASE q > p
      <4>1. q - 1 \in 1 .. Len(space_list) /\ ~(q < p) /\ q # p
        BY <3>1, <3>4
      <4>2. space_list'[q] = space_list[q - 1]
        BY <2>8, <4>1
      <4> QED BY <4>1, <4>2 DEF PlaceInv
    <3> QED BY <3>1, <3>2, <3>3, <3>4
  <2>10. \A u \in Threads : req'[u].op # "idle" =>
            req'[u].blk = b \/ req'[u] = req[u]
    BY <2>4 DEF TypeOK
  <2> QED BY <2>4, <2>6, <2>9, <2>10
             DEF PlaceInv, DataNotOnParity, HasInfo, DataPlace
<1>3. CASE UnlinkExit(t)
  <2>1. /\ UNCHANGED <<raid_type, raid_metadata, meta>>
        /\ space_list' = <<>> /\ req' = [u \in Threads |-> Idle]
    BY <1>3 DEF UnlinkExit, Exit, Forget, fileVars
  <2> QED BY <2>1 DEF PlaceInv, DataNotOnParity, HasInfo, DataPlace, Idle
<1>4. CASE UnlinkEnd(t)
  <2>1. /\ UNCHANGED <<raid_type, space_list, raid_metadata>>
        /\ req' = [req EXCEPT ![t] = Idle] /\ meta' = Kept(dir')
    BY <1>4 DEF UnlinkEnd, ncfsVars
  <2>2. \A i \in Inodes, j \in Index : HasInfo(i, j)' =>
          HasInfo(i, j) /\ meta'[i] = meta[i]
    BY <2>1, KeptShrinks, NoEmptyInfo DEF HasInfo
  <2>3. \A u \in Threads : req'[u].op # "idle" => req'[u] = req[u]
    BY <2>1 DEF TypeOK, Idle
  <2> QED BY <2>1, <2>2, <2>3 DEF PlaceInv, DataNotOnParity, DataPlace
<1> QED BY <1>1, <1>2, <1>3, <1>4 DEF Unlink

(* The other steps. *)
LEMMA PlaceNext ==
    ASSUME TypeOK, PlaceInv, "empty" \notin Env, TakesData, [Next]_vars
    PROVE  PlaceInv'
<1>1. CASE Mount
  BY <1>1 DEF Mount, fileVars, PlaceInv, DataNotOnParity, HasInfo, DataPlace
<1>2. CASE Destroy
  BY <1>2 DEF Destroy, Forget, fileVars, PlaceInv, DataNotOnParity, HasInfo,
              DataPlace
<1>3. CASE Crash
  <2>1. /\ UNCHANGED <<raid_type, raid_metadata, meta>>
        /\ space_list' = <<>> /\ req' = [u \in Threads |-> Idle]
    BY <1>3 DEF Crash, Exit, Forget, fileVars
  <2> QED BY <2>1 DEF PlaceInv, DataNotOnParity, HasInfo, DataPlace, Idle
<1>4. ASSUME NEW a \in Names, NEW i \in Inodes, Create(a, i) PROVE PlaceInv'
  BY <1>4, PlaceRequest DEF Create, ncfsVars
<1>5. ASSUME NEW a \in Names, NEW b \in Names, Rename(a, b) PROVE PlaceInv'
  <2>1. UNCHANGED <<raid_type, space_list, raid_metadata, req>>
    BY <1>5 DEF Rename, ncfsVars
  <2>2. \A i \in Inodes, j \in Index : HasInfo(i, j)' =>
          HasInfo(i, j) /\ meta'[i] = meta[i]
    BY <1>5, KeptShrinks, NoEmptyInfo DEF HasInfo, Rename
  <2> QED BY <2>1, <2>2 DEF PlaceInv, DataNotOnParity, DataPlace
<1>6. ASSUME NEW a \in Names, NEW b \in Names, Link(a, b) PROVE PlaceInv'
  BY <1>6, PlaceRequest DEF Link, ncfsVars
<1>7. ASSUME NEW a \in Names, NEW len \in -1 .. MaxBlocks, Truncate(a, len)
      PROVE  PlaceInv'
  <2>1. UNCHANGED <<raid_type, space_list, raid_metadata, req>>
    BY <1>7 DEF Truncate, ncfsVars
  <2>2. DataPlace(Zeros)
    BY ZerosPlace DEF TypeOK
  <2>3. ASSUME NEW i \in Inodes, NEW j \in Index, HasInfo(i, j)'
        PROVE  DataPlace(meta'[i].info[j])
    <3>1. meta'[i].info[j] \in {NoBlock, Zeros, meta[i].info[j]}
      BY <1>7 DEF Truncate, TypeOK
    <3> QED BY <2>2, <2>3, <3>1 DEF HasInfo, PlaceInv, DataNotOnParity
  <2> QED BY <2>1, <2>3 DEF PlaceInv, DataNotOnParity, DataPlace
<1>8. ASSUME NEW t \in Threads, Write(t) \/ Unlink(t) PROVE PlaceInv'
  BY <1>8, PlaceWrite, PlaceUnlink
<1>9. CASE UNCHANGED vars
  BY <1>9, PlaceRequest DEF vars, ncfsVars, fileVars
<1> QED BY <1>1, <1>2, <1>3, <1>4, <1>5, <1>6, <1>7, <1>8, <1>9 DEF Next

(* No block is known at the start. *)
LEMMA PlaceInit == Init => PlaceInv
<1> SUFFICES ASSUME Init PROVE PlaceInv
  OBVIOUS
<1>1. DataNotOnParity
  BY NoEmptyInfo DEF Init, DataNotOnParity, HasInfo
<1>2. space_list = <<>> /\ raid_metadata.list = <<>>
  BY DEF Init, NoMetadata
<1>3. \A t \in Threads : req[t].op = "idle"
  BY DEF Init, Idle
<1> QED BY <1>1, <1>2, <1>3 DEF PlaceInv

-----------------------------------------------------------------------------
(* RAID 6: equal disks fill row after row.                                 *)

(* The disks of RAID 6, and what its encode() leaves alone. *)
LEMMA Raid6 ==
    ASSUME raid_type = 6
    PROVE  /\ Candidates(raid_type) = Disks
           /\ \A d, b, p : ParityCharge(raid_type, d, b, p) = 0
  BY DEF Candidates, ReedSolomon, DualParity, ParityCharge

(* After the step over parity no disk is in front of two parity blocks. *)
LEMMA StepLeavesTwo ==
    ASSUME NEW fo \in [Disks -> Int], NEW d \in Disks
    PROVE  ~BeforeTwo(d, SkipOffset(6, fo)[d])
<1>1. N \in Nat /\ N >= 3
  BY ConstantsAssumption DEF ConstantsAssumption
<1>2. PICK b \in Int : b = fo[d]
  OBVIOUS
<1>3. CRem(b, N) \in Int /\ CRem(b + 1, N) \in Int /\ CRem(b + 2, N) \in Int
  <2>1. b + 1 \in Int /\ b + 2 \in Int
    OBVIOUS
  <2> QED BY <2>1, RemType
<1>4. CRem(b + 2, N) # CRem(b, N) /\ CRem(b + 2, N) # CRem(b + 1, N)
  <2>1. b + 1 \in Int /\ (b + 1) + 1 = b + 2 /\ 1 \in 1 .. N - 1 /\ 2 \in 1 .. N - 1
    BY <1>1
  <2>2. CRem((b + 1) + 1, N) # CRem(b + 1, N)
    BY <2>1, Rotation
  <2> QED BY <2>1, <2>2, Rotation
<1>5. PICK x \in Int, y \in Int, z \in Int :
        x = CRem(b, N) /\ y = CRem(b + 1, N) /\ z = CRem(b + 2, N)
  BY <1>3
<1>6. ParityDisks(6, b) = {N - 1 - x, N - 1 - y}
  BY <1>5 DEF ParityDisks
<1>7. BeforeTwo(d, b) <=> d = N - 1 - y
  BY <1>5 DEF BeforeTwo
<1>8. BeforeTwo(d, b + 1) <=> d = N - 1 - z
  <2>1. (b + 1) + 1 = b + 2
    OBVIOUS
  <2> QED BY <1>5, <2>1 DEF BeforeTwo
<1>9. SkipOffset(6, fo)[d] = IF d \in ParityDisks(6, b) THEN b + 1 ELSE b
  BY <1>2 DEF SkipOffset, Skipped
<1>10. CASE d \in ParityDisks(6, b)
  <2>1. z # x /\ z # y /\ d \in {N - 1 - x, N - 1 - y}
    BY <1>4, <1>5, <1>6, <1>10
  <2>2. d # N - 1 - z
    BY <1>1, <2>1
  <2> QED BY <1>8, <1>9, <1>10, <2>2
<1>11. CASE d \notin ParityDisks(6, b)
  BY <1>6, <1>7, <1>9, <1>11
<1> QED BY <1>10, <1>11

(* Every row has a data block. *)
LEMMA RowHasData == ASSUME NEW b PROVE \E e \in Disks : e \notin ParityDisks(6, b)
<1>1. N \in Nat /\ N >= 3
  BY ConstantsAssumption DEF ConstantsAssumption
<1>2. 0 \in Disks /\ 1 \in Disks /\ 2 \in Disks
  BY <1>1
<1>3. PICK x, y : ParityDisks(6, b) = {x, y}
  BY DEF ParityDisks
<1> QED BY <1>2, <1>3

(* The scan takes the lowest row there is, if the disks are equal. *)
LEMMA ChosenLowest ==
    ASSUME EqualDisks, NEW fo \in [Disks -> Int], NEW fs \in [Disks -> Int],
           \A d \in Disks : fo[d] + fs[d] = FreeSize[d],
           NEW d \in Disks, Chosen(6, fo, fs, d), NEW e \in Disks
    PROVE  fo[d] <= fo[e]
<1>1. 6 \in Striped /\ 6 \notin ReedSolomon /\ 6 \notin DualParity
  BY DEF Striped, ReedSolomon, DualParity
<1>2. Candidates(6) = Disks /\ 0 \in Disks
  BY <1>1, ConstantsAssumption DEF Candidates, ConstantsAssumption
<1>3. fs[d] >= 1 /\ fo[d] <= fo[0]
  BY <1>1 DEF Chosen, Eligible, HasRoom
<1> SUFFICES ASSUME fo[e] < fo[d] PROVE FALSE
  OBVIOUS
<1>4. FreeSize[d] = FreeSize[e] /\ FreeSize[d] \in Nat
  BY ConstantsAssumption DEF EqualDisks, ConstantsAssumption
<1>5. fs[e] >= 1 /\ fo[e] <= fo[0]
  BY <1>2, <1>3, <1>4
<1>6. e \in Eligible(6, fo, fs) /\ e # d
  <2>1. e # d
    OBVIOUS
  <2>2. e \in Eligible(6, fo, fs)
    BY <1>1, <1>2, <1>5 DEF Eligible, HasRoom
  <2> QED BY <2>1, <2>2
<1>7. Beats(6, fo, d, e)
  BY <1>6 DEF Chosen
<1> QED BY <1>1, <1>7 DEF Beats

(* The block a RAID 6 write takes is none of a pair of parity blocks. *)
LEMMA ChosenNotBeforeTwo ==
    ASSUME SafeConfig, EqualDisks, IInv, RowInv, raid_type = 6, mounted,
           NEW d \in Disks,
           Chosen(6, SkipOffset(6, free_offset),
                  SkipSize(6, free_offset, free_size), d)
    PROVE  /\ Exact /\ RowOrder /\ DataBeforeTwo
           /\ ~BeforeTwo(d, free_offset[d])
           /\ \A e \in Disks : SkipOffset(6, free_offset)[d]
                                 <= SkipOffset(6, free_offset)[e]
<1>0. PICK fo, fs : /\ fo = SkipOffset(6, free_offset)
                    /\ fs = SkipSize(6, free_offset, free_size)
  OBVIOUS
<1>1. /\ free_offset \in [Disks -> Int] /\ free_size \in [Disks -> Int]
      /\ fo \in [Disks -> Int] /\ fs \in [Disks -> Int]
  <2>1. free_offset \in [Disks -> Int] /\ free_size \in [Disks -> Int]
    BY DEF IInv, TypeOK
  <2> QED BY <1>0, <2>1, SkipTypes
<1>2. \A e \in Disks : /\ fo[e] \in {free_offset[e], free_offset[e] + 1}
                        /\ fo[e] + fs[e] = free_offset[e] + free_size[e]
  BY <1>0, <1>1 DEF SkipOffset, SkipSize
<1>3. /\ Candidates(raid_type) = Disks
      /\ CurOffset = free_offset /\ CurSize = free_size
  BY Raid6, CurMounted
<1>4. fs[d] >= 1
  BY <1>0 DEF Chosen, Eligible, HasRoom
<1>5. ~Full
  <2>1. free_size[d] >= 1
    BY <1>1, <1>2, <1>4
  <2>2. d \in Candidates(raid_type) /\ CurSize[d] >= 1 /\ CurSize[d] \in Int
    BY <1>1, <1>3, <2>1
  <2> QED BY <2>2 DEF Full
<1>6. Exact /\ RowOrder /\ DataBeforeTwo
  BY <1>5 DEF IInv, RowInv
<1>7. \A e \in Disks : fo[e] + fs[e] = FreeSize[e]
  BY <1>2, <1>3, <1>6 DEF Exact
<1>8. \A e \in Disks : fo[d] <= fo[e]
  <2>1. Chosen(6, fo, fs, d)
    BY <1>0
  <2> QED BY <1>1, <1>7, <2>1, ChosenLowest
<1>9. ~BeforeTwo(d, free_offset[d])
  <2> SUFFICES ASSUME BeforeTwo(d, free_offset[d]) PROVE FALSE
    OBVIOUS
  <2>1. PICK e \in Disks : e \notin ParityDisks(6, free_offset[d])
    BY RowHasData
  <2>2. free_offset[e] <= free_offset[d]
    BY <1>3, <1>6, <2>1 DEF DataBeforeTwo
  <2>3. fo[d] = free_offset[d] + 1
    BY <1>0, <1>1 DEF SkipOffset, Skipped, ParityDisks, BeforeTwo
  <2>4. fo[e] <= free_offset[d]
    <3>1. CASE free_offset[e] = free_offset[d]
      BY <1>0, <1>1, <2>1, <3>1 DEF SkipOffset, Skipped
    <3>2. CASE free_offset[e] < free_offset[d]
      BY <1>1, <1>2, <3>2, SMTT(30)
    <3> QED BY <1>1, <2>2, <3>1, <3>2
  <2> QED BY <1>1, <1>8, <2>3, <2>4
<1> QED BY <1>0, <1>6, <1>8, <1>9

(* What charging a block does to the counters. *)
LEMMA ChargeEffect ==
    ASSUME IInv, NEW t \in Threads, Charge(t), NEW b, b = req[t].blk
    PROVE  /\ mounted /\ Reserved(b) /\ b.disk_id \in Disks /\ b.block_no \in Nat
           /\ raid_type' = raid_type
           /\ \A p \in Disks :
                /\ CurOffset'[p] = IF p = b.disk_id THEN b.block_no + 1
                                   ELSE CurOffset[p]
                /\ CurSize'[p] = IF p = b.disk_id THEN CurSize[p] - 1
                                 ELSE CurSize[p]
                /\ CurOffset[p] \in Nat /\ CurSize[p] \in Int
           /\ \A u \in Threads : req'[u].op # "encode"
<1>1. mounted /\ req[t].op = "encode" /\ \A u \in Threads \ {t} : req[u] = Idle
  BY ActiveThread DEF Charge
<1>2. /\ UNCHANGED <<raid_type, mounted>>
      /\ free_offset' = [free_offset EXCEPT ![b.disk_id] = b.block_no + 1]
      /\ free_size' = [free_size EXCEPT ![b.disk_id] = @ - 1]
      /\ req' = [req EXCEPT ![t].op = "save"]
  BY DEF Charge, NextBlock
<1>3. Reserved(b)
  BY <1>1 DEF IInv, AllPlaced
<1>4. /\ free_offset \in [Disks -> Int] /\ free_size \in [Disks -> Int]
      /\ raid_type \in RaidTypes /\ Candidates(raid_type) \subseteq Disks
  BY CandidateDisks DEF IInv, TypeOK
<1>5. b.disk_id \in Disks /\ b.block_no \in Nat
  BY <1>3, <1>4, ConstantsAssumption DEF Reserved, ConstantsAssumption
<1>6. /\ CurOffset = free_offset /\ CurSize = free_size
      /\ CurOffset' = free_offset' /\ CurSize' = free_size'
  BY <1>1, <1>2 DEF CurOffset, CurSize
<1>7. \A p \in Disks : CurOffset[p] >= 0
  BY DEF IInv, CountersFit
<1>8. \A u \in Threads : req'[u].op # "encode"
  <2>1. req'[t].op = "save"
    BY <1>1, <1>2 DEF IInv, TypeOK, Request, Idle
  <2>2. \A u \in Threads \ {t} : req'[u] = Idle
    BY <1>1, <1>2 DEF IInv, TypeOK
  <2> QED BY <2>1, <2>2 DEF Idle
<1>9. ASSUME NEW p \in Disks
      PROVE  /\ CurOffset'[p] = IF p = b.disk_id THEN b.block_no + 1
                                ELSE CurOffset[p]
             /\ CurSize'[p] = IF p = b.disk_id THEN CurSize[p] - 1 ELSE CurSize[p]
             /\ CurOffset[p] \in Nat /\ CurSize[p] \in Int
  BY <1>2, <1>4, <1>5, <1>6, <1>7
<1> QED BY <1>1, <1>2, <1>3, <1>5, <1>8, <1>9

(* Steps that leave the counters alone. *)
LEMMA RowSame ==
    ASSUME RowInv, UNCHANGED <<raid_type, CurOffset, CurSize>>,
           \A u \in Threads : req'[u].op = "encode" => req'[u] = req[u]
    PROVE  RowInv'
  BY DEF RowInv, Full, RowOrder, DataBeforeTwo, FirstRow

(* A write begins. *)
LEMMA RowTakeFree ==
    ASSUME SafeConfig, EqualDisks, IInv, RowInv, raid_type = 6,
           NEW t \in Threads, NEW a \in Names, NEW idx \in Index, NEW d \in Disks,
           TakeFree(t, a, idx, d)
    PROVE  RowInv'
<1>0. PICK fo : fo = SkipOffset(6, free_offset)
  OBVIOUS
<1>1. mounted /\ \A u \in Threads : req[u] = Idle
  BY ServeQuiet DEF TakeFree, CanStart, Quiet
<1>2. /\ UNCHANGED <<raid_type, mounted>>
      /\ free_offset' = [p \in Disks |-> fo[p] + ParityCharge(6, d, fo[d], p)]
      /\ req' = [req EXCEPT ![t] = [op |-> "encode", name |-> a, idx |-> idx,
                                    blk |-> Block(d, fo[d]), num |-> 0]]
      /\ Chosen(6, SkipOffset(6, free_offset),
                SkipSize(6, free_offset, free_size), d)
  BY <1>0 DEF TakeFree, Encoding
<1>3. free_offset \in [Disks -> Int] /\ fo \in [Disks -> Int]
  <2>1. free_offset \in [Disks -> Int] /\ free_size \in [Disks -> Int]
    BY DEF IInv, TypeOK
  <2> QED BY <1>0, <2>1, SkipTypes
<1>4. free_offset' = fo
  BY <1>2, <1>3, Raid6
<1>5. CurOffset = free_offset /\ CurOffset' = fo
  BY <1>1, <1>2, <1>4 DEF CurOffset
<1>6. RowOrder /\ \A e \in Disks : fo[d] <= fo[e]
  BY <1>0, <1>1, <1>2, ChosenNotBeforeTwo
<1>7. \A e \in Disks : ~BeforeTwo(e, fo[e])
  BY <1>0, <1>3, StepLeavesTwo
<1>8. RowOrder'
  <2> SUFFICES ASSUME NEW x \in Disks, NEW e \in Disks, NEW q \in 0 .. fo[e] - 1,
                      e \notin ParityDisks(6, q)
               PROVE  q <= fo[x]
    BY <1>5 DEF RowOrder
  <2>1. \A y \in Disks :
          fo[y] = IF y \in ParityDisks(6, free_offset[y]) THEN free_offset[y] + 1
                  ELSE free_offset[y]
    BY <1>0 DEF SkipOffset, Skipped
  <2>2. fo[e] \in Int /\ fo[x] \in Int /\ free_offset[e] \in Int
        /\ free_offset[x] \in Int
    BY <1>3
  <2>3. q # free_offset[e] \/ fo[e] = free_offset[e]
    BY <2>1
  <2>4. q \in 0 .. free_offset[e] - 1
    BY <2>1, <2>2, <2>3
  <2>5. q <= free_offset[x]
    BY <1>5, <1>6, <2>4 DEF RowOrder
  <2>6. free_offset[x] <= fo[x]
    BY <2>1, <2>2
  <2> QED BY <2>2, <2>4, <2>5, <2>6
<1>9. DataBeforeTwo'
  BY <1>5, <1>7 DEF DataBeforeTwo
<1>10. FirstRow'
  <2>1. ASSUME NEW u \in Threads, req'[u].op = "encode"
        PROVE  req'[u].blk.block_no = fo[d]
    <3>1. CASE u = t
      BY <1>2, <3>1 DEF Block, IInv, TypeOK
    <3>2. CASE u # t
      BY <1>1, <1>2, <2>1, <3>2 DEF Idle, IInv, TypeOK
    <3> QED BY <3>1, <3>2
  <2> QED BY <1>5, <1>6, <1>7, <2>1 DEF FirstRow
<1> QED BY <1>8, <1>9, <1>10 DEF RowInv

(* The counters are advanced. *)
LEMMA RowCharge ==
    ASSUME SafeConfig, EqualDisks, IInv, RowInv, raid_type = 6,
           NEW t \in Threads, Charge(t)
    PROVE  RowInv'
<1>1. PICK b : b = req[t].blk
  OBVIOUS
<1>2. PICK x, r : x = b.disk_id /\ r = b.block_no
  OBVIOUS
<1>3. /\ Reserved(b) /\ x \in Disks /\ r \in Nat
      /\ raid_type' = raid_type
      /\ \A p \in Disks :
           /\ CurOffset'[p] = IF p = x THEN r + 1 ELSE CurOffset[p]
           /\ CurSize'[p] = IF p = x THEN CurSize[p] - 1 ELSE CurSize[p]
           /\ CurOffset[p] \in Nat /\ CurSize[p] \in Int
      /\ \A u \in Threads : req'[u].op # "encode"
  BY <1>1, <1>2, ChargeEffect
<1>4. Candidates(raid_type) = Disks
  BY Raid6
<1>5. CASE Full
  <2>1. ASSUME NEW p \in Disks PROVE CurSize'[p] <= 0
    <3>1. CurSize[p] <= 0 /\ CurSize[p] \in Int
      BY <1>3, <1>4, <1>5 DEF Full
    <3>2. CurSize'[p] \in {CurSize[p], CurSize[p] - 1}
      BY <1>3
    <3> QED BY <3>1, <3>2
  <2> QED BY <1>3, <1>4, <2>1 DEF Full, RowInv
<1>6. CASE ~Full
  <2>1. RowOrder /\ DataBeforeTwo /\ FirstRow
    BY <1>6 DEF RowInv
  <2>2. r = CurOffset[x]
    BY <1>2, <1>3, <1>6 DEF Reserved
  <2>3. \A p \in Disks : ~BeforeTwo(p, CurOffset[p]) /\ r <= CurOffset[p]
    BY <1>1, <1>2, <2>1 DEF FirstRow, Charge
  <2>4. RowOrder'
    <3> SUFFICES ASSUME NEW p \in Disks, NEW e \in Disks,
                        NEW q \in 0 .. CurOffset'[e] - 1,
                        e \notin ParityDisks(6, q)
                 PROVE  q <= CurOffset'[p]
      BY DEF RowOrder
    <3>1. CurOffset[p] <= CurOffset'[p] /\ CurOffset'[p] \in Nat
      BY <1>3, <2>2
    <3>2. CASE q \in 0 .. CurOffset[e] - 1
      <4>1. q <= CurOffset[p]
        BY <2>1, <3>2 DEF RowOrder
      <4> QED BY <1>3, <3>1, <4>1
    <3>3. CASE q \notin 0 .. CurOffset[e] - 1
      <4>1. q = r
        BY <1>3, <2>2, <3>3
      <4> QED BY <1>3, <2>3, <3>1, <4>1
    <3> QED BY <3>2, <3>3
  <2>5. DataBeforeTwo'
    <3> SUFFICES ASSUME NEW p \in Disks, BeforeTwo(p, CurOffset'[p]),
                        NEW e \in Disks \ ParityDisks(6, CurOffset'[p])
                 PROVE  CurOffset'[e] <= CurOffset'[p]
      BY DEF DataBeforeTwo
    <3>1. p = x /\ CurOffset'[p] = r + 1
      BY <1>3, <2>3
    <3>2. CASE e = x
      BY <1>3, <3>1, <3>2
    <3>3. CASE e # x
      <4>1. CurOffset'[e] = CurOffset[e] /\ CurOffset[e] \in Nat
        BY <1>3, <3>3
      <4>2. CurOffset[e] > r + 1 => r + 1 \in 0 .. CurOffset[e] - 1
        BY <1>3, <4>1
      <4>3. CurOffset[e] > r + 1 => r + 1 <= CurOffset[x]
        BY <1>3, <2>1, <3>1, <4>2 DEF RowOrder
      <4> QED BY <1>3, <2>2, <3>1, <4>1, <4>3
    <3> QED BY <3>2, <3>3
  <2> QED BY <1>3, <2>4, <2>5 DEF FirstRow, RowInv
<1> QED BY <1>5, <1>6

(* Every step. *)
LEMMA RowNext ==
    ASSUME SafeConfig, 6 \in RaidTypes => EqualDisks, IInv, RowInv, [Next]_vars
    PROVE  RowInv'
<1>1. raid_type' = raid_type
  <2>1. CASE Mount \/ Destroy \/ Crash \/ UNCHANGED vars
    BY <2>1, Zenon DEF Mount, Destroy, Crash, Exit, vars
  <2>2. ASSUME NEW a \in Names, NEW i \in Inodes, Create(a, i) PROVE raid_type' = raid_type
    BY <2>2, Zenon DEF Create
  <2>3. ASSUME NEW a \in Names, NEW b \in Names, Rename(a, b) \/ Link(a, b)
        PROVE  raid_type' = raid_type
    BY <2>3, Zenon DEF Rename, Link
  <2>4. ASSUME NEW a \in Names, NEW len \in -1 .. MaxBlocks, Truncate(a, len)
        PROVE  raid_type' = raid_type
    BY <2>4, Zenon DEF Truncate
  <2>5. ASSUME NEW t \in Threads, Write(t) PROVE raid_type' = raid_type
    BY <2>5, Zenon DEF Write, TakeFree, TakeListed, NoSpace, Charge, SaveInfo
  <2>6. ASSUME NEW t \in Threads, Unlink(t) PROVE raid_type' = raid_type
    BY <2>6, Zenon DEF Unlink, UnlinkStart, UnlinkAdd, UnlinkExit, UnlinkEnd, Exit
  <2> QED BY <2>1, <2>2, <2>3, <2>4, <2>5, <2>6, Zenon DEF Next
<1> SUFFICES ASSUME raid_type = 6, EqualDisks PROVE RowInv'
  BY <1>1 DEF RowInv, IInv, TypeOK
<1>2. CASE Mount
  <2>1. UNCHANGED <<CurOffset, CurSize, req>>
    BY <1>2 DEF Mount, CurOffset, CurSize
  <2> QED BY <1>1, <2>1, RowSame
<1>3. CASE Destroy
  <2>1. UNCHANGED <<CurOffset, CurSize, req>>
    BY <1>3, DestroyKeeps DEF Destroy
  <2> QED BY <1>1, <2>1, RowSame
<1>4. ~Crash /\ \A u \in Threads : ~UnlinkExit(u)
  BY DEF Crash, SafeConfig, UnlinkExit, IInv, UnlinkProgress
<1>5. ASSUME UNCHANGED <<mounted, free_offset, free_size, raid_metadata>>,
             \A u \in Threads : req'[u].op = "encode" => req'[u] = req[u]
      PROVE  RowInv'
  <2>1. UNCHANGED <<CurOffset, CurSize>>
    BY <1>5 DEF CurOffset, CurSize
  <2> QED BY <1>1, <1>5, <2>1, RowSame
<1>6. ASSUME NEW a \in Names, NEW i \in Inodes, Create(a, i) PROVE RowInv'
  BY <1>5, <1>6 DEF Create, ncfsVars
<1>7. ASSUME NEW a \in Names, NEW b \in Names, Rename(a, b) \/ Link(a, b)
      PROVE  RowInv'
  BY <1>5, <1>7 DEF Rename, Link, ncfsVars
<1>8. ASSUME NEW a \in Names, NEW len \in -1 .. MaxBlocks, Truncate(a, len)
      PROVE  RowInv'
  BY <1>5, <1>8 DEF Truncate, ncfsVars
<1>9. ASSUME NEW t \in Threads, Write(t) PROVE RowInv'
  <2>1. ASSUME NEW a \in Names, NEW idx \in Index, NEW d \in Disks,
               TakeFree(t, a, idx, d)
        PROVE  RowInv'
    BY <2>1, RowTakeFree
  <2>2. ASSUME NEW a \in Names, NEW idx \in Index,
               TakeListed(t, a, idx) \/ NoSpace(t, a, idx)
        PROVE  RowInv'
    <3>1. /\ mounted /\ ScanFails /\ CountersInRange
          /\ UNCHANGED <<raid_type, mounted>>
      BY <2>2, ServeQuiet DEF TakeListed, NoSpace, CanStart, WriteAllowed
    <3>2. Full'
      BY <3>1, ScanFailsFull
    <3> QED BY <3>2 DEF RowInv
  <2>3. CASE Charge(t)
    BY <2>3, RowCharge
  <2>4. CASE SaveInfo(t)
    <3>1. \A u \in Threads : req'[u].op = "encode" => req'[u] = req[u]
      BY <2>4 DEF SaveInfo, Idle, IInv, TypeOK
    <3> QED BY <1>5, <2>4, <3>1 DEF SaveInfo, ncfsVars
  <2> QED BY <1>9, <2>1, <2>2, <2>3, <2>4 DEF Write
<1>10. ASSUME NEW t \in Threads, Unlink(t) PROVE RowInv'
  <2>1. ASSUME NEW a \in Names, UnlinkStart(t, a) PROVE RowInv'
    <3>1. \A u \in Threads : req'[u].op = "encode" => req'[u] = req[u]
      BY <2>1 DEF UnlinkStart, IInv, TypeOK
    <3> QED BY <1>5, <2>1, <3>1 DEF UnlinkStart, ncfsVars
  <2>2. CASE UnlinkAdd(t)
    <3>1. \A u \in Threads : req'[u].op = "encode" => req'[u] = req[u]
      <4>1. \A u \in Threads \ {t} : req'[u] = req[u]
        BY <2>2 DEF UnlinkAdd, IInv, TypeOK
      <4>2. req'[t].op = "unlink"
        <5>1. TypeOK
          BY DEF IInv
        <5>2. req[t] \in [op : {"unlink"}, name : Names, idx : 0 .. MaxBlocks,
                         blk : BlockInfo, num : 0 .. MaxBlocks]
          BY <2>2, <5>1, UnlinkAddFacts
        <5>3. PICK x, b : req' = [req EXCEPT ![t] = [req[t] EXCEPT !.idx = x, !.blk = b]]
          BY <2>2, <5>1 DEF UnlinkAdd, TypeOK
        <5> QED BY <5>1, <5>2, <5>3 DEF TypeOK
      <4> QED BY <4>1, <4>2
    <3> QED BY <1>5, <2>2, <3>1 DEF UnlinkAdd
  <2>3. CASE UnlinkEnd(t)
    <3>1. \A u \in Threads : req'[u].op = "encode" => req'[u] = req[u]
      BY <2>3 DEF UnlinkEnd, Idle, IInv, TypeOK
    <3> QED BY <1>5, <2>3, <3>1 DEF UnlinkEnd, ncfsVars
  <2> QED BY <1>4, <1>10, <2>1, <2>2, <2>3 DEF Unlink
<1>11. CASE UNCHANGED vars
  BY <1>5, <1>11 DEF vars, ncfsVars
<1> QED BY <1>2, <1>3, <1>4, <1>6, <1>7, <1>8, <1>9, <1>10, <1>11 DEF Next

(* The start. *)
LEMMA RowInit == Init => RowInv
<1> SUFFICES ASSUME Init PROVE RowInv
  OBVIOUS
<1>1. CurOffset = [d \in Disks |-> 0]
  BY DEF Init, CurOffset, NoMetadata
<1>2. RowOrder
  BY <1>1 DEF RowOrder
<1>3. DataBeforeTwo
  BY <1>1 DEF DataBeforeTwo
<1>4. FirstRow
  BY DEF Init, FirstRow, Idle
<1> QED BY <1>2, <1>3, <1>4 DEF RowInv

(* A coder never puts data on a block that holds its row's parity: the one *)
(* step of RAID 5 is enough for any threads, crashes and disks; that of    *)
(* RAID 6 in a safe configuration whose disks are equal.                   *)
THEOREM DataNotOnParityHolds ==
    ASSUME "empty" \notin Env, 6 \in RaidTypes => SafeConfig /\ EqualDisks
    PROVE  Spec => []DataNotOnParity
<1>1. PlaceInv => DataNotOnParity
  BY DEF PlaceInv
<1>2. CASE 6 \notin RaidTypes
  <2>1. TypeOK => TakesData
    BY <1>2, ChosenPlace DEF TakesData, TakeFree, TypeOK
  <2>2. TypeOK /\ PlaceInv /\ [Next]_vars => PlaceInv'
    BY <2>1, PlaceNext
  <2> QED BY <1>1, <2>2, PlaceInit, TypeCorrect, PTL DEF Spec
<1>3. CASE SafeConfig /\ EqualDisks
  <2>1. IInv /\ RowInv => TakesData
    <3> SUFFICES ASSUME IInv, RowInv, NEW t \in Threads, NEW a \in Names,
                        NEW idx \in Index, NEW d \in Disks, TakeFree(t, a, idx, d)
                 PROVE  DataPlace(Block(d, SkipOffset(raid_type, free_offset)[d]))
      BY DEF TakesData
    <3>1. Chosen(raid_type, SkipOffset(raid_type, free_offset),
                 SkipSize(raid_type, free_offset, free_size), d)
      BY DEF TakeFree
    <3>2. mounted
      BY <1>3, ServeQuiet DEF TakeFree, CanStart
    <3>3. raid_type = 6 => ~BeforeTwo(d, free_offset[d])
      BY <1>3, <3>1, <3>2, ChosenNotBeforeTwo
    <3> QED BY <3>1, <3>3, ChosenPlace DEF IInv
  <2>2. IInv /\ RowInv /\ PlaceInv /\ [Next]_vars => PlaceInv'
    BY <2>1, PlaceNext DEF IInv
  <2>3. IInv /\ RowInv /\ [Next]_vars => RowInv'
    BY <1>3, RowNext
  <2>4. Spec => []IInv
    BY <1>3, InvHolds
  <2> QED BY <1>1, <2>2, <2>3, <2>4, PlaceInit, RowInit, PTL DEF Spec
<1> QED BY <1>2, <1>3

-----------------------------------------------------------------------------
(* No block is lost.                                                       *)

(* A step that forgets no block. *)
LEMMA AccountedStep ==
    ASSUME Accounted, raid_type' = raid_type,
           \A b : Known(b) => Known(b)',
           \A d \in Candidates(raid_type) : \A b \in 0 .. FreeSize[d] - 1 :
             DataPlace(Block(d, b)) /\ Ahead(d, b) =>
               Known(Block(d, b))' \/ Ahead(d, b)'
    PROVE  Accounted'
<1> SUFFICES ASSUME NEW d \in Candidates(raid_type), NEW b \in 0 .. FreeSize[d] - 1,
                    DataPlace(Block(d, b))
             PROVE  Known(Block(d, b))' \/ Ahead(d, b)'
  BY DEF Accounted, DataPlace
<1> QED BY DEF Accounted

(* A step that leaves the blocks where they are. *)
LEMMA LossSame ==
    ASSUME LossInv, UNCHANGED <<raid_type, CurOffset, CurSize, CurList, meta>>,
           \A u \in Threads : Holding(u)' <=> Holding(u),
           \A u \in Threads : Holding(u) => req'[u].blk = req[u].blk,
           Appends', FreedListed'
    PROVE  LossInv'
<1>1. SizeCovers'
  BY DEF LossInv, SizeCovers, HasInfo
<1>2. ASSUME NEW b, Known(b) PROVE Known(b)'
  <2>1. InFile(b) => InFile(b)'
    BY DEF InFile, HasInfo
  <2>2. InList(b) => InList(b)'
    BY DEF InList
  <2>3. InHand(b) => InHand(b)'
    BY DEF InHand
  <2> QED BY <1>2, <2>1, <2>2, <2>3 DEF Known
<1>3. \A d, b : Ahead(d, b) => Ahead(d, b)'
  BY DEF Ahead
<1>4. Accounted'
  BY <1>2, <1>3, AccountedStep DEF LossInv
<1> QED BY <1>1, <1>4 DEF LossInv

(* The same, between requests. *)
LEMMA LossQuiet ==
    ASSUME LossInv, UNCHANGED <<raid_type, CurOffset, CurSize, CurList, meta>>,
           Quiet, Quiet'
    PROVE  LossInv'
<1>1. \A u \in Threads : ~Holding(u) /\ req[u].op = "idle"
  BY QuietFacts
<1>2. \A u \in Threads : ~Holding(u)' /\ req'[u].op = "idle"
  BY DEF Quiet, Holding, Idle
<1>3. Appends' /\ FreedListed'
  BY <1>2 DEF Appends, FreedListed
<1> QED BY <1>1, <1>2, <1>3, LossSame

(* The step over parity passes no data block, and what lies ahead keeps    *)
(* its room.                                                               *)
LEMMA AheadAfterStep ==
    ASSUME SafeConfig, IInv, mounted, NEW d \in Candidates(raid_type),
           NEW b \in 0 .. FreeSize[d] - 1, DataPlace(Block(d, b)), Ahead(d, b)
    PROVE  /\ SkipSize(raid_type, free_offset, free_size)[d] >= 1
           /\ SkipOffset(raid_type, free_offset)[d] <= b
<1>0. PICK fo, fs : /\ fo = SkipOffset(raid_type, free_offset)
                    /\ fs = SkipSize(raid_type, free_offset, free_size)
  OBVIOUS
<1>1. /\ free_offset \in [Disks -> Int] /\ free_size \in [Disks -> Int]
      /\ d \in Disks
  BY CandidateDisks DEF IInv, TypeOK
<1>2. free_size[d] >= 1 /\ b >= free_offset[d]
  BY CurMounted DEF Ahead
<1>3. free_offset[d] + free_size[d] = FreeSize[d]
  BY <1>1, <1>2, CurMounted DEF IInv, Full, Exact
<1>4. fo[d] = IF d \in ParityDisks(raid_type, free_offset[d])
              THEN free_offset[d] + 1 ELSE free_offset[d]
  BY <1>0, <1>1 DEF SkipOffset, Skipped
<1>5. fs[d] = IF d \in ParityDisks(raid_type, free_offset[d])
              THEN free_size[d] - 1 ELSE free_size[d]
  BY <1>0, <1>1 DEF SkipSize, Skipped
<1>6. d \notin ParityDisks(raid_type, b)
  BY DEF DataPlace, Block
<1>7. FreeSize[d] \in Nat /\ b \in Nat
  BY <1>1, ConstantsAssumption DEF ConstantsAssumption
<1>8. CASE d \in ParityDisks(raid_type, free_offset[d])
  <2>1. b # free_offset[d] /\ fo[d] = free_offset[d] + 1 /\ fs[d] = free_size[d] - 1
    BY <1>4, <1>5, <1>6, <1>8
  <2>2. free_offset[d] \in Int /\ free_size[d] \in Int /\ b <= FreeSize[d] - 1
    BY <1>1, <1>7
  <2>3. fo[d] <= b /\ fs[d] >= 1
    BY <1>2, <1>3, <1>7, <2>1, <2>2
  <2> QED BY <1>0, <2>3
<1>9. CASE d \notin ParityDisks(raid_type, free_offset[d])
  BY <1>0, <1>2, <1>4, <1>5, <1>9
<1> QED BY <1>8, <1>9

(* A write takes a free block. *)
LEMMA LossTakeFree ==
    ASSUME SafeConfig, GrowOnly, IInv, LossInv, NEW t \in Threads, NEW a \in Names,
           NEW idx \in Index, NEW d \in Disks, TakeFree(t, a, idx, d)
    PROVE  LossInv'
<1>0. PICK fo, fs : /\ fo = SkipOffset(raid_type, free_offset)
                    /\ fs = SkipSize(raid_type, free_offset, free_size)
  OBVIOUS
<1>1. mounted /\ Quiet /\ WriteAllowed(a, idx)
  BY ServeQuiet DEF TakeFree, CanStart
<1>2. /\ UNCHANGED <<raid_type, mounted, space_list, dir, meta>>
      /\ free_offset' = [p \in Disks |->
                           fo[p] + ParityCharge(raid_type, d, fo[d], p)]
      /\ free_size' = [p \in Disks |->
                         fs[p] - ParityCharge(raid_type, d, fo[d], p)]
      /\ req' = [req EXCEPT ![t] = [op |-> "encode", name |-> a, idx |-> idx,
                                    blk |-> Block(d, fo[d]), num |-> 0]]
  BY <1>0 DEF TakeFree, Encoding, fileVars
<1>3. /\ free_offset \in [Disks -> Int] /\ free_size \in [Disks -> Int]
      /\ fo \in [Disks -> Int] /\ fs \in [Disks -> Int]
      /\ raid_type \in RaidTypes
  <2>1. /\ free_offset \in [Disks -> Int] /\ free_size \in [Disks -> Int]
        /\ raid_type \in RaidTypes
    BY DEF IInv, TypeOK
  <2> QED BY <1>0, <2>1, SkipTypes
<1>4. /\ req'[t].op = "encode" /\ req'[t].name = a /\ req'[t].idx = idx
      /\ \A u \in Threads \ {t} : req'[u].op = "idle"
  BY <1>1, <1>2 DEF Quiet, Idle, IInv, TypeOK
<1>5. SizeCovers'
  BY <1>2 DEF LossInv, SizeCovers, HasInfo
<1>6. Appends'
  <2>1. dir[a] # NoInode => ~HasInfo(dir[a], idx)
    BY <1>1 DEF WriteAllowed, GrowOnly, HasInfo
  <2> QED BY <1>2, <1>4, <2>1 DEF Appends, Holding, HasInfo
<1>7. FreedListed'
  BY <1>4 DEF FreedListed
<1>8. CurList' = CurList /\ CurOffset' = free_offset' /\ CurSize' = free_size'
  BY <1>1, <1>2 DEF CurList, CurOffset, CurSize
<1>9. Accounted'
  <2>1. ASSUME NEW b, Known(b) PROVE Known(b)'
    <3>1. ~InHand(b)
      BY <1>1, QuietFacts DEF InHand
    <3>2. InFile(b) => InFile(b)'
      BY <1>2 DEF InFile, HasInfo
    <3>3. InList(b) => InList(b)'
      BY <1>8 DEF InList
    <3> QED BY <2>1, <3>1, <3>2, <3>3 DEF Known
  <2>2. ASSUME NEW e \in Candidates(raid_type), NEW b \in 0 .. FreeSize[e] - 1,
               DataPlace(Block(e, b)), Ahead(e, b)
        PROVE  Ahead(e, b)'
    <3>1. fs[e] >= 1 /\ fo[e] <= b
      BY <1>0, <1>1, <2>2, AheadAfterStep
    <3>2. e \in Disks /\ ParityCharge(raid_type, d, fo[d], e) = 0
      BY <1>3, CandidateDisks, NoChargeOnData
    <3>3. CurOffset'[e] = fo[e] /\ CurSize'[e] = fs[e]
      BY <1>2, <1>3, <1>8, <3>2
    <3> QED BY <3>1, <3>3 DEF Ahead
  <2> QED BY <1>2, <2>1, <2>2, AccountedStep DEF LossInv
<1> QED BY <1>5, <1>6, <1>7, <1>9 DEF LossInv

(* A write takes a block of the list, or finds none. *)
LEMMA LossScanFails ==
    ASSUME SafeConfig, GrowOnly, IInv, LossInv, NEW t \in Threads, NEW a \in Names,
           NEW idx \in Index, TakeListed(t, a, idx) \/ NoSpace(t, a, idx)
    PROVE  LossInv'
<1>1. /\ mounted /\ Quiet /\ WriteAllowed(a, idx) /\ ScanFails
      /\ UNCHANGED <<raid_type, mounted, dir, meta>>
  BY ServeQuiet DEF TakeListed, NoSpace, CanStart, fileVars
<1>2. SizeCovers'
  BY <1>1 DEF LossInv, SizeCovers, HasInfo
<1>3. \A d \in Candidates(raid_type) : \A b \in 0 .. FreeSize[d] - 1 :
        DataPlace(Block(d, b)) => ~Ahead(d, b)
  <2> SUFFICES ASSUME NEW d \in Candidates(raid_type),
                      NEW b \in 0 .. FreeSize[d] - 1,
                      DataPlace(Block(d, b)), Ahead(d, b)
               PROVE  FALSE
    OBVIOUS
  <2>1. PICK f : f = SkipSize(raid_type, free_offset, free_size)
    OBVIOUS
  <2>2. f[d] >= 1 /\ f[d] <= 0
    BY <1>1, <2>1, AheadAfterStep, NothingFound DEF ScanFails
  <2>3. f \in [Disks -> Int] /\ d \in Disks
    <3>1. /\ free_offset \in [Disks -> Int] /\ free_size \in [Disks -> Int]
          /\ raid_type \in RaidTypes
      BY DEF IInv, TypeOK
    <3> QED BY <2>1, <3>1, SkipTypes, CandidateDisks
  <2> QED BY <2>2, <2>3
<1>4. \A b : ~InHand(b)
  BY <1>1, QuietFacts DEF InHand
<1>5. CurList = space_list /\ CurList' = space_list'
  BY <1>1 DEF CurList
<1>6. \A b : InFile(b) => InFile(b)'
  BY <1>1 DEF InFile, HasInfo
<1>7. CASE NoSpace(t, a, idx)
  <2>1. /\ UNCHANGED <<space_list, req>> /\ \A u \in Threads : req[u].op = "idle"
    BY <1>1, <1>7, QuietFacts DEF NoSpace
  <2>2. Appends' /\ FreedListed'
    BY <2>1 DEF Appends, Holding, FreedListed
  <2>3. \A b : InList(b) => InList(b)'
    BY <1>5, <2>1 DEF InList
  <2>4. Accounted'
    BY <1>1, <1>3, <1>4, <1>6, <2>3, AccountedStep DEF Known, LossInv
  <2> QED BY <1>2, <2>2, <2>4 DEF LossInv
<1>8. CASE TakeListed(t, a, idx)
  <2>1. /\ space_list \in Seq(BlockInfo) /\ space_list # <<>>
        /\ space_list' = Tail(space_list)
        /\ req' = [req EXCEPT ![t] = [op |-> "encode", name |-> a, idx |-> idx,
                                      blk |-> Head(space_list), num |-> 0]]
    BY <1>8 DEF TakeListed, Encoding, IInv, TypeOK
  <2>2. /\ req'[t].op = "encode" /\ req'[t].name = a /\ req'[t].idx = idx
        /\ req'[t].blk = Head(space_list)
        /\ \A u \in Threads \ {t} : req'[u].op = "idle"
    BY <1>1, <2>1 DEF Quiet, Idle, IInv, TypeOK
  <2>3. Appends'
    <3>1. dir[a] # NoInode => ~HasInfo(dir[a], idx)
      BY <1>1 DEF WriteAllowed, GrowOnly, HasInfo
    <3> QED BY <1>1, <2>2, <3>1 DEF Appends, Holding, HasInfo
  <2>4. FreedListed'
    BY <2>2 DEF FreedListed
  <2>5. ASSUME NEW b, InList(b) PROVE InList(b)' \/ InHand(b)'
    <3>1. PICK p \in 1 .. Len(space_list) : space_list[p] = b
      BY <1>5, <2>5 DEF InList
    <3>2. CASE p = 1
      <4>1. b = Head(space_list)
        BY <2>1, <3>1, <3>2
      <4> QED BY <2>2, <4>1 DEF InHand, Holding
    <3>3. CASE p # 1
      <4>1. /\ p - 1 \in 1 .. Len(space_list') /\ space_list'[p - 1] = b
        BY <2>1, <3>1, <3>3
      <4> QED BY <1>5, <4>1 DEF InList
    <3> QED BY <3>2, <3>3
  <2>6. \A b : Known(b) => Known(b)'
    BY <1>4, <1>6, <2>5 DEF Known
  <2>7. Accounted'
    BY <1>1, <1>3, <2>6, AccountedStep DEF LossInv
  <2> QED BY <1>2, <2>3, <2>4, <2>7 DEF LossInv
<1> QED BY <1>7, <1>8

(* The counters are advanced over the block in hand, no other. *)
LEMMA LossCharge ==
    ASSUME SafeConfig, IInv, LossInv, NEW t \in Threads, Charge(t)
    PROVE  LossInv'
<1>1. PICK blk : blk = req[t].blk
  OBVIOUS
<1>2. PICK x, r : x = blk.disk_id /\ r = blk.block_no
  OBVIOUS
<1>3. /\ mounted /\ Reserved(blk) /\ x \in Disks /\ r \in Nat
      /\ raid_type' = raid_type
      /\ \A p \in Disks :
           /\ CurOffset'[p] = IF p = x THEN r + 1 ELSE CurOffset[p]
           /\ CurSize'[p] = IF p = x THEN CurSize[p] - 1 ELSE CurSize[p]
           /\ CurOffset[p] \in Nat /\ CurSize[p] \in Int
  BY <1>1, <1>2, ChargeEffect
<1>4. /\ UNCHANGED <<mounted, space_list, dir, meta>>
      /\ req' = [req EXCEPT ![t].op = "save"] /\ req[t].op = "encode"
  BY DEF Charge, fileVars
<1>5. /\ req[t] \in [op : {"encode", "save"}, name : Names, idx : Index,
                      blk : BlockInfo, num : {0}]
      /\ req \in [Threads -> Request]
  BY <1>4 DEF IInv, TypeOK, Request, Idle
<1>6. /\ req'[t].op = "save" /\ req'[t].blk = blk
      /\ req'[t].idx = req[t].idx /\ req'[t].name = req[t].name
      /\ \A u \in Threads \ {t} : req'[u] = req[u]
  BY <1>1, <1>4, <1>5
<1>7. \A u \in Threads : Holding(u)' <=> Holding(u)
  BY <1>4, <1>6 DEF Holding
<1>8. \A u \in Threads :
        /\ req'[u].blk = req[u].blk /\ req'[u].idx = req[u].idx
        /\ req'[u].name = req[u].name
        /\ req'[u].op = "unlink" => req[u].op = "unlink"
  BY <1>1, <1>6
<1>9. CurList' = CurList
  BY <1>3, <1>4 DEF CurList
<1>10. SizeCovers' /\ Appends' /\ FreedListed'
  <2>1. SizeCovers'
    BY <1>4 DEF LossInv, SizeCovers, HasInfo
  <2>2. Appends'
    <3>1. ASSUME NEW u \in Threads, Holding(u)', (dir[req[u].name] # NoInode)'
          PROVE  (~ HasInfo(dir[req[u].name], req[u].idx))'
      <4>1. Holding(u) /\ dir[req[u].name] # NoInode
        BY <1>4, <1>7, <1>8, <3>1
      <4>2. ~ HasInfo(dir[req[u].name], req[u].idx)
        BY <4>1 DEF LossInv, Appends
      <4> QED BY <1>4, <1>8, <4>2 DEF HasInfo
    <3> QED BY <3>1 DEF Appends
  <2>3. FreedListed'
    <3>1. \A b : InList(b)' <=> InList(b)
      BY <1>9 DEF InList
    <3>2. \A u \in Threads : req'[u].op = "unlink" =>
            \A j \in Index : j < req'[u].idx /\ HasInfo(dir[req[u].name], j) =>
                InList(meta[dir[req[u].name]].info[j])
      BY <1>8 DEF LossInv, FreedListed
    <3> QED BY <1>4, <1>8, <3>1, <3>2 DEF FreedListed, HasInfo
  <2> QED BY <2>1, <2>2, <2>3
<1>11. ASSUME NEW b, Known(b) PROVE Known(b)'
  <2>1. InFile(b) => InFile(b)'
    BY <1>4 DEF InFile, HasInfo
  <2>2. InList(b) => InList(b)'
    BY <1>9 DEF InList
  <2>3. InHand(b) => InHand(b)'
    BY <1>7, <1>8 DEF InHand
  <2> QED BY <1>11, <2>1, <2>2, <2>3 DEF Known
<1>12. ASSUME NEW d \in Candidates(raid_type), NEW b \in 0 .. FreeSize[d] - 1,
              Ahead(d, b)
       PROVE  Known(Block(d, b))' \/ Ahead(d, b)'
  <2>1. d \in Disks /\ FreeSize[d] \in Nat
    BY CandidateDisks, ConstantsAssumption DEF IInv, TypeOK, ConstantsAssumption
  <2>2. CASE d # x
    BY <1>3, <1>12, <2>1, <2>2 DEF Ahead
  <2>3. CASE d = x
    <3>1. CurSize[x] >= 1 /\ b >= CurOffset[x]
      BY <1>12, <2>3 DEF Ahead
    <3>2. ~Full /\ CurSize[x] \in Int /\ CurOffset[x] \in Nat
      <4>1. CurSize[x] \in Int /\ CurOffset[x] \in Nat
        BY <1>3
      <4> QED BY <2>3, <3>1, <4>1 DEF Full
    <3>3. r = CurOffset[x] /\ CurOffset[x] + CurSize[x] = FreeSize[x]
      BY <1>2, <1>3, <2>3, <3>2 DEF IInv, Reserved, Exact
    <3>4. CASE b = r
      <4>1. blk = Block(d, b)
        BY <1>1, <1>2, <1>5, <2>3, <3>4 DEF Block, BlockInfo
      <4>2. InHand(blk)'
        BY <1>6 DEF InHand, Holding
      <4> QED BY <4>1, <4>2 DEF Known
    <3>5. CASE b # r
      <4>1. CurOffset'[x] = r + 1 /\ CurSize'[x] = CurSize[x] - 1
        BY <1>3
      <4>2. r + 1 <= b /\ CurSize[x] - 1 >= 1
        BY <1>3, <2>1, <2>3, <3>1, <3>2, <3>3, <3>5
      <4> QED BY <2>3, <4>1, <4>2 DEF Ahead
    <3> QED BY <3>4, <3>5
  <2> QED BY <2>2, <2>3
<1>13. Accounted'
  BY <1>3, <1>11, <1>12, AccountedStep DEF LossInv
<1> QED BY <1>10, <1>13 DEF LossInv

(* The file gets the block in hand, at its end. *)
LEMMA LossSaveInfo ==
    ASSUME SafeConfig, IInv, LossInv, NEW t \in Threads, SaveInfo(t)
    PROVE  LossInv'
<1>1. mounted /\ req[t].op = "save" /\ \A u \in Threads \ {t} : req[u] = Idle
  BY ActiveThread DEF SaveInfo
<1>2. PICK blk, idx, a : blk = req[t].blk /\ idx = req[t].idx /\ a = req[t].name
  OBVIOUS
<1>3. idx \in Index /\ a \in Names /\ blk \in BlockInfo
  BY <1>2, SaveEffect
<1>4. PICK i0 \in Inodes :
        /\ dir' = [dir EXCEPT ![a] = i0]
        /\ dir[a] = i0 \/ (dir[a] = NoInode /\ ~Named(i0))
        /\ \A j \in Index : j < idx => HasInfo(i0, j)
        /\ meta'[i0].size = idx + 1
        /\ \A i \in Inodes \ {i0} : meta'[i] = meta[i]
        /\ \A i \in Inodes, j \in Index :
             /\ HasInfo(i, j)' <=> HasInfo(i, j) \/ (i = i0 /\ j = idx)
             /\ meta'[i].info[j] = IF i = i0 /\ j = idx THEN blk
                                   ELSE meta[i].info[j]
  BY <1>2, SaveEffect
<1>5. /\ UNCHANGED <<raid_type, mounted, free_offset, free_size, space_list>>
      /\ req' = [req EXCEPT ![t] = Idle]
  BY DEF SaveInfo, ncfsVars
<1>6. \A u \in Threads : req'[u].op = "idle"
  BY <1>1, <1>5 DEF Idle, IInv, TypeOK
<1>7. UNCHANGED <<CurOffset, CurSize, CurList>>
  BY <1>1, <1>5 DEF CurOffset, CurSize, CurList
<1>8. ~HasInfo(i0, idx)
  <2>1. CASE dir[a] = i0
    <3>1. dir[a] # NoInode
      BY <2>1, ConstantsAssumption DEF ConstantsAssumption
    <3> QED BY <1>1, <1>2, <2>1, <3>1 DEF LossInv, Appends, Holding
  <2>2. CASE ~Named(i0)
    BY <1>3, <2>2, NoEmptyInfo DEF IInv, OneName, HasInfo
  <2> QED BY <1>4, <2>1, <2>2
<1>9. SizeCovers'
  <2> SUFFICES ASSUME NEW i \in Inodes, NEW j \in Index, HasInfo(i, j)'
               PROVE  j < meta'[i].size
    BY DEF SizeCovers
  <2>1. CASE i # i0
    BY <1>4, <2>1 DEF LossInv, SizeCovers
  <2>2. CASE i = i0
    <3>1. j = idx \/ HasInfo(i0, j)
      BY <1>4, <2>2
    <3>2. ~(idx < j)
      BY <1>3, <1>8, <3>1 DEF IInv, Dense
    <3> QED BY <1>3, <1>4, <2>2, <3>2
  <2> QED BY <2>1, <2>2
<1>10. Appends' /\ FreedListed'
  BY <1>6 DEF Appends, Holding, FreedListed
<1>11. ASSUME NEW b, Known(b) PROVE Known(b)'
  <2>1. InFile(b) => InFile(b)'
    BY <1>4, <1>8 DEF InFile
  <2>2. InList(b) => InList(b)'
    BY <1>7 DEF InList
  <2>3. InHand(b) => InFile(b)'
    <3>1. InHand(b) => b = blk
      BY <1>1, <1>2 DEF InHand, Holding, Idle
    <3>2. InFile(blk)'
      BY <1>3, <1>4 DEF InFile
    <3> QED BY <3>1, <3>2
  <2> QED BY <1>11, <2>1, <2>2, <2>3 DEF Known
<1>12. \A d, b : Ahead(d, b) => Ahead(d, b)'
  BY <1>7 DEF Ahead
<1>13. Accounted'
  BY <1>5, <1>11, <1>12, AccountedStep DEF LossInv
<1> QED BY <1>9, <1>10, <1>13 DEF LossInv

(* ncfs_unlink() has read the size. *)
LEMMA LossUnlinkStart ==
    ASSUME SafeConfig, IInv, LossInv, NEW t \in Threads, NEW a \in Names,
           UnlinkStart(t, a)
    PROVE  LossInv'
<1>1. mounted /\ Quiet
  BY ServeQuiet DEF UnlinkStart, CanStart
<1>2. /\ UNCHANGED <<raid_type, mounted, free_offset, free_size, space_list, dir,
                     meta>>
      /\ \E n : req' = [req EXCEPT ![t] = [op |-> "unlink", name |-> a, idx |-> 0,
                                            blk |-> Zeros, num |-> n]]
  BY DEF UnlinkStart, SafeConfig, ncfsVars, fileVars
<1>3. /\ req'[t].op = "unlink" /\ req'[t].idx = 0
      /\ \A u \in Threads \ {t} : req'[u].op = "idle"
  BY <1>1, <1>2 DEF Quiet, Idle, IInv, TypeOK
<1>4. UNCHANGED <<CurOffset, CurSize, CurList>>
  BY <1>1, <1>2 DEF CurOffset, CurSize, CurList
<1>5. \A u \in Threads : ~Holding(u) /\ ~Holding(u)'
  BY <1>1, <1>3, QuietFacts DEF Holding
<1>6. Appends' /\ FreedListed'
  BY <1>3, <1>5 DEF Appends, FreedListed
<1> QED BY <1>2, <1>4, <1>5, <1>6, LossSame

(* A block of the file joins the list. *)
LEMMA LossUnlinkAdd ==
    ASSUME SafeConfig, IInv, LossInv, NEW t \in Threads, UnlinkAdd(t)
    PROVE  LossInv'
<1>1. mounted /\ req[t].op = "unlink" /\ \A u \in Threads \ {t} : req[u] = Idle
  BY ActiveThread DEF UnlinkAdd
<1>2. PICK j, i : j = req[t].idx /\ i = dir[req[t].name]
  OBVIOUS
<1>3. /\ req[t] \in [op : {"unlink"}, name : Names, idx : 0 .. MaxBlocks,
                      blk : BlockInfo, num : 0 .. MaxBlocks]
      /\ req \in [Threads -> Request] /\ MaxBlocks \in Nat
  BY <1>1, ConstantsAssumption DEF IInv, TypeOK, Request, Idle, ConstantsAssumption
<1>4. j \in Index /\ i \in Inodes /\ HasInfo(i, j)
  <2>1. j < req[t].num /\ i # NoInode
    BY <1>2 DEF UnlinkAdd
  <2>2. j \in Index /\ i \in Inodes
    BY <1>2, <1>3, <2>1 DEF IInv, TypeOK
  <2>3. meta[i].size = req[t].num
    BY <1>1, <1>2 DEF IInv, UnlinkProgress
  <2> QED BY <2>1, <2>2, <2>3 DEF IInv, Dense
<1>5. PICK info : info = meta[i].info[j]
  OBVIOUS
<1>6. info \in BlockInfo
  <2>1. meta[i].info \in [Index -> BlockInfo \cup {NoBlock}]
    BY <1>4 DEF IInv, TypeOK, MetaFile
  <2> QED BY <1>4, <1>5, <2>1 DEF HasInfo
<1>7. /\ UNCHANGED <<raid_type, mounted, free_offset, free_size, dir, meta>>
      /\ req' = [req EXCEPT ![t].idx = j + 1, ![t].blk = info]
  BY <1>2, <1>4, <1>5 DEF UnlinkAdd, fileVars
<1>8. PICK q \in 1 .. Len(space_list) + 1 :
        space_list' = InsertNode(space_list, info, q)
  BY <1>2, <1>4, <1>5 DEF UnlinkAdd
<1>9. /\ Len(space_list) \in Nat /\ Len(space_list') = Len(space_list) + 1
      /\ \A p \in 1 .. Len(space_list) + 1 :
           space_list'[p] = IF p < q THEN space_list[p]
                            ELSE IF p = q THEN info ELSE space_list[p - 1]
  <2>1. space_list \in Seq(BlockInfo)
    BY DEF IInv, TypeOK
  <2>2. PICK l : l = InsertNode(space_list, info, q)
    OBVIOUS
  <2>3. /\ Len(l) = Len(space_list) + 1
        /\ \A p \in 1 .. Len(space_list) + 1 :
             l[p] = IF p < q THEN space_list[p]
                    ELSE IF p = q THEN info ELSE space_list[p - 1]
    BY <1>6, <2>1, <2>2, InsertNodeType
  <2> QED BY <1>8, <2>1, <2>2, <2>3
<1>10. /\ CurList = space_list /\ CurList' = space_list'
       /\ UNCHANGED <<CurOffset, CurSize>>
  BY <1>1, <1>7 DEF CurList, CurOffset, CurSize
<1>11. InList(info)'
  <2>1. q \in 1 .. Len(CurList') /\ CurList'[q] = info
    BY <1>8, <1>9, <1>10
  <2> QED BY <2>1 DEF InList
<1>12. ASSUME NEW b, InList(b) PROVE InList(b)'
  <2>1. PICK p \in 1 .. Len(space_list) : space_list[p] = b
    BY <1>10, <1>12 DEF InList
  <2>2. CASE p < q
    <3>1. p \in 1 .. Len(CurList') /\ CurList'[p] = b
      BY <1>9, <1>10, <2>1, <2>2
    <3> QED BY <3>1 DEF InList
  <2>3. CASE p >= q
    <3>1. /\ p + 1 \in 1 .. Len(space_list) + 1 /\ (p + 1) - 1 = p
          /\ ~(p + 1 < q) /\ p + 1 # q
      BY <1>9, <2>3
    <3>2. space_list'[p + 1] = b
      BY <1>9, <2>1, <3>1
    <3> QED BY <1>9, <1>10, <3>1, <3>2 DEF InList
  <2> QED BY <2>2, <2>3
<1>13. /\ req'[t].op = "unlink" /\ req'[t].name = req[t].name /\ req'[t].idx = j + 1
       /\ \A u \in Threads \ {t} : req'[u].op = "idle" /\ req[u].op = "idle"
  BY <1>1, <1>3, <1>7 DEF Idle
<1>14. SizeCovers' /\ Appends'
  BY <1>7, <1>13 DEF LossInv, SizeCovers, Appends, Holding, HasInfo
<1>15. FreedListed'
  <2> SUFFICES ASSUME NEW u \in Threads, req'[u].op = "unlink", NEW k \in Index,
                      k < req'[u].idx, HasInfo(dir[req[u].name], k)'
               PROVE  InList(meta[dir[req[u].name]].info[k])'
    BY DEF FreedListed
  <2>a. u = t /\ dir'[req'[u].name] = i /\ k < j + 1
    BY <1>2, <1>7, <1>13
  <2>b. HasInfo(i, k)
    BY <1>7, <2>a DEF HasInfo
  <2> SUFFICES InList(meta[i].info[k])'
    BY <1>7, <2>a DEF InList
  <2>1. CASE k = j
    BY <1>5, <1>7, <1>11, <2>1 DEF InList
  <2>2. CASE k < j
    <3>1. InList(meta[i].info[k])
      BY <1>1, <1>2, <2>2, <2>b DEF LossInv, FreedListed
    <3>2. PICK b : b = meta[i].info[k]
      OBVIOUS
    <3>3. InList(b)'
      BY <1>12, <3>1, <3>2
    <3> QED BY <1>7, <3>2, <3>3 DEF InList
  <2> QED BY <1>4, <2>a, <2>1, <2>2
<1>16. ASSUME NEW b, Known(b) PROVE Known(b)'
  <2>1. ~InHand(b)
    BY <1>1, <1>13 DEF InHand, Holding
  <2>2. InFile(b) => InFile(b)'
    BY <1>7 DEF InFile, HasInfo
  <2> QED BY <1>12, <1>16, <2>1, <2>2 DEF Known
<1>17. \A d, b : Ahead(d, b) => Ahead(d, b)'
  BY <1>10 DEF Ahead
<1>18. Accounted'
  BY <1>7, <1>16, <1>17, AccountedStep DEF LossInv
<1> QED BY <1>14, <1>15, <1>18 DEF LossInv

(* The file disappears when all its blocks are on the list. *)
LEMMA LossUnlinkEnd ==
    ASSUME SafeConfig, IInv, LossInv, NEW t \in Threads, UnlinkEnd(t)
    PROVE  LossInv'
<1>1. mounted /\ req[t].op = "unlink" /\ \A u \in Threads \ {t} : req[u] = Idle
  BY ActiveThread DEF UnlinkEnd
<1>2. PICK a, i : a = req[t].name /\ i = dir[a]
  OBVIOUS
<1>3. /\ UNCHANGED <<raid_type, mounted, free_offset, free_size, space_list>>
      /\ dir' = [dir EXCEPT ![a] = NoInode]
      /\ meta' = Kept(dir') /\ req' = [req EXCEPT ![t] = Idle]
      /\ req[t].idx = req[t].num
  BY <1>2 DEF UnlinkEnd, ncfsVars
<1>4. \A u \in Threads : req'[u].op = "idle"
  BY <1>1, <1>3 DEF Idle, IInv, TypeOK
<1>5. UNCHANGED <<CurOffset, CurSize, CurList>>
  BY <1>1, <1>3 DEF CurOffset, CurSize, CurList
<1>6. \A k \in Inodes, j \in Index : HasInfo(k, j)' =>
        HasInfo(k, j) /\ meta'[k] = meta[k]
  BY <1>3, KeptShrinks, NoEmptyInfo DEF HasInfo
<1>7. SizeCovers'
  BY <1>6 DEF LossInv, SizeCovers
<1>8. Appends' /\ FreedListed'
  BY <1>4 DEF Appends, Holding, FreedListed
<1>9. ASSUME NEW k \in Inodes, NEW j \in Index, HasInfo(k, j)
      PROVE  k = i \/ meta'[k] = meta[k]
  <2> SUFFICES ASSUME k # i PROVE meta'[k] = meta[k]
    OBVIOUS
  <2>1. Named(k)
    BY <1>9, NoEmptyInfo DEF IInv, OneName, HasInfo
  <2>2. PICK c \in Names : dir[c] = k
    BY <2>1 DEF Named
  <2>3. c # a /\ dir'[c] = k
    BY <1>2, <1>3, <2>2 DEF IInv, TypeOK
  <2> QED BY <1>3, <2>3 DEF Kept
<1>10. ASSUME NEW b, Known(b) PROVE Known(b)'
  <2>1. ~InHand(b)
    BY <1>1 DEF InHand, Holding, Idle
  <2>2. InList(b) => InList(b)'
    BY <1>5 DEF InList
  <2>3. ASSUME InFile(b) PROVE InFile(b)' \/ InList(b)'
    <3>1. PICK k \in Inodes, j \in Index : HasInfo(k, j) /\ meta[k].info[j] = b
      BY <2>3 DEF InFile
    <3>2. CASE k = i
      <4>1. j < meta[i].size /\ meta[i].size = req[t].num
        BY <1>1, <1>2, <3>1, <3>2 DEF LossInv, SizeCovers, IInv, UnlinkProgress
      <4>2. InList(b)
        BY <1>1, <1>2, <1>3, <3>1, <3>2, <4>1 DEF LossInv, FreedListed
      <4> QED BY <2>2, <4>2
    <3>3. CASE meta'[k] = meta[k]
      BY <3>1, <3>3 DEF InFile, HasInfo
    <3> QED BY <1>9, <3>1, <3>2, <3>3
  <2> QED BY <1>10, <2>1, <2>2, <2>3 DEF Known
<1>11. \A d, b : Ahead(d, b) => Ahead(d, b)'
  BY <1>5 DEF Ahead
<1>12. Accounted'
  BY <1>3, <1>10, <1>11, AccountedStep DEF LossInv
<1> QED BY <1>7, <1>8, <1>12 DEF LossInv

(* Every step. *)
LEMMA LossNext ==
    ASSUME SafeConfig, GrowOnly, IInv, LossInv, [Next]_vars PROVE LossInv'
<1>1. CASE Mount
  <2>1. /\ UNCHANGED <<raid_type, CurOffset, CurSize, CurList, meta, req>>
    BY <1>1 DEF Mount, CurOffset, CurSize, CurList, fileVars
  <2>2. Quiet
    BY <1>1 DEF IInv, OneRequest, Mount, Quiet
  <2> QED BY <2>1, <2>2, LossQuiet DEF Quiet
<1>2. CASE Destroy
  BY <1>2, DestroyKeeps, LossQuiet DEF Destroy, fileVars, Quiet
<1>3. ~Crash /\ \A u \in Threads : ~UnlinkExit(u)
  BY DEF Crash, SafeConfig, UnlinkExit, IInv, UnlinkProgress
<1>4. ASSUME NEW a \in Names, NEW i \in Inodes, Create(a, i) PROVE LossInv'
  <2>1. /\ Quiet /\ mounted
        /\ UNCHANGED <<raid_type, mounted, ncfsVars, raid_metadata, meta, req>>
    BY <1>4, ServeQuiet DEF Create
  <2>2. UNCHANGED <<CurOffset, CurSize, CurList>>
    BY <2>1 DEF CurOffset, CurSize, CurList, ncfsVars
  <2> QED BY <2>1, <2>2, LossQuiet DEF Quiet
<1>5. ASSUME NEW a \in Names, NEW b \in Names, Rename(a, b) PROVE LossInv'
  <2>1. /\ Quiet /\ mounted /\ dir[b] = NoInode /\ dir[a] # NoInode /\ a # b
        /\ UNCHANGED <<raid_type, mounted, ncfsVars, raid_metadata, req>>
        /\ dir' = [dir EXCEPT ![a] = NoInode, ![b] = dir[a]]
        /\ meta' = Kept(dir')
    BY <1>5, ServeQuiet DEF Rename, GrowOnly
  <2>2. UNCHANGED <<CurOffset, CurSize, CurList>>
    BY <2>1 DEF CurOffset, CurSize, CurList, ncfsVars
  <2>3. ASSUME NEW i \in Inodes PROVE meta'[i] = meta[i]
    <3>1. CASE Named(i)
      <4>1. PICK c \in Names : dir[c] = i
        BY <3>1 DEF Named
      <4>2. i # NoInode
        BY ConstantsAssumption DEF ConstantsAssumption
      <4>3. \E e \in Names : dir'[e] = i
        BY <2>1, <4>1, <4>2 DEF IInv, TypeOK
      <4> QED BY <2>1, <4>3 DEF Kept
    <3>2. CASE ~Named(i)
      <4>1. meta[i] = EmptyMeta
        BY <3>2 DEF IInv, OneName
      <4> QED BY <2>1, <4>1 DEF Kept
    <3> QED BY <3>1, <3>2
  <2>4. meta' = meta
    BY <2>1, <2>3 DEF Kept, IInv, TypeOK
  <2> QED BY <2>1, <2>2, <2>4, LossQuiet DEF Quiet
<1>6. \A a, b \in Names : ~Link(a, b)
  BY DEF Link, SafeConfig
<1>7. \A a \in Names, len \in -1 .. MaxBlocks : ~Truncate(a, len)
  BY DEF Truncate, SafeConfig, GrowOnly
<1>8. ASSUME NEW t \in Threads, Write(t) PROVE LossInv'
  BY <1>8, LossTakeFree, LossScanFails, LossCharge, LossSaveInfo DEF Write
<1>9. ASSUME NEW t \in Threads, Unlink(t) PROVE LossInv'
  BY <1>3, <1>9, LossUnlinkStart, LossUnlinkAdd, LossUnlinkEnd DEF Unlink
<1>10. CASE UNCHANGED vars
  <2>1. /\ UNCHANGED <<raid_type, CurOffset, CurSize, CurList, meta, req, dir>>
    BY <1>10 DEF vars, CurOffset, CurSize, CurList, ncfsVars, fileVars
  <2>2. Appends' /\ FreedListed' /\ \A u \in Threads : Holding(u)' <=> Holding(u)
    BY <2>1 DEF LossInv, Appends, FreedListed, Holding, HasInfo, InList
  <2> QED BY <2>1, <2>2, LossSame
<1> QED BY <1>1, <1>2, <1>3, <1>4, <1>5, <1>6, <1>7, <1>8, <1>9, <1>10 DEF Next

(* Everything is ahead at the start. *)
LEMMA LossInit == Init => LossInv
<1> SUFFICES ASSUME Init PROVE LossInv
  OBVIOUS
<1>1. CurOffset = [d \in Disks |-> 0] /\ CurSize = FreeSize
  BY DEF Init, CurOffset, CurSize, NoMetadata
<1>2. \A u \in Threads : req[u].op = "idle"
  BY DEF Init, Idle
<1>3. SizeCovers
  BY NoEmptyInfo DEF Init, SizeCovers, HasInfo
<1>4. Appends /\ FreedListed
  BY <1>2 DEF Appends, Holding, FreedListed
<1>5. Accounted
  <2> SUFFICES ASSUME NEW d \in Candidates(raid_type), NEW b \in 0 .. FreeSize[d] - 1
               PROVE  Ahead(d, b)
    BY DEF Accounted
  <2>1. d \in Disks /\ FreeSize[d] \in Nat
    BY CandidateDisks, ConstantsAssumption DEF Init, ConstantsAssumption
  <2> QED BY <1>1, <2>1 DEF Ahead
<1> QED BY <1>3, <1>4, <1>5 DEF LossInv

(* While files only grow, are renamed to free names and removed, a write   *)
(* is refused only when every data block of the array is in a file.        *)
THEOREM FullMeansInUseHolds ==
    ASSUME SafeConfig, GrowOnly PROVE Spec => []FullMeansInUse
<1>1. IInv /\ LossInv => FullMeansInUse
  <2> SUFFICES ASSUME IInv, LossInv, mounted, Quiet, space_list = <<>>,
                      Eligible(raid_type, SkipOffset(raid_type, free_offset),
                               SkipSize(raid_type, free_offset, free_size)) = {},
                      NEW d \in Disks, NEW b \in 0 .. FreeSize[d] - 1,
                      DataPlace(Block(d, b))
               PROVE  InFile(Block(d, b))
    BY DEF FullMeansInUse, InFile
  <2>1. PICK f : f = SkipSize(raid_type, free_offset, free_size)
    OBVIOUS
  <2>2. d \in Candidates(raid_type)
    BY DEF DataPlace, Block
  <2>3. f \in [Disks -> Int]
    <3>1. /\ free_offset \in [Disks -> Int] /\ free_size \in [Disks -> Int]
      BY DEF IInv, TypeOK
    <3> QED BY <2>1, <3>1, SkipTypes
  <2>4. f[d] <= 0
    BY <2>1, <2>2, NothingFound
  <2>5. ~Ahead(d, b)
    <3>1. Ahead(d, b) => f[d] >= 1
      BY <2>1, <2>2, AheadAfterStep
    <3>2. f[d] \in Int
      BY <2>3
    <3> QED BY <2>4, <3>1, <3>2
  <2>6. ~InHand(Block(d, b))
    BY QuietFacts DEF InHand
  <2>7. ~InList(Block(d, b))
    BY CurMounted DEF InList
  <2> QED BY <2>2, <2>5, <2>6, <2>7 DEF LossInv, Accounted, Known
<1>2. IInv /\ LossInv /\ [Next]_vars => LossInv'
  BY LossNext
<1>3. Spec => []IInv
  BY InvHolds
<1> QED BY <1>1, <1>2, <1>3, LossInit, PTL DEF Spec
=============================================================================
