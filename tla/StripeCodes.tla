----------------------------- MODULE StripeCodes -----------------------------
(***************************************************************************)
(* The codes with K data disks, a row parity disk P and a disk Q of        *)
(* parities across rows: MDR-1 (RaidType 61), EVENODD (63) and RDP (64).   *)
(* Their encode() updates P and some blocks of Q of the same strip; their  *)
(* decode() and the functions of the recovery tool rebuild one disk.       *)
(*                                                                         *)
(* Every call is one step here; what happens between the disk accesses of  *)
(* a call is the subject of Redundancy.                                    *)
(***************************************************************************)
EXTENDS OperationMode, XorSets

CONSTANTS
    RaidTypes,   \* subset of {61, 63, 64}
    Strips,      \* strips of a disk
    Methods,     \* by type: the rebuild methods of ./recover in use
    MaxWrites,   \* bound: writes of a behaviour
    Env          \* what may happen, see EnvEvents

(***************************************************************************)
(* "recycle": a removed block is written again (the disks are full);       *)
(* "another": after a disk has been put back a different one fails while   *)
(* the process still runs.                                                 *)
(***************************************************************************)
EnvEvents == {"recycle", "another"}

ASSUME StripeCodesAssumption ==
    /\ K >= 2 /\ N = K + 2
    /\ RaidTypes \subseteq {61, 63, 64}
    /\ 61 \in RaidTypes => K <= 5 \* the masks are shifts of an int
    /\ Strips \in Nat \ {0}
    /\ Methods \in [RaidTypes -> SUBSET {0, 1}]
    /\ MaxWrites \in Nat
    /\ Env \subseteq EnvEvents

P == N - 2            \* p_disk_id
Q == N - 1            \* q_disk_id
DataDisks == 0 .. K - 1

strip_size(rt) ==
    CASE rt = 61 -> 2 ^ K
      [] rt = 63 -> K - 1
      [] rt = 64 -> K

-----------------------------------------------------------------------------
(***************************************************************************)
(* MDR-1.  An entry of mdr_I_encoding_matrixB is a bit mask over the rows  *)
(* of a strip, bit strip_size - t - 1 for row t; here it is the set of the *)
(* rows.  MatrixB[k][q][j] are the rows of disk j (P is disk k) that block *)
(* q of Q is the XOR of.                                                   *)
(***************************************************************************)
MatrixB[k \in 1 .. K] ==
    IF k = 1
    THEN [q \in 0 .. 1 |-> [j \in 0 .. 1 |->
            IF q = 0 /\ j = 0 THEN {1} ELSE IF q = 1 /\ j = 1 THEN {0} ELSE {}]]
    ELSE LET half == 2 ^ (k - 1)
             old(q, j) == Xor(MatrixB[k - 1][q][j], MatrixB[k - 1][q][k - 1])
         IN  [q \in 0 .. 2 * half - 1 |-> [j \in 0 .. k |->
                CASE j < k - 1 /\ q < half -> old(q, j)
                  [] j < k - 1 /\ q >= half ->
                         {t + half : t \in old(q - half, j)}
                  [] j = k - 1 /\ q < half -> {q + half}
                  [] j = k /\ q >= half -> {q - half}
                  [] OTHER -> {}]]

mdr_I_encoding_matrixB == MatrixB[K]

(* mdr_I_repair_dpDisk_stripeIndexs(): the half of the rows that is read to *)
(* rebuild disk d of a code with k data disks.                             *)
StripeIndexs[k \in 1 .. K] ==
    LET half == 2 ^ (k - 1)
    IN  [d \in 0 .. k |->
           IF k = 1 THEN {d}
           ELSE CASE d < k - 1 -> StripeIndexs[k - 1][d]
                                  \cup {t + half : t \in StripeIndexs[k - 1][d]}
                  [] d = k - 1 -> 0 .. half - 1
                  [] d = k -> half .. 2 * half - 1]

stripeIndex == StripeIndexs[K]

(***************************************************************************)
(* mdr_I_repair_dpDisk_nonstripeIndexs_blocks_no(): the block of Q through *)
(* which the other rows of disk d are rebuilt.  Block q of Q, q one of the *)
(* rows read, serves the last row met that is not read.                    *)
(***************************************************************************)
LastOutside(d, q) ==
    LET outside == {x \in (0 .. K) \X (0 .. 2 ^ K - 1) :
                        /\ x[2] \in mdr_I_encoding_matrixB[q][x[1]]
                        /\ x[2] \notin stripeIndex[d]}
    IN  (CHOOSE x \in outside : \A y \in outside :
            y[1] < x[1] \/ (y[1] = x[1] /\ y[2] <= x[2]))[2]

QBlockFor == [d \in 0 .. K |->
    [t \in (0 .. 2 ^ K - 1) \ stripeIndex[d] |->
        CHOOSE q \in stripeIndex[d] :
            /\ LastOutside(d, q) = t
            /\ \A r \in stripeIndex[d] : r > q => LastOutside(d, r) # t]]

(***************************************************************************)
(* What these tables promise: a row that is not read is the only one of    *)
(* the block of Q that serves it which the list leaves out, and of disk d. *)
(***************************************************************************)
Mdr1Lists ==
    61 \in RaidTypes =>
       \A d \in 0 .. K :
          /\ stripeIndex[d] \subseteq 0 .. 2 ^ K - 1
          /\ \A t \in (0 .. 2 ^ K - 1) \ stripeIndex[d] :
                LET q == QBlockFor[d][t]
                IN  /\ q \in stripeIndex[d]
                    /\ \A j \in 0 .. K :
                          mdr_I_encoding_matrixB[q][j] \ stripeIndex[d]
                              = IF j = d THEN {t} ELSE {}

-----------------------------------------------------------------------------
(***************************************************************************)
(* elem_hash of Q's blocks: the blocks <<row, disk>> that block q of Q is  *)
(* rebuilt from.  EVENODD adds the diagonal row + disk = K - 1 to every    *)
(* one; RDP's diagonals run through P.                                     *)
(***************************************************************************)
mdr_I_repair_qDisk_blocks_id(q) ==
    {c \in (0 .. 2 ^ K - 1) \X (0 .. K) : c[1] \in mdr_I_encoding_matrixB[q][c[2]]}

evenodd_related_elems(q) ==
    {c \in (0 .. K - 2) \X DataDisks : c[1] + c[2] = K - 1 \/ c[1] = (q - c[2]) % K}

rdp_related_elems(q) ==
    LET inP == (q + 1) % (K + 1)
    IN  {<<t, P>> : t \in {inP} \cap (0 .. K - 1)}
        \cup {<<t, (q - t) % (K + 1)>> : t \in (0 .. K - 1) \ {inP}}

QTerms == [rt \in RaidTypes |-> [q \in 0 .. strip_size(rt) - 1 |->
    CASE rt = 61 -> mdr_I_repair_qDisk_blocks_id(q)
      [] rt = 63 -> evenodd_related_elems(q)
      [] rt = 64 -> rdp_related_elems(q)]]

(***************************************************************************)
(* The blocks of Q that encode() XORs the new block into, once or an odd   *)
(* number of times.  MDR-1 follows the change of P too, EVENODD and RDP    *)
(* look only for the data block.                                           *)
(***************************************************************************)
mdr_I_find_q_blocks_idDataOnly(d, t) == \* mutant: the change of P is not followed
    {q \in 0 .. strip_size(61) - 1 : <<t, d>> \in QTerms[61][q]}
mdr_I_find_q_blocks_id(d, t) ==
    {q \in 0 .. strip_size(61) - 1 :
        (<<t, d>> \in QTerms[61][q]) # (<<t, P>> \in QTerms[61][q])}

evenodd_find_q_blocks_id(d, t) ==
    {q \in 0 .. strip_size(63) - 1 : <<t, d>> \in QTerms[63][q]}

rdp_find_q_blocks_id(d, t) ==
    {q \in 0 .. strip_size(64) - 1 : <<t, d>> \in QTerms[64][q]}

-----------------------------------------------------------------------------
VARIABLES
    raid_type,       \* NCFS_DATA->disk_raid_type
    content,         \* what is on the devices: content[d][block_no]
    disk_status,     \* NCFS_DATA->disk_status
    operation_mode,  \* NCFS_DATA->operation_mode
    stored,          \* block -> the acknowledged write its file refers to
    written,         \* number of writes
    reading,         \* a read that has passed the mode check is under way
    planned          \* the disk mdr_I_one_dpDisk_fail_stripeIndex is for

vars == <<raid_type, content, disk_status, operation_mode, stored, written,
          reading, planned>>

Writes == 1 .. MaxWrites
None == -1
NoWrite == 0
Block(rt) == 0 .. Strips * strip_size(rt) - 1

TypeOK ==
    /\ raid_type \in RaidTypes
    /\ content \in [Disks -> [Block(raid_type) -> SUBSET Writes]]
    /\ disk_status \in [Disks -> {0, 1}]
    /\ operation_mode \in Mode
    /\ stored \in [DataDisks \X Block(raid_type) -> Writes \cup {NoWrite}]
    /\ written \in 0 .. MaxWrites
    /\ reading \in BOOLEAN
    /\ planned \in (0 .. K) \cup {None}

Init ==
    /\ raid_type \in RaidTypes
    /\ content = [d \in Disks |-> [b \in Block(raid_type) |-> {}]]
    /\ disk_status = [d \in Disks |-> 0]
    /\ operation_mode = 0
    /\ stored = [x \in DataDisks \X Block(raid_type) |-> NoWrite]
    /\ written = 0
    /\ reading = FALSE
    /\ planned = None

-----------------------------------------------------------------------------
(* A block number is a row t of the strip that starts at base.             *)
base(b) == b - (b % strip_size(raid_type))
row(b) == b % strip_size(raid_type)

(* Block <<row, disk>> of the strip of block b, and the XOR of several. *)
Cell(c, b) == content[c[2]][base(b) + c[1]]
XorOfCells(cells, b) == XorOver(cells, [c \in cells |-> Cell(c, b)])
StripRows == 0 .. strip_size(raid_type) - 1

(***************************************************************************)
(* encode(): P and the blocks qs of Q get the new block XORed in, as if it *)
(* held zeros before; it is written last.                                  *)
(***************************************************************************)
XoredIn(d, b, qs, w) ==
    [content EXCEPT
        ![d][b] = {w},
        ![P][b] = Xor(@, {w}),
        ![Q] = [c \in DOMAIN @ |-> IF base(c) = base(b) /\ row(c) \in qs
                                   THEN Xor(@[c], {w}) ELSE @[c]]]

EncodeMdr1(d, b, w) == XoredIn(d, b, mdr_I_find_q_blocks_id(d, row(b)), w)
EncodeEvenodd(d, b, w) == XoredIn(d, b, evenodd_find_q_blocks_id(d, row(b)), w)
EncodeRdp(d, b, w) == XoredIn(d, b, rdp_find_q_blocks_id(d, row(b)), w)

(* Row t of disk d, from the other data disks and P. *)
FromRowAndQ(d, t, b) == \* mutant: the loop runs to disk_total_num
    XorOfCells({t} \X (Disks \ {d}), b)
FromRow(d, t, b) == XorOfCells({t} \X ((0 .. K) \ {d}), b)

(***************************************************************************)
(* MDR-1: block b of data or P disk d, with the list of rows made for disk *)
(* plan.  A row of the list comes from its row; another one from a block   *)
(* of Q and the rows of the list, those of disk d rebuilt first.           *)
(***************************************************************************)
FromPlanOwnSkipped(d, plan, b) == \* mutant: the rows of d itself are left out
    LET S == stripeIndex[plan]
        q == QBlockFor[plan][row(b)]
    IN  IF row(b) \in S THEN FromRow(d, row(b), b)
        ELSE XorOfCells({c \in S \X ((0 .. K) \ {d}) :
                            c[1] \in mdr_I_encoding_matrixB[q][c[2]]}
                          \cup {<<q, Q>>}, b)
FromPlan(d, plan, b) ==
    LET S == stripeIndex[plan]
        q == QBlockFor[plan][row(b)]
        terms == mdr_I_encoding_matrixB[q]
        direct == {c \in S \X ((0 .. K) \ {d}) : c[1] \in terms[c[2]]}
                      \cup {<<q, Q>>}
        own == S \cap terms[d]
    IN  IF row(b) \in S
        THEN FromRow(d, row(b), b)
        ELSE Xor(XorOfCells(direct, b),
                 XorOver(own, [t \in own |-> FromRow(d, t, b)]))

(* decode() of a block of the only failed disk d.  For Q of MDR-1 it is a  *)
(* "TODO": the zeros of memset.                                            *)
DecodeMdr1(d, plan, b) == IF d = Q THEN {} ELSE FromPlan(d, plan, b)
DecodeEvenodd(d, b) ==
    IF d = Q THEN XorOfCells(QTerms[63][row(b)], b) ELSE FromRow(d, row(b), b)
DecodeRdp(d, b) ==
    IF d = Q THEN XorOfCells(QTerms[64][row(b)], b) ELSE FromRow(d, row(b), b)

Decode(d, plan, b) ==
    CASE raid_type = 61 -> DecodeMdr1(d, plan, b)
      [] raid_type = 63 -> DecodeEvenodd(d, b)
      [] raid_type = 64 -> DecodeRdp(d, b)

(***************************************************************************)
(* Method 0 of ./recover: a strip at a time is read into a buffer that was *)
(* zero, and the blocks of disk d are put together from it.                *)
(***************************************************************************)
Buffered(read, b) ==
    [c \in StripRows \X Disks |-> IF c \in read THEN Cell(c, b) ELSE {}]

(* pre_read_into_buf(): P is not read for Q, nor Q for another disk. *)
evenodd_pre_read(d, b) ==
    Buffered(StripRows \X (Disks \ {d, IF d = Q THEN P ELSE Q}), b)
rdp_pre_read(d, b) ==
    Buffered(IF d = Q THEN UNION {QTerms[64][q] : q \in StripRows}
             ELSE StripRows \X ((0 .. K) \ {d}), b)

evenodd_recover_block2(d, b) ==
    XorOver(IF d = Q THEN QTerms[63][row(b)] ELSE {row(b)} \X ((0 .. K) \ {d}),
            evenodd_pre_read(d, b))
rdp_recover_block2(d, b) ==
    XorOver(IF d = Q THEN QTerms[64][row(b)] ELSE {row(b)} \X ((0 .. K) \ {d}),
            rdp_pre_read(d, b))

(* mdr_I_recover_oneStripeGroup2() for data or P: half the rows are read,  *)
(* those of disk d computed in the buffer, and the others from them and Q. *)
mdr_I_recover_dpDisk(d, b) ==
    LET S == stripeIndex[d]
        q == QBlockFor[d][row(b)]
        terms == {c \in S \X (0 .. K) : c[1] \in mdr_I_encoding_matrixB[q][c[2]]}
                     \cup {<<q, Q>>}
        buf == Buffered(S \X (Disks \ {d}), b)
        own(t) == XorOver({t} \X ((0 .. K) \ {d}), buf)
    IN  IF row(b) \in S THEN own(row(b))
        ELSE XorOver(terms, [c \in terms |-> IF c[2] = d THEN own(c[1]) ELSE buf[c]])

(* And for Q, from all rows. *)
mdr_I_recover_qDisk(b) ==
    XorOver(QTerms[61][row(b)], Buffered(StripRows \X (0 .. K), b))

mdr_I_recover_one_disk(d, b) ==
    IF d = Q THEN mdr_I_recover_qDisk(b) ELSE mdr_I_recover_dpDisk(d, b)
evenodd_recover_one_disk(d, b) == evenodd_recover_block2(d, b)
rdp_recover_one_disk(d, b) == rdp_recover_block2(d, b)

(* Method 1: recover() of the coder, block after block through decode(). *)
Mdr1Recover(d, b) == DecodeMdr1(d, d, b)
EvenoddRecover(d, b) == DecodeEvenodd(d, b)
RdpRecover(d, b) == DecodeRdp(d, b)

(* What ./recover writes.  ConventionalRecover(), run after method 0,      *)
(* finds the disk working and copies the new device onto itself.           *)
Rebuilt(method, d, b) ==
    CASE raid_type = 61 -> IF method = 0 THEN mdr_I_recover_one_disk(d, b) ELSE Mdr1Recover(d, b)
      [] raid_type = 63 -> IF method = 0 THEN evenodd_recover_one_disk(d, b) ELSE EvenoddRecover(d, b)
      [] raid_type = 64 -> IF method = 0 THEN rdp_recover_one_disk(d, b) ELSE RdpRecover(d, b)

-----------------------------------------------------------------------------
(* ncfs_write() and the encode() of the coder. *)
Write(d, b) ==
    /\ MayWrite(operation_mode)
    /\ written < MaxWrites
    /\ stored[<<d, b>>] = NoWrite
    /\ content[d][b] = {} \/ "recycle" \in Env
    /\ written' = written + 1
    /\ stored' = [stored EXCEPT ![<<d, b>>] = written']
    /\ content' = CASE raid_type = 61 -> EncodeMdr1(d, b, written')
                    [] raid_type = 63 -> EncodeEvenodd(d, b, written')
                    [] raid_type = 64 -> EncodeRdp(d, b, written')
    /\ UNCHANGED <<raid_type, disk_status, operation_mode, reading, planned>>

(* ncfs_unlink of the file: its block may be handed out again. *)
Remove(d, b) ==
    /\ stored[<<d, b>>] # NoWrite
    /\ stored' = [stored EXCEPT ![<<d, b>>] = NoWrite]
    /\ UNCHANGED <<raid_type, content, disk_status, operation_mode, written,
                   reading, planned>>

(* ncfs_read checks the mode once and then decodes block after block. *)
ReadStart ==
    /\ ~reading /\ MayRead(operation_mode)
    /\ reading' = TRUE
    /\ UNCHANGED <<raid_type, content, disk_status, operation_mode, stored,
                   written, planned>>

(* MDR-1 makes the list of rows at the first block it has to rebuild. *)
Plan(d) == IF planned = None THEN d ELSE planned

ReadBlock(d, b) ==
    /\ reading
    /\ stored[<<d, b>>] # NoWrite
    /\ raid_type = 61 /\ disk_status[d] = 1
    /\ planned' = Plan(d)
    /\ UNCHANGED <<raid_type, content, disk_status, operation_mode, stored,
                   written, reading>>

ReadEnd ==
    /\ reading
    /\ reading' = FALSE
    /\ UNCHANGED <<raid_type, content, disk_status, operation_mode, stored,
                   written, planned>>

(* set_device_status(): a failed access, or the operator's "set d status". *)
SetStatusFd(d, status) == \* mutant: the descriptor is stored
    /\ disk_status[d] # status
    /\ status = 1 => Failed(disk_status) = {}
    /\ disk_status' = [disk_status EXCEPT ![d] = -status]
    /\ operation_mode' \in get_operation_mode(raid_type, disk_status')
    /\ UNCHANGED <<raid_type, content, stored, written, reading, planned>>
SetStatus(d, status) ==
    /\ disk_status[d] # status
    /\ status = 1 => /\ Failed(disk_status) = {}
                     /\ planned \in {None, d} \/ "another" \in Env
    /\ disk_status' = [disk_status EXCEPT ![d] = status]
    /\ operation_mode' \in get_operation_mode(raid_type, disk_status')
    /\ UNCHANGED <<raid_type, content, stored, written, reading, planned>>

(* main() again, on devices that all answer: a new coder, without a list. *)
Remount ==
    /\ ~reading
    /\ disk_status' = [d \in Disks |-> 0]
    /\ operation_mode' \in get_operation_mode(raid_type, disk_status')
    /\ planned' = None
    /\ UNCHANGED <<raid_type, content, stored, written, reading>>

(* ./recover <new device> d method, and a remount with the new device. *)
Recover(d, method) ==
    /\ disk_status[d] = 1 /\ ~reading
    /\ content' = [content EXCEPT
                     ![d] = [b \in Block(raid_type) |-> Rebuilt(method, d, b)]]
    /\ disk_status' = [disk_status EXCEPT ![d] = 0]
    /\ operation_mode' \in get_operation_mode(raid_type, disk_status')
    /\ planned' = None
    /\ UNCHANGED <<raid_type, stored, written, reading>>

Next ==
    \/ \E d \in DataDisks, b \in Block(raid_type) :
          Write(d, b) \/ Remove(d, b) \/ ReadBlock(d, b)
    \/ ReadStart \/ ReadEnd \/ Remount
    \/ \E d \in Disks :
          \/ \E status \in {0, 1} : SetStatus(d, status)
          \/ \E method \in Methods[raid_type] : Recover(d, method)

Spec == Init /\ [][Next]_vars

-----------------------------------------------------------------------------
Live == {x \in DataDisks \X Block(raid_type) : stored[x] # NoWrite}

(***************************************************************************)
(* No acknowledged write is lost, whatever disks have failed and been      *)
(* rebuilt before: it is on its disk, and ./recover would rebuild it there *)
(* if the disk failed now.                                                 *)
(***************************************************************************)
AcknowledgedSurvives ==
    \A x \in Live :
       /\ content[x[1]][x[2]] = {stored[x]}
       /\ \A m \in Methods[raid_type] : Rebuilt(m, x[1], x[2]) = {stored[x]}

(***************************************************************************)
(* A rebuilt device is the image of the one it replaces (README: "diff     *)
(* file01.img file07.img"), data or parity.                                *)
(***************************************************************************)
SameImage(d) ==
    \A m \in Methods[raid_type], b \in Block(raid_type) :
        Rebuilt(m, d, b) = content[d][b]
ImageRestored == \A d \in Disks : SameImage(d)

(***************************************************************************)
(* The same but for Q of RDP: encode() does not carry a change of P into   *)
(* Q, from which, with P, Q is rebuilt.                                    *)
(***************************************************************************)
ImageRestoredButRdpQ ==
    \A d \in Disks : SameImage(d) \/ (raid_type = 64 /\ d = Q)

(***************************************************************************)
(* A read caught by a failure gets the right blocks: the list of rows the  *)
(* coder made before still fits the disk that is to be rebuilt now.        *)
(***************************************************************************)
DegradedReadsBack ==
    reading => \A x \in Live :
       disk_status[x[1]] = 1 => Decode(x[1], Plan(x[1]), x[2]) = {stored[x]}
=============================================================================
