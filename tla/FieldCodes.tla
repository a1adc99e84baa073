----------------------------- MODULE FieldCodes ------------------------------
(***************************************************************************)
(* The codes over a Galois field: RAID 6 (RaidType 6), RAID 6 with fixed   *)
(* parity disks (62), Reed-Solomon (13), Reed-Solomon with simple          *)
(* regenerating blocks (130, SRC) and E-MBR (1000): what encode() writes,  *)
(* what decode() computes for a failed disk, and what ./recover writes to  *)
(* a new one.  A block is one element of the field.                        *)
(*                                                                         *)
(* A decode operator gives the set of the results the program may compute: *)
(* one element, or all of them when it uses a value it has not computed.   *)
(***************************************************************************)
EXTENDS GaloisField

CONSTANTS
    Codes,       \* the RaidTypes of the initial states
    Total,       \* by type: disk_total_num
    Data,        \* by type: data_disk_num
    Rows,        \* by type: the blocks of a disk that are looked at
    src_f,       \* SrcF of config.xml
    Values,      \* what may be written to a block
    MaxWrites,   \* bound: writes of a behaviour
    Methods,     \* the rebuild methods of ./recover in use
    Careful      \* TRUE: repairs the code gets wrong are not attempted

Types == {6, 62, 13, 130, 1000}

ASSUME FieldCodesAssumption ==
    /\ Codes \subseteq Types
    /\ \A c \in Codes :
          /\ Data[c] \in 1 .. Total[c] - 1
          /\ Rows[c] \subseteq Nat
          /\ c \in {6, 62} => Data[c] = Total[c] - 2
    /\ src_f \in Nat \ {0}
    /\ Values \subseteq GF
    /\ MaxWrites \in Nat
    /\ Methods \subseteq 0 .. 5
    /\ Careful \in BOOLEAN

VARIABLES
    code,      \* disk_raid_type
    block,     \* what is on each disk at each block number
    status,    \* disk_status: 0 healthy, 1 failed
    live,      \* by block of a file: what was written to it
    writes     \* number of writes so far

vars == <<code, block, status, live, writes>>

n == Total[code]
k == Data[code]
Disks == 0 .. n - 1
failed == {d \in Disks : status[d] = 1}

-----------------------------------------------------------------------------
(* RAID 6: the disks of Q and P in row b. *)
Rotated(t, b) == [code |-> t - 1 - (b % t), par |-> t - 1 - ((b + 1) % t)]
Fixed(t) == [code |-> t - 1, par |-> t - 2]

Others(L) == Disks \ {L.code, L.par}

(* data_disk_coeff: the exponent and the coefficient of disk i in Q. *)
Exponent(L, i) ==
    n - 3 - (i - (IF i > L.code THEN 1 ELSE 0) - (IF i > L.par THEN 1 ELSE 0))
gf_get_coefficient(value) == 2 ^ value
Coeff(L, i) == gf_get_coefficient(Exponent(L, i))

PSum(B, b, S) == PlusOver(S, [i \in S |-> B[i, b]])
QSum(B, L, b, S) == PlusOver(S, [i \in S |-> gf_mul(B[i, b], Coeff(L, i))])

WithParities(B, L, b) ==
    [B EXCEPT ![L.par, b] = PSum(B, b, Others(L)), ![L.code, b] = QSum(B, L, b, Others(L))]

EncodeRaid6(B, d, b, v) == WithParities([B EXCEPT ![d, b] = v], Rotated(n, b), b)
EncodeRaid6noRotate(B, d, b, v) == WithParities([B EXCEPT ![d, b] = v], Fixed(n), b)

(* One failed disk other than Q, or a second one that is Q. *)
FromRow(B, L, b, d) == PSum(B, b, Disks \ {d, L.code})

(* Q alone or with P. *)
CodeFromData(B, L, b) == QSum(B, L, b, Others(L))

(* P and a data disk e: the quotient has the coefficient of the parity     *)
(* disk, not of e; where that disk has none, anything may come out.        *)
ParityWithData(B, L, b, e) ==
    LET S == Others(L) \ {e}
        q == Plus(QSum(B, L, b, S), B[L.code, b])
        x == Exponent(L, L.par)
    IN  {Plus(D, PSum(B, b, S)) :
            D \in IF x \in 0 .. field_power - 1
                  THEN {gf_div(q, gf_get_coefficient(x))} ELSE GF}

(* Q and a data disk e: e from the row, then Q. *)
CodeWithData(B, L, b, e) ==
    QSum([B EXCEPT ![e, b] = PSum(B, b, Disks \ {L.code, e})], L, b, Others(L))

(* A data disk and P. *)
DataWithParity(B, L, b, d) ==
    gf_div(Plus(QSum(B, L, b, Others(L) \ {d}), B[L.code, b]), Coeff(L, d))

(* Two data disks d and e, from P' and Q', the sums without them. *)
index(L, i) == LET j == IF i > L.code THEN i - 1 ELSE i
               IN  IF j > L.par THEN j - 1 ELSE j

Combined(B, L, b, d, e, g1, g2) ==
    LET S == Others(L) \ {d, e}
        P_temp == Plus(PSum(B, b, S), B[L.par, b])
        Q_temp == QSum(B, L, b, S)
    IN  gf_div(Plus(Plus(gf_mul(g2, P_temp), Q_temp), B[L.code, b]), Plus(g1, g2))

(* The program with the two coefficients exchanged. *)
DataWithDataSwapped(B, L, b, d, e) ==
    Combined(B, L, b, d, e, gf_get_coefficient(n - 3 - index(L, e)),
             gf_get_coefficient(n - 3 - index(L, d)))

DataWithData(B, L, b, d, e) ==
    Combined(B, L, b, d, e, gf_get_coefficient(n - 3 - index(L, d)),
             gf_get_coefficient(n - 3 - index(L, e)))

(* One disk has failed, or a second one that matters as little. *)
DecodeOne(B, L, b, d) ==
    {IF d = L.code THEN CodeFromData(B, L, b) ELSE FromRow(B, L, b, d)}

DecodeTwo(B, L, b, d, e) ==
    CASE d = L.par -> ParityWithData(B, L, b, e)
      [] d = L.code -> {CodeWithData(B, L, b, e)}
      [] e = L.par -> {DataWithParity(B, L, b, d)}
      [] OTHER -> {DataWithData(B, L, b, d, e)}

DecodeRaid6(B, F, d, b) ==
    LET L == Rotated(n, b)
        e == CHOOSE x \in F : x # d
    IN  IF F = {d} \/ e = L.code \/ {d, e} = {L.code, L.par}
        THEN DecodeOne(B, L, b, d) ELSE DecodeTwo(B, L, b, d, e)

(* The text of RAID 6: it looks for the parities where encode() does not   *)
(* put them.                                                               *)
DecodeRaid6noRotate(B, F, d, b) == DecodeRaid6(B, F, d, b)

-----------------------------------------------------------------------------
(* Reed-Solomon: generator_matrix, and the decoding matrices by the set of *)
(* the failed disks.  (Matrices are constants: TLC computes them once.)    *)
SmallSets(t, m) == {F \in SUBSET (0 .. t - 1) : Cardinality(F) <= m}

generator_matrix ==
    [c \in Codes \cap {13, 130} |-> coding_matrix(Data[c], Total[c] - Data[c])]

DecodingMatrix ==
    [c \in Codes \cap {13, 130} |->
        [F \in SmallSets(Total[c], Total[c] - Data[c]) |->
            jerasure_make_decoding_matrix(Data[c], Total[c] - Data[c],
                                          generator_matrix[c], F)]]

EncodeRS(B, d, b, v) ==
    LET delta == Plus(B[d, b], v)
    IN  [x \in DOMAIN B |->
            CASE x = <<d, b>> -> v
              [] x[1] >= k /\ x[2] = b ->
                     Plus(B[x], galois_single_multiply(delta, generator_matrix[code][x[1] - k][d]))
              [] OTHER -> B[x]]

(* decoding_matrix has k rows: for a parity disk decode() reads behind it. *)
FromMatrix(B, F, d, row) ==
    LET ids == dm_ids(k, n - k, F)
        dm == DecodingMatrix[code][F]
    IN  IF d >= k THEN GF
        ELSE {PlusOver(0 .. k - 1, [i \in 0 .. k - 1 |->
                  galois_single_multiply(B[ids[i], row], dm[d][i])])}

DecodeRS(B, F, d, b) == FromMatrix(B, F, d, b)

-----------------------------------------------------------------------------
(* SRC.  Block b of the code is block phys(b) of the disk; every (src_f +  *)
(* 1)-th block is the XOR of the src_f blocks above it on the diagonal.    *)
phys(b) == b + (b \div src_f)
src_code_block(d, b) ==
    <<(d - src_f + (b % src_f) + n) % n, (src_f + 1) * ((b \div src_f) + 1) - 1>>

EncodeSrcRS(B, d, b, v) ==
    LET delta == Plus(B[d, phys(b)], v)
        change(i) == IF i = d THEN delta
                     ELSE galois_single_multiply(delta, generator_matrix[code][i - k][d])
        changed == {d} \cup k .. n - 1
        on(x) == {i \in changed : x = <<i, phys(b)>> \/ x = src_code_block(i, b)}
    IN  [x \in DOMAIN B |-> Plus(B[x], PlusOver(on(x), [i \in on(x) |-> change(i)]))]

(* The src_f blocks decode() and the one recover_conventional() adds up. *)
SrcPath(d, b) ==
    LET at[i \in 0 .. src_f] ==
            IF i = 0 THEN <<d, phys(b)>>
            ELSE LET disk == (at[i - 1][1] - 1 + n) % n
                     blk == at[i - 1][2] + 1
                 IN  IF blk % (src_f + 1) = 0
                     THEN <<(disk + src_f + 1) % n, blk - (src_f + 1)>>
                     ELSE <<disk, blk>>
    IN  {at[i] : i \in 1 .. src_f}

DecodeSrcRS(B, F, d, b) ==
    IF \A x \in SrcPath(d, b) : x[1] \notin F
    THEN {PlusOver(SrcPath(d, b), B)}
    ELSE FromMatrix(B, F, d, phys(b))

SrcBlock(B, d, s) ==
    PlusOver({<<(d + j) % n, s - j>> : j \in 1 .. src_f}, B)

-----------------------------------------------------------------------------
(* E-MBR.  A segment has one block for every pair of disks, kept on both:  *)
(* block (d, o) with o >= d is the original of the pair d, o + 1, and      *)
(* (o + 1, d) its duplicate.  The first mbr_m of them hold data.           *)
mbr_m(c) == Data[c] * (Total[c] - 1) - ((Data[c] * (Data[c] - 1)) \div 2)
mbr_c(c) == ((Total[c] * (Total[c] - 1)) \div 2)
            - ((Data[c] * (2 * Total[c] - Data[c] - 1)) \div 2)
mbr_segment_size == (2 * (mbr_m(code) + mbr_c(code))) \div n

Before(g) == g * mbr_segment_size - ((g * (g - 1)) \div 2)

mbr_find_block_id(d, b) ==
    LET o == b % mbr_segment_size
    IN  IF o < d THEN -1 ELSE Before(d) + o - d

mbr_find_dup_block_id(d, b) ==
    LET o == b % mbr_segment_size
    IN  IF o >= d THEN -1 ELSE Before(o) + d - 1 - o

mbr_get_disk_id(id) == Min({g \in 0 .. n : id + 1 <= Before(g + 1)})
mbr_get_block_no(d, id) == id - Before(d) + d
mbr_get_dup_disk_id(id) ==
    LET d == mbr_get_disk_id(id) IN id - Before(d) + 1 + d
mbr_get_dup_block_no(d, id) == d

(* Both places of block id of segment s. *)
Original(s, id) ==
    LET d == mbr_get_disk_id(id)
    IN  <<d, mbr_get_block_no(d, id) + s * mbr_segment_size>>
Duplicate(s, id) ==
    <<mbr_get_dup_disk_id(id),
      mbr_get_dup_block_no(mbr_get_disk_id(id), id) + s * mbr_segment_size>>

mbr_matrix == [c \in Codes \cap {1000} |->
    IF mbr_c(c) = 0 THEN <<>> ELSE coding_matrix(mbr_m(c), mbr_c(c))]

MbrDecodingMatrix ==
    [c \in Codes \cap {1000} |->
        [E \in SmallSets(mbr_m(c) + mbr_c(c), mbr_c(c)) |->
            jerasure_make_decoding_matrix(mbr_m(c), mbr_c(c), mbr_matrix[c], E)]]

EncodeMbr(B, d, b, v) ==
    LET s == b \div mbr_segment_size
        id == mbr_find_block_id(d, b)
        m == mbr_m(code)
        delta == Plus(B[d, b], v)
        coded(i) == Plus(B[Original(s, m + i)],
                         galois_single_multiply(delta, mbr_matrix[code][i][id]))
    IN  [x \in DOMAIN B |->
            IF x \in {<<d, b>>, Duplicate(s, id)} THEN v
            ELSE LET mine == {i \in 0 .. mbr_c(code) - 1 :
                                  x \in {Original(s, m + i), Duplicate(s, m + i)}}
                 IN  IF mine = {} THEN B[x] ELSE coded(CHOOSE i \in mine : TRUE)]

(* The block at (d, b), original or duplicate, and where its other copy is. *)
MbrBlock(d, b) ==
    IF mbr_find_block_id(d, b) # -1 THEN mbr_find_block_id(d, b)
    ELSE mbr_find_dup_block_id(d, b)
MbrCopy(d, b) ==
    LET s == b \div mbr_segment_size
    IN  IF mbr_find_block_id(d, b) # -1 THEN Duplicate(s, MbrBlock(d, b))
        ELSE Original(s, MbrBlock(d, b))

(* The other copy of a block; when it is lost too, the coded blocks.  The  *)
(* matrix has mbr_m rows: for a coded block decode() reads behind it.      *)
DecodeMbr(B, F, d, b) ==
    LET s == b \div mbr_segment_size
        m == mbr_m(code)
        id == MbrBlock(d, b)
        copy == MbrCopy(d, b)
        erased == {u \in 0 .. m + mbr_c(code) - 1 :
                      {Original(s, u)[1], Duplicate(s, u)[1]} \subseteq F}
        ids == dm_ids(m, mbr_c(code), erased)
        kept(u) == IF Original(s, u)[1] \in F THEN Duplicate(s, u) ELSE Original(s, u)
        dm == MbrDecodingMatrix[code][erased]
    IN  IF copy[1] \notin F THEN {B[copy]}
        ELSE IF id >= m THEN GF
        ELSE {PlusOver(0 .. m - 1, [i \in 0 .. m - 1 |->
                  galois_single_multiply(B[kept(ids[i])], dm[id][i])])}

-----------------------------------------------------------------------------
Encode(B, d, b, v) == CASE code = 6 -> EncodeRaid6(B, d, b, v)
                        [] code = 62 -> EncodeRaid6noRotate(B, d, b, v)
                        [] code = 13 -> EncodeRS(B, d, b, v)
                        [] code = 130 -> EncodeSrcRS(B, d, b, v)
                        [] code = 1000 -> EncodeMbr(B, d, b, v)

(* A healthy disk is read. *)
Decode(B, F, d, b) ==
    CASE d \notin F -> {B[d, IF code = 130 THEN phys(b) ELSE b]}
      [] d \in F /\ code = 6 -> DecodeRaid6(B, F, d, b)
      [] d \in F /\ code = 62 -> DecodeRaid6noRotate(B, F, d, b)
      [] d \in F /\ code = 13 -> DecodeRS(B, F, d, b)
      [] d \in F /\ code = 130 -> DecodeSrcRS(B, F, d, b)
      [] d \in F /\ code = 1000 -> DecodeMbr(B, F, d, b)

(* The blocks encode() of each code may give to a file. *)
IsData(d, b) ==
    CASE code = 6 -> d \in Others(Rotated(n, b))
      [] code = 62 -> d < n - 2
      [] code = 13 -> d < k
      [] code = 130 -> d < k /\ src_code_block(d, b)[2] \in Rows[code]
      [] code = 1000 -> mbr_find_block_id(d, b) \in 0 .. mbr_m(code) - 1

DataBlocks == {x \in Disks \X Rows[code] : IsData(x[1], x[2])}

None == -1

Init ==
    /\ code \in Codes
    /\ block = [x \in Disks \X Rows[code] |-> 0]
    /\ status = [d \in Disks |-> 0]
    /\ live = [x \in DataBlocks |-> None]
    /\ writes = 0

(* ncfs_write() with a free or a recycled block. *)
Write(x, v) ==
    /\ failed = {}
    /\ live[x] = None
    /\ writes < MaxWrites
    /\ block' = Encode(block, x[1], x[2], v)
    /\ live' = [live EXCEPT ![x] = v]
    /\ writes' = writes + 1
    /\ UNCHANGED <<code, status>>

Remove(x) ==
    /\ live[x] # None
    /\ live' = [live EXCEPT ![x] = None]
    /\ UNCHANGED <<code, block, status, writes>>

(* A disk is lost; the device that replaces it is blank. *)
Fail(d) ==
    /\ status[d] = 0
    /\ Cardinality(failed) < n - k
    /\ status' = [status EXCEPT ![d] = 1]
    /\ block' = [x \in DOMAIN block |-> IF x[1] = d THEN 0 ELSE block[x]]
    /\ UNCHANGED <<code, live, writes>>

(* What the coder's recover() and recover_conventional() write to block b. *)
Recover6(d, b) == DecodeRaid6(block, failed, d, b)
Recover62(d, b) == DecodeRaid6noRotate(block, failed, d, b)
RecoverRS(d, b) == DecodeRS(block, failed, d, b)
RecoverMbr(d, b) == DecodeMbr(block, failed, d, b)
RecoverSrcRS(d, b) ==
    IF b % (src_f + 1) = src_f THEN {SrcBlock(block, d, b)}
    ELSE DecodeSrcRS(block, failed, d, b - (b \div (src_f + 1)))

(* What is at block b of the new disk d after ./recover.  Methods 2 to 5   *)
(* call functions of the coder that only return 0: it stays blank.         *)
Rebuilt(d, b, method) ==
    CASE method \notin {0, 1} -> {0}
      [] method \in {0, 1} /\ code = 6 -> Recover6(d, b)
      [] method \in {0, 1} /\ code = 62 -> Recover62(d, b)
      [] method \in {0, 1} /\ code = 13 -> RecoverRS(d, b)
      [] method \in {0, 1} /\ code = 130 -> RecoverSrcRS(d, b)
      [] method \in {0, 1} /\ code = 1000 -> RecoverMbr(d, b)

(* RecoveryTool::recover(): the failures it takes on. *)
TakesOn(method) ==
    \/ Cardinality(failed) = 1
    \/ code = 6 /\ Cardinality(failed) = 2
    \/ code = 1000 /\ Cardinality(failed) <= n - k

(* Repairs that leave the disk as it was.  The others: a disk of RAID 6    *)
(* that has P in a row in which a data disk is missing too, a disk of      *)
(* RaidType 62 with rows that decode() lays out differently, a parity disk *)
(* of Reed-Solomon, MBR when both copies of a coded block are lost, and    *)
(* everything with methods 2 to 5.                                         *)
Repairable(d, method) ==
    /\ method \in {0, 1}
    /\ \/ code = 6 /\ \A b \in Rows[code] :
              d = Rotated(n, b).par => failed \subseteq {d, Rotated(n, b).code}
       \/ code = 62 /\ \A b \in Rows[code] : Rotated(n, b) = Fixed(n)
       \/ code = 13 /\ d < k
       \/ code = 130
       \/ code = 1000 /\ \A id \in mbr_m(code) .. mbr_m(code) + mbr_c(code) - 1 :
              ~ {Original(0, id)[1], Duplicate(0, id)[1]} \subseteq failed

(* The program with the status of the open() kept as the disk's. *)
RecoverFd(d, method) ==
    /\ status[d] = 1
    /\ TakesOn(method)
    /\ status' = [status EXCEPT ![d] = 3]
    /\ UNCHANGED <<code, block, live, writes>>

Recover(d, method) ==
    /\ status[d] = 1
    /\ TakesOn(method)
    /\ Careful => Repairable(d, method)
    /\ \E image \in {[b \in Rows[code] |-> Rebuilt(d, b, method)]} :
       LET unsure == {b \in Rows[code] : Cardinality(image[b]) # 1}
       IN  \E any \in [unsure -> GF] :
              block' = [x \in DOMAIN block |->
                            CASE x[1] # d -> block[x]
                              [] x[1] = d /\ x[2] \in unsure -> any[x[2]]
                              [] OTHER -> CHOOSE v \in image[x[2]] : TRUE]
    /\ status' = [status EXCEPT ![d] = 0]
    /\ UNCHANGED <<code, live, writes>>

Next ==
    \/ \E x \in DataBlocks, v \in Values : Write(x, v)
    \/ \E x \in DataBlocks : Remove(x)
    \/ \E d \in Disks : Fail(d)
    \/ \E d \in Disks, method \in Methods : Recover(d, method)

Spec == Init /\ [][Next]_vars

-----------------------------------------------------------------------------
TypeOK ==
    /\ code \in Codes
    /\ block \in [Disks \X Rows[code] -> GF]
    /\ status \in [Disks -> 0 .. 1]
    /\ live \in [DataBlocks -> Values \cup {None}]
    /\ writes \in 0 .. MaxWrites

(* Whatever disks fail further, as many as the code is for, each block of  *)
(* a file decodes to what was written to it.                               *)
AnyFailuresDecode ==
    \A F \in SUBSET Disks :
        failed \subseteq F /\ Cardinality(F) <= n - k =>
            \A x \in DataBlocks :
                live[x] # None => Decode(block, F, x[1], x[2]) = {live[x]}
=============================================================================
