--------------------------- MODULE StripeCodesProofs ---------------------------
(***************************************************************************)
(* MDR-1, EVENODD and RDP keep every acknowledged write through the loss   *)
(* and the replacement of any disk, for every number of disks, strips and  *)
(* writes.                                                                 *)
(***************************************************************************)
EXTENDS StripeCodes, XorTheorems

(* Blocks are written once, and Q of MDR-1 is not rebuilt block by block:  *)
(* its decode() returns zeros.                                             *)
AsSupported ==
    /\ Mdr1Lists
    /\ "recycle" \notin Env
    /\ 61 \in RaidTypes => 1 \notin Methods[61]

-----------------------------------------------------------------------------
(* The strip of block b on disks that hold con, as Cell reads it.          *)
Strip(con, s, b) ==
    [c \in (0 .. s - 1) \X Disks |-> con[c[2]][(b - (b % s)) + c[1]]]

(* P is the XOR of the row ... *)
RowCells(s, b) == {b % s} \X (0 .. K)
RowsHold(con, rt) ==
    \A b \in Block(rt) :
        XorOver(RowCells(strip_size(rt), b), Strip(con, strip_size(rt), b)) = {}

(* ... and the blocks of Q those of their blocks, but not for RDP.         *)
QHolds(con, rt) ==
    rt # 64 => \A b \in Block(rt) :
        con[Q][b] = XorOver(QTerms[rt][b % strip_size(rt)], Strip(con, strip_size(rt), b))

(* The block of every file is on its disk. *)
StoredIsThere == \A x \in Live : content[x[1]][x[2]] = {stored[x]}

(* The invariant. *)
Inv ==
    /\ TypeOK
    /\ RowsHold(content, raid_type) /\ QHolds(content, raid_type)
    /\ StoredIsThere

(* One disk out of service at a time, the one the list of rows is for.     *)
OneFailed ==
    /\ \A d, e \in Disks : disk_status[d] = 1 /\ disk_status[e] = 1 => d = e
    /\ \A d \in Disks : disk_status[d] = 1 => planned \in {None, d}

-----------------------------------------------------------------------------
(* Arithmetic of strips: a number has one quotient and one remainder.      *)
LEMMA Remainder ==
    ASSUME NEW s \in Nat \ {0}, NEW k \in Int, NEW t \in 0 .. s - 1
    PROVE  (s * k + t) % s = t
<1> DEFINE c == s * k + t
           j == c \div s
           r == c % s
<1>1. c \in Int /\ j \in Int /\ r \in 0 .. s - 1 /\ c = s * j + r
  OBVIOUS
<1>2. s * (k - j) = r - t
  BY <1>1
<1>3. CASE k = j
  BY <1>1, <1>3
<1>4. CASE k > j
  <2>1. s * (k - j) >= s
    BY <1>4, <1>1
  <2> QED BY <2>1, <1>1, <1>2
<1>5. CASE k < j
  <2>1. s * (k - j) <= -s
    BY <1>5, <1>1
  <2> QED BY <2>1, <1>1, <1>2
<1> QED BY <1>1, <1>3, <1>4, <1>5

(* The rows of the strip of block b are blocks of that strip.              *)
LEMMA StripRowsOf ==
    ASSUME NEW s \in Nat \ {0}, NEW m \in Nat, NEW b \in 0 .. m * s - 1,
           NEW t \in 0 .. s - 1
    PROVE  /\ b % s \in 0 .. s - 1
           /\ (b - (b % s)) + t \in 0 .. m * s - 1
           /\ ((b - (b % s)) + t) % s = t
           /\ (b - (b % s)) + (b % s) = b
<1> DEFINE k == b \div s
<1>1. b \in Int /\ k \in Int /\ b % s \in 0 .. s - 1 /\ b = s * k + (b % s)
  OBVIOUS
<1>2. k >= 0 /\ k <= m - 1
  <2>1. CASE k <= -1
    <3>1. s * k <= -s
      BY <1>1, <2>1
    <3> QED BY <3>1, <1>1
  <2>2. CASE k >= m
    <3>1. s * k >= m * s
      BY <1>1, <2>2
    <3> QED BY <3>1, <1>1
  <2> QED BY <2>1, <2>2, <1>1
<1>3. s * k >= 0 /\ s * k <= m * s - s
  <2>1. s * (m - 1) = m * s - s
    OBVIOUS
  <2>2. s * k <= s * (m - 1) /\ s * k >= 0
    BY <1>1, <1>2
  <2> QED BY <2>1, <2>2
<1>4. (b - (b % s)) + t = s * k + t
  BY <1>1
<1>5. s * k + t \in 0 .. m * s - 1
  <2> HIDE DEF k
  <2>1. s * k \in Int /\ m * s \in Int
    BY <1>1
  <2> QED BY <1>3, <2>1
<1> QED BY <1>1, <1>4, <1>5, Remainder, SMTT(30)

(* A strip has rows. *)
LEMMA StripSize ==
    ASSUME NEW rt \in RaidTypes
    PROVE  /\ strip_size(rt) \in Nat \ {0}
           /\ rt \in {61, 63, 64}
           /\ Block(rt) = 0 .. Strips * strip_size(rt) - 1
<1>1. K \in Nat /\ K >= 2
  BY DisksAssumption, StripeCodesAssumption
<1>2. CASE rt = 61
  <2>1. K \in {2, 3, 4, 5}
    BY <1>1, <1>2, StripeCodesAssumption
  <2>2. 2 ^ 2 = 4 /\ 2 ^ 3 = 8 /\ 2 ^ 4 = 16 /\ 2 ^ 5 = 32
    OBVIOUS
  <2>3. 2 ^ K \in {4, 8, 16, 32}
    <3>1. CASE K = 2
      BY <3>1, <2>2, Zenon
    <3>2. CASE K = 3
      BY <3>2, <2>2, Zenon
    <3>3. CASE K = 4
      BY <3>3, <2>2, Zenon
    <3>4. CASE K = 5
      BY <3>4, <2>2, Zenon
    <3> QED BY <2>1, <3>1, <3>2, <3>3, <3>4
  <2> QED BY <1>2, <2>3 DEF strip_size, Block
<1>3. CASE rt = 63
  BY <1>1, <1>3 DEF strip_size, Block
<1>4. CASE rt = 64
  BY <1>1, <1>4 DEF strip_size, Block
<1> QED BY <1>2, <1>3, <1>4, StripeCodesAssumption

(* The numbers of the disks. *)
LEMMA DiskNumbers ==
    /\ K \in Nat /\ K >= 2 /\ P = K /\ Q = K + 1
    /\ Disks = 0 .. K + 1 /\ DataDisks = 0 .. K - 1
    /\ P \in Disks /\ Q \in Disks /\ DataDisks \subseteq Disks
BY DisksAssumption, StripeCodesAssumption DEF P, Q, Disks, DataDisks

(* The block numbers of a strip and its cells. *)
LEMMA StripBlocks ==
    ASSUME NEW rt \in RaidTypes, NEW b \in Block(rt)
    PROVE  /\ b % strip_size(rt) \in 0 .. strip_size(rt) - 1
           /\ (b - (b % strip_size(rt))) + (b % strip_size(rt)) = b
           /\ \A t \in 0 .. strip_size(rt) - 1 :
                 /\ (b - (b % strip_size(rt))) + t \in Block(rt)
                 /\ ((b - (b % strip_size(rt))) + t) % strip_size(rt) = t
                 /\ ((b - (b % strip_size(rt))) + t)
                      - (((b - (b % strip_size(rt))) + t) % strip_size(rt))
                    = b - (b % strip_size(rt))
<1> DEFINE s == strip_size(rt)
<1>1. s \in Nat \ {0} /\ Strips \in Nat /\ Block(rt) = 0 .. Strips * s - 1
  BY StripSize, StripeCodesAssumption
<1> HIDE DEF s
<1>2. b \in 0 .. Strips * s - 1
  BY <1>1
<1>3. 0 \in 0 .. s - 1
  BY <1>1
<1>4. ASSUME NEW t \in 0 .. s - 1
      PROVE  /\ b % s \in 0 .. s - 1
             /\ (b - (b % s)) + t \in 0 .. Strips * s - 1
             /\ ((b - (b % s)) + t) % s = t
             /\ (b - (b % s)) + (b % s) = b
  BY <1>1, <1>2, StripRowsOf
<1>5. ASSUME NEW t \in 0 .. s - 1
      PROVE  ((b - (b % s)) + t) - (((b - (b % s)) + t) % s) = b - (b % s)
  <2>1. b % s \in Int /\ b \in Int
    BY <1>4, <1>2
  <2> QED BY <1>4, <2>1
<1> QED BY <1>1, <1>3, <1>4, <1>5 DEF s

(* Finitely many cells, all of one strip. *)
LEMMA FiniteCells ==
    ASSUME NEW s \in Nat, NEW S \in SUBSET ((0 .. s) \X (0 .. K + 1))
    PROVE  IsFiniteSet(S)
<1>1. IsFiniteSet(0 .. s) /\ IsFiniteSet(0 .. K + 1)
  BY FS_Interval, DiskNumbers
<1> QED BY <1>1, FS_Product, FS_Subset

(* What a block of Q is made of: blocks of its strip, of the data disks    *)
(* and P, and of the data disks only for EVENODD.                          *)
LEMMA QTermsType ==
    ASSUME NEW rt \in RaidTypes, NEW q \in 0 .. strip_size(rt) - 1
    PROVE  /\ QTerms[rt][q] \subseteq (0 .. strip_size(rt) - 1) \X (0 .. K)
           /\ rt = 63 => QTerms[rt][q] \subseteq (0 .. strip_size(rt) - 1) \X DataDisks
           /\ IsFiniteSet(QTerms[rt][q])
<1> DEFINE s == strip_size(rt)
<1>1. s \in Nat \ {0} /\ rt \in {61, 63, 64}
  BY StripSize
<1>2. ASSUME rt = 61
      PROVE  QTerms[rt][q] \subseteq (0 .. s - 1) \X (0 .. K)
  <2>1. s = 2 ^ K
    BY <1>2 DEF strip_size
  <2>2. QTerms[rt][q] = mdr_I_repair_qDisk_blocks_id(q)
    BY <1>2 DEF QTerms
  <2> QED BY <2>1, <2>2, <1>2 DEF mdr_I_repair_qDisk_blocks_id
<1>3. ASSUME rt = 63
      PROVE  /\ QTerms[rt][q] \subseteq (0 .. s - 1) \X (0 .. K)
             /\ QTerms[rt][q] \subseteq (0 .. s - 1) \X DataDisks
  <2>1. s = K - 1
    BY <1>3 DEF strip_size
  <2>2. QTerms[rt][q] = evenodd_related_elems(q)
    BY <1>3 DEF QTerms
  <2>3. K - 2 = s - 1
    BY <2>1, DiskNumbers
  <2>4. DataDisks \subseteq 0 .. K
    BY DiskNumbers
  <2> QED BY <2>2, <2>3, <2>4 DEF evenodd_related_elems
<1>4. ASSUME rt = 64
      PROVE  QTerms[rt][q] \subseteq (0 .. s - 1) \X (0 .. K)
  <2>1. s = K /\ K \in Nat /\ P = K
    BY <1>4, DiskNumbers DEF strip_size
  <2>2. QTerms[rt][q] = rdp_related_elems(q)
    BY <1>4 DEF QTerms
  <2>3. \A t \in 0 .. K - 1 : (q - t) % (K + 1) \in 0 .. K
    BY <2>1
  <2> QED BY <2>1, <2>2, <2>3, <1>4 DEF rdp_related_elems
<1>5. QTerms[rt][q] \subseteq (0 .. s - 1) \X (0 .. K)
  BY <1>1, <1>2, <1>3, <1>4, DiskNumbers
<1>6. IsFiniteSet(QTerms[rt][q])
  <2>1. (0 .. s - 1) \X (0 .. K) \subseteq (0 .. s) \X (0 .. K + 1)
    BY <1>1, DiskNumbers
  <2> QED BY <1>1, <1>5, <2>1, FiniteCells
<1>7. rt = 63 => QTerms[rt][q] \subseteq (0 .. s - 1) \X DataDisks
  BY <1>3
<1> QED BY <1>5, <1>6, <1>7

-----------------------------------------------------------------------------
(***************************************************************************)
(* encode() of block b of disk d, never written before: con becomes new.   *)
(***************************************************************************)
Encoded(con, new, rt, d, b, w, qs) ==
    /\ con[d][b] = {}
    /\ \A e \in 0 .. K, c \in Block(rt) :
          new[e][c] = IF e = d /\ c = b THEN {w}
                      ELSE IF e = P /\ c = b THEN Xor(con[P][b], {w}) ELSE con[e][c]
    /\ \A c \in Block(rt) :
          new[Q][c] = IF /\ c - (c % strip_size(rt)) = b - (b % strip_size(rt))
                         /\ c % strip_size(rt) \in qs
                      THEN Xor(con[Q][c], {w}) ELSE con[Q][c]

(* Cell x of the strip of block c is one of the two that encode() changes. *)
Hit(rt, d, b, c, x) ==
    /\ c - (c % strip_size(rt)) = b - (b % strip_size(rt))
    /\ x \in {<<b % strip_size(rt), d>>, <<b % strip_size(rt), P>>}

(* In its own strip the two blocks change by the write, others not at all. *)
StripsEncoded(con, new, rt, d, b, w) ==
    \A c \in Block(rt), x \in (0 .. strip_size(rt) - 1) \X (0 .. K) :
        /\ Hit(rt, d, b, c, x) => Strip(new, strip_size(rt), c)[x]
                                   = Xor(Strip(con, strip_size(rt), c)[x], {w})
        /\ ~Hit(rt, d, b, c, x) => Strip(new, strip_size(rt), c)[x]
                                    = Strip(con, strip_size(rt), c)[x]

(* The strip after a write. *)
LEMMA EncodedStrip ==
    ASSUME NEW rt \in RaidTypes, NEW d \in DataDisks, NEW b \in Block(rt),
           NEW con, NEW new, NEW w, NEW qs,
           Encoded(con, new, rt, d, b, w, qs)
    PROVE  StripsEncoded(con, new, rt, d, b, w)
<1> SUFFICES ASSUME NEW c \in Block(rt),
                    NEW x \in (0 .. strip_size(rt) - 1) \X (0 .. K)
             PROVE  /\ Hit(rt, d, b, c, x) => Strip(new, strip_size(rt), c)[x]
                                               = Xor(Strip(con, strip_size(rt), c)[x], {w})
                    /\ ~Hit(rt, d, b, c, x) => Strip(new, strip_size(rt), c)[x]
                                                = Strip(con, strip_size(rt), c)[x]
  BY DEF StripsEncoded
<1> DEFINE s == strip_size(rt)
           first == c - (c % s)
<1>1. PICK t \in 0 .. s - 1, e \in 0 .. K : x = <<t, e>>
  OBVIOUS
<1>2. e \in Disks /\ d \in 0 .. K /\ d # P /\ P \in 0 .. K
  BY DiskNumbers
<1>3. /\ Strip(new, s, c)[x] = new[e][first + t]
      /\ Strip(con, s, c)[x] = con[e][first + t]
  BY <1>1, <1>2 DEF Strip
<1>4. /\ first + t \in Block(rt) /\ (first + t) % s = t
      /\ (first + t) - ((first + t) % s) = first
  BY StripBlocks
<1>5. (b - (b % s)) + (b % s) = b
  BY StripBlocks
<1>6. first + t = b <=> first = b - (b % s) /\ t = b % s
  BY <1>4, <1>5
<1>7. Xor({}, {w}) = {w}
  BY XorAlgebra
<1>8. con[d][b] = {} /\ new[e][first + t]
        = IF e = d /\ first + t = b THEN {w}
          ELSE IF e = P /\ first + t = b THEN Xor(con[P][b], {w}) ELSE con[e][first + t]
  BY <1>4 DEF Encoded
<1> HIDE DEF s, first
<1>9. new[e][first + t]
        = IF first + t = b /\ e \in {d, P} THEN Xor(con[e][first + t], {w})
          ELSE con[e][first + t]
  BY <1>8, <1>7
<1>10. x \in {<<b % s, d>>, <<b % s, P>>} <=> t = b % s /\ e \in {d, P}
  BY <1>1
<1> QED BY <1>3, <1>6, <1>9, <1>10 DEF s, first, Hit

(* Rows stay rows. *)
LEMMA EncodeKeepsRows ==
    ASSUME NEW rt \in RaidTypes, NEW d \in DataDisks, NEW b \in Block(rt),
           NEW con, NEW new, NEW w, NEW qs,
           Encoded(con, new, rt, d, b, w, qs), RowsHold(con, rt)
    PROVE  RowsHold(new, rt)
<1> DEFINE s == strip_size(rt)
<1>0. s \in Nat \ {0}
  BY StripSize
<1>e. StripsEncoded(con, new, rt, d, b, w)
  BY EncodedStrip
<1> SUFFICES ASSUME NEW c \in Block(rt)
             PROVE  XorOver(RowCells(s, c), Strip(new, s, c)) = {}
  BY DEF RowsHold
<1> DEFINE S == RowCells(s, c)
           x == <<b % s, d>>
           y == <<b % s, P>>
<1>1. S \subseteq (0 .. s - 1) \X (0 .. K)
  BY StripBlocks DEF RowCells
<1>2. IsFiniteSet(S)
  <2>1. (0 .. s - 1) \X (0 .. K) \subseteq (0 .. s) \X (0 .. K + 1)
    BY <1>0, DiskNumbers
  <2> QED BY <1>0, <1>1, <2>1, FiniteCells
<1>3. XorOver(S, Strip(con, s, c)) = {}
  BY DEF RowsHold
<1>4. ASSUME NEW i \in S
      PROVE  Strip(new, s, c)[i]
               = IF c - (c % s) = b - (b % s) /\ i \in {x, y}
                 THEN Xor(Strip(con, s, c)[i], {w}) ELSE Strip(con, s, c)[i]
  <2>1. i \in (0 .. s - 1) \X (0 .. K)
    BY <1>1
  <2>2. /\ Hit(rt, d, b, c, i) => Strip(new, s, c)[i] = Xor(Strip(con, s, c)[i], {w})
        /\ ~Hit(rt, d, b, c, i) => Strip(new, s, c)[i] = Strip(con, s, c)[i]
    BY <2>1, <1>e DEF StripsEncoded
  <2> QED BY <2>2 DEF Hit
<1> SUFFICES XorOver(S, Strip(new, s, c)) = {}
  OBVIOUS
<1>5. CASE c - (c % s) = b - (b % s) /\ c % s = b % s
  <2>1. x \in S /\ y \in S /\ x # y
    BY <1>5, DiskNumbers DEF RowCells
  <2> HIDE DEF S, x, y, s
  <2>2. /\ Strip(new, s, c)[x] = Xor(Strip(con, s, c)[x], {w})
        /\ Strip(new, s, c)[y] = Xor(Strip(con, s, c)[y], {w})
        /\ \A i \in S \ {x, y} : Strip(con, s, c)[i] = Strip(new, s, c)[i]
    BY <1>4, <1>5, <2>1
  <2>3. XorOver(S, Strip(new, s, c)) = XorOver(S, Strip(con, s, c))
    BY <1>2, <2>1, <2>2, XorTwice, SMTT(30)
  <2> QED BY <1>3, <2>3
<1>6. CASE ~(c - (c % s) = b - (b % s) /\ c % s = b % s)
  <2>1. c % s # b % s => x \notin S /\ y \notin S
    BY DEF RowCells
  <2> HIDE DEF S, x, y, s
  <2> QED BY <1>3, <1>4, <1>6, <2>1, XorSame
<1> QED BY <1>5, <1>6

(* Q stays Q: its blocks that change are those that have one of the two.   *)
LEMMA EncodeKeepsQ ==
    ASSUME NEW rt \in RaidTypes, NEW d \in DataDisks, NEW b \in Block(rt),
           NEW con, NEW new, NEW w, NEW qs,
           Encoded(con, new, rt, d, b, w, qs), QHolds(con, rt),
           rt # 64,
           \A q \in 0 .. strip_size(rt) - 1 :
              q \in qs <=> ((<<b % strip_size(rt), d>> \in QTerms[rt][q])
                              # (<<b % strip_size(rt), P>> \in QTerms[rt][q]))
    PROVE  QHolds(new, rt)
<1> DEFINE s == strip_size(rt)
<1>0. s \in Nat \ {0}
  BY StripSize
<1>e. StripsEncoded(con, new, rt, d, b, w)
  BY EncodedStrip
<1> SUFFICES ASSUME NEW c \in Block(rt)
             PROVE  new[Q][c] = XorOver(QTerms[rt][c % s], Strip(new, s, c))
  BY DEF QHolds
<1> DEFINE S == QTerms[rt][c % s]
           x == <<b % s, d>>
           y == <<b % s, P>>
<1>q. c % s \in 0 .. s - 1
  BY StripBlocks
<1>1. S \subseteq (0 .. s - 1) \X (0 .. K) /\ IsFiniteSet(S)
  BY <1>q, QTermsType
<1>3. con[Q][c] = XorOver(S, Strip(con, s, c))
  BY DEF QHolds
<1>4. ASSUME NEW i \in S
      PROVE  Strip(new, s, c)[i]
               = IF c - (c % s) = b - (b % s) /\ i \in {x, y}
                 THEN Xor(Strip(con, s, c)[i], {w}) ELSE Strip(con, s, c)[i]
  <2>1. i \in (0 .. s - 1) \X (0 .. K)
    BY <1>1
  <2>2. /\ Hit(rt, d, b, c, i) => Strip(new, s, c)[i] = Xor(Strip(con, s, c)[i], {w})
        /\ ~Hit(rt, d, b, c, i) => Strip(new, s, c)[i] = Strip(con, s, c)[i]
    BY <2>1, <1>e DEF StripsEncoded
  <2> QED BY <2>2 DEF Hit
<1>5. new[Q][c] = IF c - (c % s) = b - (b % s) /\ c % s \in qs
                  THEN Xor(con[Q][c], {w}) ELSE con[Q][c]
  BY DEF Encoded
<1>6. c % s \in qs <=> ((x \in S) # (y \in S))
  BY <1>q
<1>7. x # y
  BY DiskNumbers
<1> SUFFICES new[Q][c] = XorOver(S, Strip(new, s, c))
  OBVIOUS
<1> HIDE DEF S, x, y, s
<1>8. CASE c - (c % s) # b - (b % s)
  BY <1>3, <1>4, <1>5, <1>8, XorSame
<1>9. CASE c - (c % s) = b - (b % s)
  <2>1. CASE x \notin S /\ y \notin S
    BY <1>3, <1>4, <1>5, <1>6, <1>9, <2>1, XorSame
  <2>2. CASE x \in S /\ y \in S
    <3>1. new[Q][c] = con[Q][c]
      BY <1>5, <1>6, <2>2
    <3>2. XorOver(S, Strip(new, s, c)) = XorOver(S, Strip(con, s, c))
      BY <1>1, <1>4, <1>7, <1>9, <2>2, XorTwice
    <3> QED BY <1>3, <3>1, <3>2
  <2>3. ASSUME NEW z \in S, S \cap {x, y} = {z}
        PROVE  new[Q][c] = XorOver(S, Strip(new, s, c))
    <3>1. \A i \in S \ {z} : Strip(con, s, c)[i] = Strip(new, s, c)[i]
      BY <1>4, <2>3
    <3>2. Strip(new, s, c)[z] = Xor(Strip(con, s, c)[z], {w})
      BY <1>4, <1>9, <2>3
    <3>3. XorOver(S, Strip(new, s, c))
            = Xor(Xor(con[Q][c], Strip(con, s, c)[z]), Xor(Strip(con, s, c)[z], {w}))
      BY <1>1, <1>3, <3>1, <3>2, XorChange
    <3>4. new[Q][c] = Xor(con[Q][c], {w})
      BY <1>5, <1>6, <1>9, <2>3, <1>7
    <3>5. \A p, q, r : Xor(Xor(p, q), Xor(q, r)) = Xor(p, r)
      BY ZenonT(30) DEF Xor
    <3> QED BY <3>3, <3>4, <3>5
  <2>4. CASE x \in S /\ y \notin S
    BY <2>3, <2>4, <1>7
  <2>5. CASE x \notin S /\ y \in S
    BY <2>3, <2>5, <1>7
  <2> QED BY <2>1, <2>2, <2>4, <2>5
<1> QED BY <1>8, <1>9

(* The encode() of the model is such a step. *)
LEMMA XoredInEncodes ==
    ASSUME TypeOK, NEW d \in DataDisks, NEW b \in Block(raid_type),
           NEW w \in Writes, NEW qs
    PROVE  /\ content[d][b] = {} =>
                 Encoded(content, XoredIn(d, b, qs, w), raid_type, d, b, w, qs)
           /\ XoredIn(d, b, qs, w) \in [Disks -> [Block(raid_type) -> SUBSET Writes]]
<1> DEFINE new == XoredIn(d, b, qs, w)
           s == strip_size(raid_type)
           B == Block(raid_type)
<1>1. content \in [Disks -> [B -> SUBSET Writes]]
  BY DEF TypeOK
<1>2. /\ d \in Disks /\ P \in Disks /\ Q \in Disks /\ d # P /\ d # Q /\ P # Q
      /\ 0 .. K \subseteq Disks /\ Q \notin 0 .. K
  BY DiskNumbers
<1>3. /\ new \in [Disks -> [B -> SUBSET Writes]]
      /\ \A e \in Disks \ {Q}, c \in B :
            new[e][c] = IF e = d /\ c = b THEN {w}
                        ELSE IF e = P /\ c = b THEN Xor(content[P][b], {w})
                        ELSE content[e][c]
      /\ \A c \in B :
            new[Q][c] = IF base(c) = base(b) /\ row(c) \in qs
                        THEN Xor(content[Q][c], {w}) ELSE content[Q][c]
  <2> DEFINE data == [content[d] EXCEPT ![b] = {w}]
             par == [content[P] EXCEPT ![b] = Xor(@, {w})]
             qd == [c \in B |-> IF base(c) = base(b) /\ row(c) \in qs
                                THEN Xor(content[Q][c], {w}) ELSE content[Q][c]]
  <2>1. DOMAIN content[Q] = B
    BY <1>1, <1>2
  <2>2. new = [content EXCEPT ![d] = data, ![P] = par, ![Q] = qd]
    BY <1>1, <1>2, <2>1, Zenon DEF XoredIn
  <2>3. \A x \in SUBSET Writes : Xor(x, {w}) \in SUBSET Writes
    BY DEF Xor
  <2>4. data \in [B -> SUBSET Writes] /\ par \in [B -> SUBSET Writes]
        /\ qd \in [B -> SUBSET Writes]
    BY <1>1, <1>2, <2>3
  <2>5. /\ \A c \in B : data[c] = IF c = b THEN {w} ELSE content[d][c]
        /\ \A c \in B : par[c] = IF c = b THEN Xor(content[P][b], {w}) ELSE content[P][c]
        /\ \A c \in B : qd[c] = IF base(c) = base(b) /\ row(c) \in qs
                                 THEN Xor(content[Q][c], {w}) ELSE content[Q][c]
    BY <1>1, <1>2
  <2> HIDE DEF data, par, qd, new
  <2>6. new \in [Disks -> [B -> SUBSET Writes]]
    BY <1>1, <1>2, <2>2, <2>4
  <2>7. new[d] = data /\ new[P] = par /\ new[Q] = qd
        /\ \A e \in Disks \ {d, P, Q} : new[e] = content[e]
    BY <1>1, <1>2, <2>2
  <2>8. ASSUME NEW e \in Disks \ {Q}, NEW c \in B
        PROVE  new[e][c] = IF e = d /\ c = b THEN {w}
                           ELSE IF e = P /\ c = b THEN Xor(content[P][b], {w})
                           ELSE content[e][c]
    BY <1>2, <2>5, <2>7, <2>8
  <2> QED BY <2>5, <2>6, <2>7, <2>8
<1> QED BY <1>2, <1>3 DEF Encoded, base, row

-----------------------------------------------------------------------------
(***************************************************************************)
(* What is rebuilt is what was there.                                      *)
(***************************************************************************)

(* The cells of a strip, and the strips of the blocks of a strip. *)
LEMMA CellsOfStrip ==
    ASSUME raid_type \in RaidTypes, NEW b \in Block(raid_type)
    PROVE  /\ StripRows = 0 .. strip_size(raid_type) - 1
           /\ row(b) \in StripRows /\ Cell(<<row(b), P>>, b) = content[P][b]
           /\ \A d \in Disks : Cell(<<row(b), d>>, b) = content[d][b]
           /\ \A c \in StripRows \X Disks :
                 Strip(content, strip_size(raid_type), b)[c] = Cell(c, b)
           /\ \A t \in StripRows :
                 /\ base(b) + t \in Block(raid_type)
                 /\ row(base(b) + t) = t /\ base(base(b) + t) = base(b)
                 /\ Strip(content, strip_size(raid_type), base(b) + t)
                      = Strip(content, strip_size(raid_type), b)
                 /\ \A d \in Disks : Cell(<<t, d>>, b) = content[d][base(b) + t]
<1> DEFINE s == strip_size(raid_type)
<1>1. StripRows = 0 .. s - 1
  BY DEF StripRows
<1>2. row(b) \in StripRows /\ base(b) + row(b) = b
  BY <1>1, StripBlocks DEF row, base
<1>3. \A t \in StripRows, d \in Disks : Cell(<<t, d>>, b) = content[d][base(b) + t]
  BY DEF Cell
<1>4. \A c \in StripRows \X Disks : Strip(content, s, b)[c] = Cell(c, b)
  BY <1>1 DEF Strip, Cell, base
<1>5. ASSUME NEW t \in StripRows
      PROVE  /\ base(b) + t \in Block(raid_type)
             /\ row(base(b) + t) = t /\ base(base(b) + t) = base(b)
  BY <1>1, StripBlocks DEF row, base
<1>6. ASSUME NEW t \in StripRows
      PROVE  Strip(content, s, base(b) + t) = Strip(content, s, b)
  <2>1. base(base(b) + t) = base(b)
    BY <1>5
  <2> QED BY <2>1 DEF Strip, base
<1>7. P \in Disks
  BY DiskNumbers
<1> QED BY <1>1, <1>2, <1>3, <1>4, <1>5, <1>6, <1>7

(* A block of a row from the others of its row. *)
LEMMA RowRebuilt ==
    ASSUME raid_type \in RaidTypes, RowsHold(content, raid_type),
           NEW b \in Block(raid_type), NEW t \in StripRows, NEW d \in 0 .. K,
           NEW value, \A c \in {t} \X ((0 .. K) \ {d}) : value[c] = Cell(c, b)
    PROVE  XorOver({t} \X ((0 .. K) \ {d}), value) = Cell(<<t, d>>, b)
<1> DEFINE s == strip_size(raid_type)
           S == {t} \X (0 .. K)
           x == <<t, d>>
           strip == Strip(content, s, b)
<1>1. 0 .. K \subseteq Disks
  BY DiskNumbers
<1>2. XorOver(S, strip) = {}
  <2>1. /\ base(b) + t \in Block(raid_type) /\ row(base(b) + t) = t
        /\ Strip(content, s, base(b) + t) = strip
    BY CellsOfStrip
  <2>2. RowCells(s, base(b) + t) = S
    BY <2>1 DEF RowCells, row
  <2> QED BY <2>1, <2>2 DEF RowsHold
<1>3. IsFiniteSet(S) /\ x \in S
  <2>1. s \in Nat \ {0} /\ StripRows = 0 .. s - 1
    BY StripSize, CellsOfStrip
  <2>2. S \subseteq (0 .. s) \X (0 .. K + 1)
    BY <2>1, DiskNumbers
  <2> QED BY <2>1, <2>2, FiniteCells
<1>4. S \ {x} = {t} \X ((0 .. K) \ {d})
  OBVIOUS
<1>5. \A c \in S : strip[c] = Cell(c, b)
  BY <1>1, CellsOfStrip, ZenonT(60)
<1> HIDE DEF S, x, strip
<1>6. XorOver(S \ {x}, strip) = Xor({}, strip[x])
  BY <1>2, <1>3, XorRemove
<1>7. XorOver(S \ {x}, strip) = Cell(x, b)
  BY <1>3, <1>5, <1>6, XorAlgebra
<1>8. \A c \in S \ {x} : value[c] = strip[c]
  BY <1>4, <1>5
<1>9. XorOver(S \ {x}, value) = XorOver(S \ {x}, strip)
  BY <1>8, XorSame
<1> QED BY <1>4, <1>7, <1>9 DEF x

(* A block of Q from its blocks. *)
LEMMA QRebuilt ==
    ASSUME raid_type \in RaidTypes, QHolds(content, raid_type), raid_type # 64,
           NEW b \in Block(raid_type),
           NEW value, \A c \in QTerms[raid_type][row(b)] : value[c] = Cell(c, b)
    PROVE  XorOver(QTerms[raid_type][row(b)], value) = content[Q][b]
<1> DEFINE s == strip_size(raid_type)
           S == QTerms[raid_type][row(b)]
<1>1. content[Q][b] = XorOver(S, Strip(content, s, b))
  BY DEF QHolds, row
<1>2. S \subseteq StripRows \X Disks
  <2>1. row(b) \in 0 .. s - 1 /\ StripRows = 0 .. s - 1
    BY CellsOfStrip
  <2>2. S \subseteq StripRows \X (0 .. K)
    BY <2>1, QTermsType
  <2> QED BY <2>2, DiskNumbers
<1>3. \A c \in S : value[c] = Strip(content, s, b)[c]
  BY <1>2, CellsOfStrip, ZenonT(60)
<1> QED BY <1>1, <1>3, XorSame

(* MDR-1: the lists are of rows of a strip. *)
LEMMA ListRows ==
    ASSUME Mdr1Lists, raid_type \in RaidTypes, raid_type = 61, NEW d \in 0 .. K
    PROVE  /\ stripeIndex[d] \subseteq StripRows
           /\ \A t \in StripRows \ stripeIndex[d] : QBlockFor[d][t] \in stripeIndex[d]
<1>1. StripRows = 0 .. 2 ^ K - 1
  BY DEF StripRows, strip_size
<1> QED BY <1>1, Zenon DEF Mdr1Lists

(* MDR-1: a row that the list leaves out, from a block of Q and the rows   *)
(* of the list; value is what is known of the cells of the list.           *)
LEMMA OutsideRebuilt ==
    ASSUME Mdr1Lists, raid_type \in RaidTypes, raid_type = 61,
           QHolds(content, raid_type),
           NEW b \in Block(raid_type), NEW d \in 0 .. K, row(b) \notin stripeIndex[d]
    PROVE  LET q == QBlockFor[d][row(b)]
               cells == {c \in stripeIndex[d] \X (0 .. K) :
                             c[1] \in mdr_I_encoding_matrixB[q][c[2]]}
           IN  /\ q \in StripRows /\ <<q, Q>> \notin cells
               /\ cells \subseteq StripRows \X (0 .. K) /\ IsFiniteSet(cells)
               /\ \A value : (\A c \in cells \cup {<<q, Q>>} : value[c] = Cell(c, b))
                     => XorOver(cells \cup {<<q, Q>>}, value) = content[d][b]
<1> DEFINE s == strip_size(raid_type)
           S == stripeIndex[d]
           t == row(b)
           q == QBlockFor[d][t]
           cells == {c \in S \X (0 .. K) : c[1] \in mdr_I_encoding_matrixB[q][c[2]]}
           x == <<t, d>>
           y == <<q, Q>>
           strip == Strip(content, s, b)
<1>1. s = 2 ^ K /\ StripRows = 0 .. s - 1 /\ s \in Nat \ {0}
  <2>1. s = 2 ^ K
    BY DEF strip_size
  <2>2. s \in Nat \ {0} /\ StripRows = 0 .. s - 1
    BY StripSize, CellsOfStrip, ZenonT(60)
  <2> QED BY <2>1, <2>2
<1>2. t \in StripRows /\ t \notin S
  BY CellsOfStrip
<1>3. S \subseteq StripRows
  BY <1>1 DEF Mdr1Lists
<1>4. /\ q \in S
      /\ \A j \in 0 .. K : mdr_I_encoding_matrixB[q][j] \ S = IF j = d THEN {t} ELSE {}
  BY <1>1, <1>2 DEF Mdr1Lists
<1>5. q \in StripRows /\ y \notin cells /\ 0 .. K \subseteq Disks /\ Q \in Disks
  BY <1>3, <1>4, DiskNumbers
<1>6. QTerms[raid_type][q] = cells \cup {x}
  <2>1. QTerms[raid_type][q]
          = {c \in StripRows \X (0 .. K) : c[1] \in mdr_I_encoding_matrixB[q][c[2]]}
    BY <1>1, <1>5 DEF QTerms, mdr_I_repair_qDisk_blocks_id
  <2>2. \A u \in StripRows, j \in 0 .. K :
           u \in mdr_I_encoding_matrixB[q][j]
             <=> (u \in S /\ u \in mdr_I_encoding_matrixB[q][j]) \/ (u = t /\ j = d)
    BY <1>2, <1>4
  <2> HIDE DEF S, t, q
  <2>3. \A u \in StripRows, j \in 0 .. K :
           <<u, j>> \in QTerms[raid_type][q] <=> <<u, j>> \in cells \cup {x}
    BY <2>1, <2>2
  <2>4. /\ QTerms[raid_type][q] \subseteq StripRows \X (0 .. K)
        /\ cells \cup {x} \subseteq StripRows \X (0 .. K)
    BY <1>2, <1>3, <2>1
  <2> HIDE DEF cells, x
  <2> QED BY <2>3, <2>4
<1>7. x \notin cells
  BY <1>2
<1>8. cells \subseteq StripRows \X (0 .. K)
  BY <1>3
<1>9. IsFiniteSet(cells) /\ IsFiniteSet(cells \cup {x}) /\ IsFiniteSet(cells \cup {y})
  <2>1. cells \subseteq (0 .. s) \X (0 .. K + 1)
    BY <1>1, <1>8, DiskNumbers
  <2>2. IsFiniteSet(cells)
    BY <1>1, <2>1, FiniteCells
  <2> HIDE DEF cells
  <2> QED BY <2>2, FS_AddElement
<1>10. XorOver(cells \cup {x}, strip) = content[Q][base(b) + q]
  <2>1. /\ base(b) + q \in Block(raid_type) /\ row(base(b) + q) = q
        /\ Strip(content, s, base(b) + q) = strip
    <3>1. q \in StripRows
      BY <1>5
    <3> HIDE DEF q
    <3> QED BY <3>1, CellsOfStrip
  <2>2. content[Q][base(b) + q] = XorOver(QTerms[raid_type][q], strip)
    BY <2>1 DEF QHolds, row
  <2> HIDE DEF cells, x
  <2> QED BY <1>6, <2>2
<1>11. /\ strip[x] = content[d][b]
       /\ strip[y] = content[Q][base(b) + q]
       /\ Cell(y, b) = content[Q][base(b) + q]
  <2>1. d \in Disks
    BY <1>5
  <2>2. x \in StripRows \X Disks /\ y \in StripRows \X Disks
    BY <1>2, <1>5, <2>1
  <2>3. strip[x] = Cell(x, b) /\ strip[y] = Cell(y, b)
    BY <2>2, CellsOfStrip
  <2>4. Cell(x, b) = content[d][b]
    BY <2>1, CellsOfStrip
  <2>5. Cell(y, b) = content[Q][base(b) + q]
    BY <1>5, CellsOfStrip, ZenonT(60)
  <2> QED BY <2>3, <2>4, <2>5
<1>12. \A c \in cells \cup {y} : strip[c] = Cell(c, b)
  <2>1. y \in StripRows \X Disks
    BY <1>5
  <2>2. cells \cup {y} \subseteq StripRows \X Disks
    BY <1>5, <1>8, <2>1
  <2> HIDE DEF cells, y, strip
  <2> QED BY <2>2, CellsOfStrip DEF strip
<1> HIDE DEF S, t, q, cells, x, y, strip, s
<1>13. XorOver(cells, strip) = Xor(content[Q][base(b) + q], content[d][b])
  <2>1. (cells \cup {x}) \ {x} = cells
    BY <1>7
  <2>2. XorOver((cells \cup {x}) \ {x}, strip) = Xor(XorOver(cells \cup {x}, strip), strip[x])
    BY <1>9, XorRemove
  <2> QED BY <1>10, <1>11, <2>1, <2>2
<1>14. XorOver(cells, strip) = Xor(XorOver(cells \cup {y}, strip), content[Q][base(b) + q])
  <2>1. (cells \cup {y}) \ {y} = cells
    BY <1>5
  <2> QED BY <1>9, <1>11, <2>1, XorRemove
<1>15. XorOver(cells \cup {y}, strip) = content[d][b]
  <2>1. \A u, v, w : Xor(u, v) = Xor(w, u) => w = v
    BY Zenon DEF Xor
  <2> QED BY <1>13, <1>14, <2>1
<1>16. ASSUME NEW value, \A c \in cells \cup {y} : value[c] = Cell(c, b)
       PROVE  XorOver(cells \cup {y}, value) = content[d][b]
  BY <1>12, <1>15, <1>16, XorSame
<1> QED BY <1>5, <1>8, <1>9, <1>16 DEF cells, S, q, t, y

(* The same through FromRow. *)
LEMMA FromRowIs ==
    ASSUME raid_type \in RaidTypes, RowsHold(content, raid_type),
           NEW b \in Block(raid_type), NEW t \in StripRows, NEW d \in 0 .. K
    PROVE  FromRow(d, t, b) = Cell(<<t, d>>, b)
<1> DEFINE S == {t} \X ((0 .. K) \ {d})
           value == [c \in S |-> Cell(c, b)]
<1>1. \A c \in S : value[c] = Cell(c, b)
  OBVIOUS
<1>2. FromRow(d, t, b) = XorOver(S, value)
  BY DEF FromRow, XorOfCells
<1> HIDE DEF value
<1> QED BY <1>1, <1>2, RowRebuilt

(* Method 0 of MDR-1. *)
LEMMA RecoverDpDiskIs ==
    ASSUME Mdr1Lists, raid_type \in RaidTypes, raid_type = 61,
           RowsHold(content, raid_type), QHolds(content, raid_type),
           NEW b \in Block(raid_type), NEW d \in 0 .. K
    PROVE  mdr_I_recover_dpDisk(d, b) = content[d][b]
<1> DEFINE S == stripeIndex[d]
           q == QBlockFor[d][row(b)]
           cells == {c \in S \X (0 .. K) : c[1] \in mdr_I_encoding_matrixB[q][c[2]]}
           terms == cells \cup {<<q, Q>>}
           buf == Buffered(S \X (Disks \ {d}), b)
           own(t) == XorOver({t} \X ((0 .. K) \ {d}), buf)
           value == [c \in terms |-> IF c[2] = d THEN own(c[1]) ELSE buf[c]]
<1>1. mdr_I_recover_dpDisk(d, b)
        = IF row(b) \in S THEN own(row(b)) ELSE XorOver(terms, value)
  BY DEF mdr_I_recover_dpDisk
<1>2. S \subseteq StripRows
  BY ListRows
<1>3. 0 .. K \subseteq Disks /\ Q \in Disks /\ d # Q
  BY DiskNumbers
<1>4. \A c \in S \X (Disks \ {d}) : buf[c] = Cell(c, b)
  BY <1>2 DEF Buffered
<1>5. ASSUME NEW t \in S PROVE own(t) = Cell(<<t, d>>, b)
  <2>1. \A c \in {t} \X ((0 .. K) \ {d}) : buf[c] = Cell(c, b)
    BY <1>3, <1>4
  <2> HIDE DEF buf
  <2> QED BY <1>2, <2>1, RowRebuilt
<1>6. CASE row(b) \in S
  BY <1>1, <1>3, <1>5, <1>6, CellsOfStrip, ZenonT(60)
<1>7. CASE row(b) \notin S
  <2>1. q \in S
    <3>1. row(b) \in StripRows
      BY CellsOfStrip
    <3> QED BY <1>7, <3>1, ListRows
  <2>2. ASSUME NEW c \in terms PROVE value[c] = Cell(c, b)
    <3>1. CASE c[2] = d
      <4>1. c \in cells
        BY <3>1, <1>3
      <4>2. c[1] \in S /\ c = <<c[1], d>>
        BY <3>1, <4>1
      <4>3. value[c] = own(c[1])
        BY <3>1
      <4> HIDE DEF own
      <4> QED BY <1>5, <4>2, <4>3
    <3>2. CASE c[2] # d
      <4>1. c \in S \X (Disks \ {d})
        <5>1. CASE c \in cells
          BY <5>1, <3>2, <1>3
        <5>2. CASE c = <<q, Q>>
          <6> HIDE DEF q
          <6> QED BY <5>2, <2>1, <1>3
        <5> QED BY <5>1, <5>2
      <4>2. value[c] = buf[c]
        BY <3>2
      <4> QED BY <1>4, <4>1, <4>2
    <3> QED BY <3>1, <3>2
  <2> HIDE DEF value
  <2>3. XorOver(terms, value) = content[d][b]
    BY <1>7, <2>2, OutsideRebuilt
  <2> QED BY <1>1, <1>7, <2>3
<1> QED BY <1>6, <1>7

(* Block after block, with the list made for the disk itself. *)
LEMMA FromPlanIs ==
    ASSUME Mdr1Lists, raid_type \in RaidTypes, raid_type = 61,
           RowsHold(content, raid_type), QHolds(content, raid_type),
           NEW b \in Block(raid_type), NEW d \in 0 .. K
    PROVE  FromPlan(d, d, b) = content[d][b]
<1> DEFINE S == stripeIndex[d]
           q == QBlockFor[d][row(b)]
           M == mdr_I_encoding_matrixB[q]
           cells == {c \in S \X (0 .. K) : c[1] \in M[c[2]]}
           direct == {c \in S \X ((0 .. K) \ {d}) : c[1] \in M[c[2]]} \cup {<<q, Q>>}
           own == S \cap M[d]
           ownCells == own \X {d}
           value == [c \in cells \cup {<<q, Q>>} |-> Cell(c, b)]
           ownRows == [t \in own |-> FromRow(d, t, b)]
<1>1. FromPlan(d, d, b)
        = IF row(b) \in S THEN FromRow(d, row(b), b)
          ELSE Xor(XorOfCells(direct, b), XorOver(own, ownRows))
  BY DEF FromPlan
<1>2. S \subseteq StripRows
  BY ListRows
<1>3. 0 .. K \subseteq Disks /\ Q \in Disks /\ d # Q /\ d \in 0 .. K
  BY DiskNumbers
<1>4. CASE row(b) \in S
  <2>1. FromRow(d, row(b), b) = Cell(<<row(b), d>>, b)
    BY <1>2, <1>4, FromRowIs
  <2>2. Cell(<<row(b), d>>, b) = content[d][b]
    BY <1>3, CellsOfStrip
  <2> QED BY <1>1, <1>4, <2>1, <2>2
<1>5. CASE row(b) \notin S
  <2>1. IsFiniteSet(cells)
    <3>1. StripRows = 0 .. strip_size(raid_type) - 1 /\ strip_size(raid_type) \in Nat \ {0}
      BY StripSize, CellsOfStrip
    <3>2. cells \subseteq (0 .. strip_size(raid_type)) \X (0 .. K + 1)
      BY <1>2, <3>1, DiskNumbers
    <3> HIDE DEF cells
    <3> QED BY <3>1, <3>2, FiniteCells
  <2>2. XorOver(cells \cup {<<q, Q>>}, value) = content[d][b]
    <3>1. \A c \in cells \cup {<<q, Q>>} : value[c] = Cell(c, b)
      OBVIOUS
    <3> HIDE DEF value
    <3> QED BY <1>5, <3>1, OutsideRebuilt
  <2>3. /\ cells \cup {<<q, Q>>} = direct \cup ownCells
        /\ direct \cap ownCells = {}
    <3> HIDE DEF q, M
    <3> QED BY <1>3
  <2>4. IsFiniteSet(direct) /\ IsFiniteSet(ownCells)
    <3>1. IsFiniteSet(cells \cup {<<q, Q>>})
      <4> HIDE DEF cells
      <4> QED BY <2>1, FS_AddElement
    <3>2. direct \subseteq cells \cup {<<q, Q>>} /\ ownCells \subseteq cells \cup {<<q, Q>>}
      BY <2>3
    <3> HIDE DEF cells, direct, ownCells
    <3> QED BY <3>1, <3>2, FS_Subset
  <2>5. content[d][b] = Xor(XorOver(direct, value), XorOver(ownCells, value))
    <3> HIDE DEF cells, direct, ownCells, value
    <3> QED BY <2>2, <2>3, <2>4, XorUnion
  <2>6. XorOver(direct, value) = XorOfCells(direct, b)
    <3>1. \A c \in direct : value[c] = [x \in direct |-> Cell(x, b)][c]
      BY <2>3
    <3> HIDE DEF direct, value
    <3> QED BY <3>1, XorSame DEF XorOfCells
  <2>7. XorOver(ownCells, value) = XorOver(own, ownRows)
    <3> DEFINE f == [c \in ownCells |-> c[1]]
    <3>1. f \in Bijection(ownCells, own)
      <4> HIDE DEF own
      <4>1. f \in [ownCells -> own]
        OBVIOUS
      <4>2. \A x, y \in ownCells : f[x] = f[y] => x = y
        OBVIOUS
      <4>3. \A t \in own : <<t, d>> \in ownCells /\ f[<<t, d>>] = t
        OBVIOUS
      <4> HIDE DEF f, ownCells
      <4> QED BY <4>1, <4>2, <4>3 DEF Bijection, Injection, Surjection, IsInjective
    <3>2. ASSUME NEW c \in ownCells PROVE value[c] = ownRows[f[c]]
      <4>1. c[1] \in own /\ c = <<c[1], d>> /\ f[c] = c[1]
        OBVIOUS
      <4>2. value[c] = Cell(c, b)
        BY <2>3
      <4>3. ownRows[f[c]] = FromRow(d, c[1], b)
        BY <4>1
      <4>4. FromRow(d, c[1], b) = Cell(<<c[1], d>>, b)
        BY <1>2, <4>1, FromRowIs
      <4> QED BY <4>1, <4>2, <4>3, <4>4
    <3> HIDE DEF own, ownCells, value, ownRows, f
    <3> QED BY <2>4, <3>1, <3>2, XorRenamed
  <2> HIDE DEF direct, own, ownRows, ownCells, value
  <2> QED BY <1>1, <1>5, <2>5, <2>6, <2>7
<1> QED BY <1>4, <1>5

(***************************************************************************)
(* ./recover puts back what was on the disk, but for Q of RDP.             *)
(***************************************************************************)
LEMMA RebuiltIs ==
    ASSUME TypeOK, RowsHold(content, raid_type), QHolds(content, raid_type), AsSupported,
           NEW d \in Disks, NEW b \in Block(raid_type), NEW m \in Methods[raid_type],
           ~(raid_type = 64 /\ d = Q)
    PROVE  Rebuilt(m, d, b) = content[d][b]
<1>1. raid_type \in RaidTypes /\ raid_type \in {61, 63, 64}
  BY StripSize DEF TypeOK
<1>2. /\ row(b) \in StripRows /\ StripRows = 0 .. strip_size(raid_type) - 1
      /\ \A e \in Disks : Cell(<<row(b), e>>, b) = content[e][b]
  BY <1>1, CellsOfStrip
<1>3. /\ m \in {0, 1} /\ (raid_type = 61 => m = 0)
      /\ d \in 0 .. K \/ d = Q
      /\ 0 .. K \subseteq Disks /\ Q \notin 0 .. K /\ P \notin DataDisks
      /\ DataDisks \subseteq 0 .. K
  BY <1>1, DiskNumbers, StripeCodesAssumption DEF AsSupported
<1>4. /\ QTerms[raid_type][row(b)] \subseteq StripRows \X (0 .. K)
      /\ raid_type = 63 => QTerms[raid_type][row(b)] \subseteq StripRows \X DataDisks
  BY <1>1, <1>2, QTermsType
<1>5. ASSUME NEW read, NEW c \in read, c \in StripRows \X Disks
      PROVE  Buffered(read, b)[c] = Cell(c, b)
  BY <1>5 DEF Buffered
<1>6. ASSUME NEW e \in 0 .. K, NEW read,
             StripRows \X ((0 .. K) \ {e}) \subseteq read
      PROVE  XorOver({row(b)} \X ((0 .. K) \ {e}), Buffered(read, b)) = content[e][b]
  <2>1. \A c \in {row(b)} \X ((0 .. K) \ {e}) : Buffered(read, b)[c] = Cell(c, b)
    <3>1. {row(b)} \X ((0 .. K) \ {e}) \subseteq StripRows \X Disks
      BY <1>2, <1>3
    <3>2. {row(b)} \X ((0 .. K) \ {e}) \subseteq read
      BY <1>2, <1>6
    <3> QED BY <1>5, <3>1, <3>2
  <2>2. XorOver({row(b)} \X ((0 .. K) \ {e}), Buffered(read, b)) = Cell(<<row(b), e>>, b)
    BY <1>1, <1>2, <2>1, RowRebuilt
  <2> QED BY <1>2, <1>3, <2>2
<1>7. ASSUME raid_type # 64, NEW read, QTerms[raid_type][row(b)] \subseteq read
      PROVE  XorOver(QTerms[raid_type][row(b)], Buffered(read, b)) = content[Q][b]
  <2>1. \A c \in QTerms[raid_type][row(b)] : Buffered(read, b)[c] = Cell(c, b)
    <3>1. QTerms[raid_type][row(b)] \subseteq StripRows \X Disks
      BY <1>3, <1>4
    <3> QED BY <1>5, <1>7, <3>1
  <2> QED BY <1>1, <1>7, <2>1, QRebuilt
<1>8. ASSUME NEW e \in 0 .. K PROVE FromRow(e, row(b), b) = content[e][b]
  <2>1. FromRow(e, row(b), b) = Cell(<<row(b), e>>, b)
    BY <1>1, <1>2, FromRowIs
  <2> QED BY <1>2, <1>3, <2>1
<1>9. ASSUME raid_type # 64 PROVE XorOfCells(QTerms[raid_type][row(b)], b) = content[Q][b]
  <2> DEFINE S == QTerms[raid_type][row(b)]
             value == [c \in S |-> Cell(c, b)]
  <2>1. \A c \in S : value[c] = Cell(c, b)
    OBVIOUS
  <2>2. XorOfCells(S, b) = XorOver(S, value)
    BY DEF XorOfCells
  <2> HIDE DEF value
  <2> QED BY <1>1, <1>9, <2>1, <2>2, QRebuilt
<1>10. CASE raid_type = 61
  <2>1. Rebuilt(m, d, b) = mdr_I_recover_one_disk(d, b)
    BY <1>3, <1>10 DEF Rebuilt
  <2>2. CASE d = Q
    <3>1. mdr_I_recover_one_disk(d, b)
            = XorOver(QTerms[raid_type][row(b)], Buffered(StripRows \X (0 .. K), b))
      BY <1>10, <2>2 DEF mdr_I_recover_one_disk, mdr_I_recover_qDisk
    <3> QED BY <1>4, <1>7, <1>10, <2>1, <2>2, <3>1
  <2>3. CASE d \in 0 .. K
    <3>1. mdr_I_recover_one_disk(d, b) = mdr_I_recover_dpDisk(d, b)
      BY <1>3, <2>3 DEF mdr_I_recover_one_disk
    <3> QED BY <1>1, <1>10, <2>1, <2>3, <3>1, RecoverDpDiskIs DEF AsSupported
  <2> QED BY <1>3, <2>2, <2>3
<1>11. CASE raid_type = 63
  <2>1. Rebuilt(m, d, b) = IF m = 0 THEN evenodd_recover_block2(d, b) ELSE DecodeEvenodd(d, b)
    BY <1>11 DEF Rebuilt, evenodd_recover_one_disk, EvenoddRecover
  <2>2. CASE d = Q
    <3>1. QTerms[raid_type][row(b)] \subseteq StripRows \X (Disks \ {Q, P})
      BY <1>3, <1>4, <1>11
    <3>2. evenodd_recover_block2(d, b)
            = XorOver(QTerms[raid_type][row(b)],
                      Buffered(StripRows \X (Disks \ {Q, P}), b))
      BY <1>11, <2>2 DEF evenodd_recover_block2, evenodd_pre_read
    <3>3. DecodeEvenodd(d, b) = XorOfCells(QTerms[raid_type][row(b)], b)
      BY <1>11, <2>2 DEF DecodeEvenodd
    <3> QED BY <1>7, <1>9, <1>11, <2>1, <2>2, <3>1, <3>2, <3>3
  <2>3. CASE d \in 0 .. K
    <3>1. StripRows \X ((0 .. K) \ {d}) \subseteq StripRows \X (Disks \ {d, Q})
      BY <1>3
    <3>2. evenodd_recover_block2(d, b)
            = XorOver({row(b)} \X ((0 .. K) \ {d}),
                      Buffered(StripRows \X (Disks \ {d, Q}), b))
      BY <1>3, <2>3 DEF evenodd_recover_block2, evenodd_pre_read
    <3>3. DecodeEvenodd(d, b) = FromRow(d, row(b), b)
      BY <1>3, <2>3 DEF DecodeEvenodd
    <3> QED BY <1>6, <1>8, <2>1, <2>3, <3>1, <3>2, <3>3
  <2> QED BY <1>3, <2>2, <2>3
<1>12. CASE raid_type = 64
  <2>1. Rebuilt(m, d, b) = IF m = 0 THEN rdp_recover_block2(d, b) ELSE DecodeRdp(d, b)
    BY <1>12 DEF Rebuilt, rdp_recover_one_disk, RdpRecover
  <2>2. d \in 0 .. K /\ d # Q
    BY <1>3, <1>12
  <2>3. rdp_recover_block2(d, b)
          = XorOver({row(b)} \X ((0 .. K) \ {d}),
                    Buffered(StripRows \X ((0 .. K) \ {d}), b))
    BY <2>2 DEF rdp_recover_block2, rdp_pre_read
  <2>4. DecodeRdp(d, b) = FromRow(d, row(b), b)
    BY <2>2 DEF DecodeRdp
  <2> QED BY <1>6, <1>8, <2>1, <2>2, <2>3, <2>4
<1> QED BY <1>1, <1>10, <1>11, <1>12

(* Whatever it is, it is an XOR of writes. *)
LEMMA RebuiltType ==
    ASSUME TypeOK, Mdr1Lists, NEW d \in Disks, NEW b \in Block(raid_type),
           NEW m \in {0, 1}
    PROVE  Rebuilt(m, d, b) \subseteq Writes
<1>1. raid_type \in RaidTypes /\ raid_type \in {61, 63, 64}
  BY StripSize DEF TypeOK
<1>2. row(b) \in StripRows /\ StripRows = 0 .. strip_size(raid_type) - 1
  BY <1>1, CellsOfStrip
<1>3. /\ d \in 0 .. K \/ d = Q
      /\ 0 .. K \subseteq Disks /\ Q \in Disks
  BY DiskNumbers
<1>4. QTerms[raid_type][row(b)] \subseteq StripRows \X Disks
  BY <1>1, <1>2, <1>3, QTermsType
<1>5. ASSUME NEW c \in StripRows \X Disks PROVE Cell(c, b) \subseteq Writes
  <2>1. base(b) + c[1] \in Block(raid_type)
    BY <1>1, CellsOfStrip
  <2> QED BY <2>1 DEF Cell, TypeOK
<1>6. ASSUME NEW S \in SUBSET (StripRows \X Disks) PROVE XorOfCells(S, b) \subseteq Writes
  <2> DEFINE value == [c \in S |-> Cell(c, b)]
  <2>1. \A c \in S : value[c] \subseteq Writes
    BY <1>5
  <2> HIDE DEF value
  <2>2. XorOver(S, value) \subseteq Writes
    BY <2>1, XorType
  <2> QED BY <2>2 DEF XorOfCells, value
<1>7. ASSUME NEW read, NEW S \in SUBSET (StripRows \X Disks)
      PROVE  XorOver(S, Buffered(read, b)) \subseteq Writes
  <2>1. \A c \in S : Buffered(read, b)[c] \subseteq Writes
    BY <1>5 DEF Buffered
  <2> QED BY <2>1, XorType
<1>8. ASSUME NEW e \in Disks, NEW t \in StripRows
      PROVE  {t} \X ((0 .. K) \ {e}) \subseteq StripRows \X Disks
  BY <1>3
<1>9. ASSUME NEW e \in Disks, NEW t \in StripRows
      PROVE  FromRow(e, t, b) \subseteq Writes
  BY <1>6, <1>8 DEF FromRow
<1>10. CASE raid_type = 61
  <2>1. CASE d = Q
    <3>1. Rebuilt(m, d, b) \in {XorOver(QTerms[raid_type][row(b)],
                                       Buffered(StripRows \X (0 .. K), b)), {}}
      BY <1>10, <2>1 DEF Rebuilt, mdr_I_recover_one_disk, mdr_I_recover_qDisk,
                         Mdr1Recover, DecodeMdr1
    <3> QED BY <1>4, <1>7, <3>1
  <2>2. CASE d \in 0 .. K
    <3> DEFINE S == stripeIndex[d]
               q == QBlockFor[d][row(b)]
               cells == {c \in S \X (0 .. K) : c[1] \in mdr_I_encoding_matrixB[q][c[2]]}
               terms == cells \cup {<<q, Q>>}
               buf == Buffered(S \X (Disks \ {d}), b)
               mine(t) == XorOver({t} \X ((0 .. K) \ {d}), buf)
               value == [c \in terms |-> IF c[2] = d THEN mine(c[1]) ELSE buf[c]]
               direct == {c \in S \X ((0 .. K) \ {d}) :
                              c[1] \in mdr_I_encoding_matrixB[q][c[2]]} \cup {<<q, Q>>}
               own == S \cap mdr_I_encoding_matrixB[q][d]
               ownRows == [t \in own |-> FromRow(d, t, b)]
    <3>1. /\ S \subseteq StripRows
          /\ row(b) \notin S => q \in StripRows
      BY <1>1, <1>2, <1>10, <2>2, ListRows
    <3>2. \A t \in StripRows : mine(t) \subseteq Writes
      BY <1>7, <1>8
    <3>3. \A c \in StripRows \X Disks : buf[c] \subseteq Writes
      BY <1>5 DEF Buffered
    <3>4. row(b) \notin S => /\ terms \subseteq StripRows \X Disks
                             /\ direct \subseteq StripRows \X Disks
      <4>1. cells \subseteq StripRows \X Disks
            /\ direct \ {<<q, Q>>} \subseteq StripRows \X Disks
        BY <1>3, <3>1
      <4>2. row(b) \notin S => <<q, Q>> \in StripRows \X Disks
        BY <1>3, <3>1
      <4> HIDE DEF cells, q
      <4> QED BY <4>1, <4>2
    <3>5. mdr_I_recover_dpDisk(d, b)
            = IF row(b) \in S THEN mine(row(b)) ELSE XorOver(terms, value)
      BY DEF mdr_I_recover_dpDisk
    <3>6. FromPlan(d, d, b)
            = IF row(b) \in S THEN FromRow(d, row(b), b)
              ELSE Xor(XorOfCells(direct, b), XorOver(own, ownRows))
      BY DEF FromPlan
    <3>7. row(b) \notin S => XorOver(terms, value) \subseteq Writes
      <4>1. row(b) \notin S => \A c \in terms : value[c] \subseteq Writes
        <5>1. ASSUME row(b) \notin S, NEW c \in terms PROVE value[c] \subseteq Writes
          <6>1. c \in StripRows \X Disks
            BY <3>4, <5>1
          <6>2. value[c] = IF c[2] = d THEN mine(c[1]) ELSE buf[c]
            OBVIOUS
          <6>3. c[1] \in StripRows
            BY <6>1
          <6> HIDE DEF value, mine, buf, terms
          <6> QED BY <3>2, <3>3, <6>1, <6>2, <6>3
        <5> QED BY <5>1
      <4> HIDE DEF value, terms
      <4> QED BY <4>1, XorType
    <3>8. row(b) \notin S => Xor(XorOfCells(direct, b), XorOver(own, ownRows)) \subseteq Writes
      <4>1. \A t \in own : ownRows[t] \subseteq Writes
        BY <1>9, <3>1
      <4> HIDE DEF own, ownRows, direct
      <4>2. XorOver(own, ownRows) \subseteq Writes
        BY <4>1, XorType
      <4>3. row(b) \notin S => XorOfCells(direct, b) \subseteq Writes
        BY <1>6, <3>4
      <4> QED BY <4>2, <4>3 DEF Xor
    <3>9. Rebuilt(m, d, b) \in {mdr_I_recover_dpDisk(d, b), FromPlan(d, d, b)}
      <4>1. d # Q
        BY <2>2, DiskNumbers
      <4> QED BY <1>10, <4>1 DEF Rebuilt, mdr_I_recover_one_disk, Mdr1Recover, DecodeMdr1
    <3>10. mine(row(b)) \subseteq Writes /\ FromRow(d, row(b), b) \subseteq Writes
      BY <1>2, <1>9, <3>2
    <3> HIDE DEF S, mine, terms, value, direct, own, ownRows
    <3> QED BY <3>5, <3>6, <3>7, <3>8, <3>9, <3>10
  <2> QED BY <1>3, <2>1, <2>2
<1>11. CASE raid_type = 63
  <2>1. Rebuilt(m, d, b) \in {evenodd_recover_block2(d, b), DecodeEvenodd(d, b)}
    BY <1>11 DEF Rebuilt, evenodd_recover_one_disk, EvenoddRecover
  <2>2. DecodeEvenodd(d, b) \subseteq Writes
    BY <1>2, <1>4, <1>6, <1>9, <1>11 DEF DecodeEvenodd
  <2>3. evenodd_recover_block2(d, b) \subseteq Writes
    BY <1>2, <1>4, <1>7, <1>8, <1>11 DEF evenodd_recover_block2, evenodd_pre_read
  <2> QED BY <2>1, <2>2, <2>3
<1>12. CASE raid_type = 64
  <2>1. Rebuilt(m, d, b) \in {rdp_recover_block2(d, b), DecodeRdp(d, b)}
    BY <1>12 DEF Rebuilt, rdp_recover_one_disk, RdpRecover
  <2>2. DecodeRdp(d, b) \subseteq Writes
    BY <1>2, <1>4, <1>6, <1>9, <1>12 DEF DecodeRdp
  <2>3. rdp_recover_block2(d, b) \subseteq Writes
    BY <1>2, <1>4, <1>7, <1>8, <1>12 DEF rdp_recover_block2, rdp_pre_read
  <2> QED BY <2>1, <2>2, <2>3
<1> QED BY <1>1, <1>10, <1>11, <1>12

-----------------------------------------------------------------------------
(***************************************************************************)
(* The types.                                                              *)
(***************************************************************************)

(* Whatever get_operation_mode() computes is a mode. *)
LEMMA ModeOf ==
    ASSUME NEW rt, NEW status PROVE get_operation_mode(rt, status) \subseteq Mode
BY DEF get_operation_mode, ModesFor, Mode

(* encode() changes the writes that blocks hold, and nothing else. *)
LEMMA WriteType ==
    ASSUME TypeOK, NEW d \in DataDisks, NEW b \in Block(raid_type), Write(d, b)
    PROVE  TypeOK'
<1>1. raid_type \in {61, 63, 64} /\ raid_type' = raid_type
  BY StripSize DEF TypeOK, Write
<1>2. written' \in Writes /\ written' \in 0 .. MaxWrites
  BY StripeCodesAssumption DEF TypeOK, Write, Writes
<1>3. content' \in [Disks -> [Block(raid_type) -> SUBSET Writes]]
  <2>1. \A qs : XoredIn(d, b, qs, written') \in [Disks -> [Block(raid_type) -> SUBSET Writes]]
    BY <1>2, XoredInEncodes
  <2>2. \E qs : content' = XoredIn(d, b, qs, written')
    BY <1>1 DEF Write, EncodeMdr1, EncodeEvenodd, EncodeRdp
  <2> QED BY <2>1, <2>2
<1>4. stored' \in [DataDisks \X Block(raid_type) -> Writes \cup {NoWrite}]
  BY <1>2 DEF TypeOK, Write
<1> QED BY <1>1, <1>2, <1>3, <1>4 DEF TypeOK, Write

(* So does the recovery tool. *)
LEMMA RecoverType ==
    ASSUME TypeOK, Mdr1Lists, NEW d \in Disks, NEW m \in Methods[raid_type], Recover(d, m)
    PROVE  TypeOK'
<1>1. m \in {0, 1} /\ raid_type' = raid_type
  BY StripeCodesAssumption DEF TypeOK, Recover
<1>2. \A b \in Block(raid_type) : Rebuilt(m, d, b) \subseteq Writes
  BY <1>1, RebuiltType
<1>3. content' \in [Disks -> [Block(raid_type) -> SUBSET Writes]]
  BY <1>2 DEF TypeOK, Recover
<1>4. disk_status' \in [Disks -> {0, 1}]
  BY DEF TypeOK, Recover
<1>5. operation_mode' \in Mode
  BY ModeOf DEF Recover
<1> QED BY <1>1, <1>3, <1>4, <1>5 DEF TypeOK, Recover

(* The types hold in every step. *)
LEMMA TypeStep ==
    ASSUME TypeOK, Mdr1Lists, [Next]_vars
    PROVE  TypeOK'
<1>1. ASSUME NEW d \in DataDisks, NEW b \in Block(raid_type), Write(d, b)
      PROVE  TypeOK'
  BY <1>1, WriteType
<1>2. ASSUME NEW d \in DataDisks, NEW b \in Block(raid_type), Remove(d, b)
      PROVE  TypeOK'
  BY <1>2 DEF TypeOK, Remove
<1>3. ASSUME NEW d \in DataDisks, NEW b \in Block(raid_type), ReadBlock(d, b)
      PROVE  TypeOK'
  <2>1. d \in 0 .. K
    BY DiskNumbers
  <2>2. planned' \in (0 .. K) \cup {None}
    BY <1>3, <2>1 DEF TypeOK, ReadBlock, Plan
  <2> QED BY <1>3, <2>2 DEF TypeOK, ReadBlock
<1>4. CASE ReadStart
  BY <1>4 DEF TypeOK, ReadStart
<1>5. CASE ReadEnd
  BY <1>5 DEF TypeOK, ReadEnd
<1>6. CASE Remount
  <2>1. operation_mode' \in Mode
    BY <1>6, ModeOf DEF Remount
  <2> QED BY <1>6, <2>1 DEF TypeOK, Remount
<1>7. ASSUME NEW d \in Disks, NEW status \in {0, 1}, SetStatus(d, status)
      PROVE  TypeOK'
  <2>1. operation_mode' \in Mode
    BY <1>7, ModeOf DEF SetStatus
  <2>2. disk_status' \in [Disks -> {0, 1}]
    BY <1>7 DEF TypeOK, SetStatus
  <2> QED BY <1>7, <2>1, <2>2 DEF TypeOK, SetStatus
<1>8. ASSUME NEW d \in Disks, NEW m \in Methods[raid_type], Recover(d, m)
      PROVE  TypeOK'
  BY <1>8, RecoverType
<1>9. CASE UNCHANGED vars
  BY <1>9 DEF TypeOK, vars
<1> QED BY <1>1, <1>2, <1>3, <1>4, <1>5, <1>6, <1>7, <1>8, <1>9 DEF Next

(* And at first. *)
LEMMA TypeInit == Init => TypeOK
<1> SUFFICES ASSUME Init PROVE TypeOK
  OBVIOUS
<1>1. MaxWrites \in Nat
  BY StripeCodesAssumption
<1>2. content \in [Disks -> [Block(raid_type) -> SUBSET Writes]]
  BY Zenon DEF Init
<1>3. stored \in [DataDisks \X Block(raid_type) -> Writes \cup {NoWrite}]
  BY DEF Init
<1>4. disk_status \in [Disks -> {0, 1}]
  BY DEF Init
<1>5. /\ raid_type \in RaidTypes /\ operation_mode \in Mode /\ written \in 0 .. MaxWrites
      /\ reading \in BOOLEAN /\ planned \in (0 .. K) \cup {None}
  <2>1. /\ raid_type \in RaidTypes /\ operation_mode = 0 /\ written = 0
        /\ reading = FALSE /\ planned = None
    BY Zenon DEF Init
  <2>2. 0 \in Mode /\ 0 \in 0 .. MaxWrites
    BY <1>1 DEF Mode
  <2> QED BY <2>1, <2>2, Zenon
<1> QED BY <1>2, <1>3, <1>4, <1>5, Zenon DEF TypeOK

(***************************************************************************)
(* The state of StripeCodes has its types: every block of every disk is an *)
(* XOR of writes, whatever encode(), decode() and ./recover have done.     *)
(***************************************************************************)
THEOREM TypeCorrect ==
    ASSUME Mdr1Lists
    PROVE  Spec => []TypeOK
<1>1. Init => TypeOK
  BY TypeInit
<1>2. TypeOK /\ [Next]_vars => TypeOK'
  BY TypeStep
<1> QED BY <1>1, <1>2, PTL DEF Spec

-----------------------------------------------------------------------------
(***************************************************************************)
(* The codes.                                                              *)
(***************************************************************************)

(* Rows depend on the data disks and P, Q is one block more. *)
LEMMA RowsOfSame ==
    ASSUME NEW rt \in RaidTypes, NEW con, NEW new,
           \A e \in 0 .. K, c \in Block(rt) : new[e][c] = con[e][c]
    PROVE  /\ RowsHold(con, rt) => RowsHold(new, rt)
           /\ QHolds(con, rt) /\ (\A c \in Block(rt) : new[Q][c] = con[Q][c])
                 => QHolds(new, rt)
<1> DEFINE s == strip_size(rt)
<1>1. ASSUME NEW b \in Block(rt), NEW x \in (0 .. s - 1) \X (0 .. K)
      PROVE  Strip(new, s, b)[x] = Strip(con, s, b)[x]
  <2>1. x \in (0 .. s - 1) \X Disks /\ x[1] \in 0 .. s - 1 /\ x[2] \in 0 .. K
    BY DiskNumbers
  <2>2. (b - (b % s)) + x[1] \in Block(rt)
    BY <2>1, StripBlocks
  <2>3. new[x[2]][(b - (b % s)) + x[1]] = con[x[2]][(b - (b % s)) + x[1]]
    BY <2>1, <2>2
  <2> QED BY <2>1, <2>3 DEF Strip
<1>2. ASSUME NEW b \in Block(rt)
      PROVE  /\ b % s \in 0 .. s - 1
             /\ RowCells(s, b) \subseteq (0 .. s - 1) \X (0 .. K)
             /\ QTerms[rt][b % s] \subseteq (0 .. s - 1) \X (0 .. K)
  <2>1. b % s \in 0 .. s - 1
    BY StripBlocks
  <2> QED BY <2>1, QTermsType DEF RowCells
<1>3. ASSUME NEW b \in Block(rt), NEW S \in SUBSET ((0 .. s - 1) \X (0 .. K))
      PROVE  XorOver(S, Strip(new, s, b)) = XorOver(S, Strip(con, s, b))
  BY <1>1, XorSame
<1>4. RowsHold(con, rt) => RowsHold(new, rt)
  BY <1>2, <1>3 DEF RowsHold
<1>5. QHolds(con, rt) /\ (\A c \in Block(rt) : new[Q][c] = con[Q][c]) => QHolds(new, rt)
  BY <1>2, <1>3 DEF QHolds
<1> QED BY <1>4, <1>5

(* A write of a fresh block. *)
LEMMA WriteStep ==
    ASSUME Inv, "recycle" \notin Env,
           NEW d \in DataDisks, NEW b \in Block(raid_type), Write(d, b)
    PROVE  (RowsHold(content, raid_type) /\ QHolds(content, raid_type) /\ StoredIsThere)'
<1> DEFINE s == strip_size(raid_type)
           x == <<b % s, d>>
           y == <<b % s, P>>
<1>1. /\ raid_type \in RaidTypes /\ raid_type \in {61, 63, 64} /\ raid_type' = raid_type
      /\ written' \in Writes /\ content[d][b] = {}
  BY StripSize, StripeCodesAssumption DEF Inv, TypeOK, Write, Writes
<1>2. row(b) = b % s
  BY DEF row
<1>3. y \notin (0 .. s - 1) \X DataDisks
  BY DiskNumbers
<1>4. PICK qs :
        /\ content' = XoredIn(d, b, qs, written')
        /\ raid_type # 64 => \A q \in 0 .. s - 1 :
              q \in qs <=> ((x \in QTerms[raid_type][q]) # (y \in QTerms[raid_type][q]))
  <2>1. CASE raid_type = 61
    <3>1. content' = XoredIn(d, b, mdr_I_find_q_blocks_id(d, row(b)), written')
      BY <2>1 DEF Write, EncodeMdr1
    <3>2. \A q \in 0 .. s - 1 : q \in mdr_I_find_q_blocks_id(d, row(b))
              <=> ((x \in QTerms[raid_type][q]) # (y \in QTerms[raid_type][q]))
      BY <1>2, <2>1 DEF mdr_I_find_q_blocks_id
    <3> HIDE DEF x, y, s
    <3> QED BY <3>1, <3>2
  <2>2. CASE raid_type = 63
    <3>1. content' = XoredIn(d, b, evenodd_find_q_blocks_id(d, row(b)), written')
      BY <2>2 DEF Write, EncodeEvenodd
    <3>2. \A q \in 0 .. s - 1 : y \notin QTerms[raid_type][q]
      BY <1>1, <1>3, <2>2, QTermsType
    <3>3. \A q \in 0 .. s - 1 : q \in evenodd_find_q_blocks_id(d, row(b))
              <=> ((x \in QTerms[raid_type][q]) # (y \in QTerms[raid_type][q]))
      BY <1>2, <2>2, <3>2 DEF evenodd_find_q_blocks_id
    <3> HIDE DEF x, y, s
    <3> QED BY <3>1, <3>3
  <2>3. CASE raid_type = 64
    <3>1. content' = XoredIn(d, b, rdp_find_q_blocks_id(d, row(b)), written')
      BY <2>3 DEF Write, EncodeRdp
    <3> QED BY <2>3, <3>1
  <2> QED BY <1>1, <2>1, <2>2, <2>3
<1>5. Encoded(content, content', raid_type, d, b, written', qs)
  BY <1>1, <1>4, XoredInEncodes DEF Inv
<1>6. RowsHold(content', raid_type)
  BY <1>1, <1>5, EncodeKeepsRows DEF Inv
<1>7. QHolds(content', raid_type)
  <2>1. CASE raid_type = 64
    BY <2>1 DEF QHolds
  <2>2. CASE raid_type # 64
    BY <1>1, <1>4, <1>5, <2>2, EncodeKeepsQ DEF Inv
  <2> QED BY <2>1, <2>2
<1>8. StoredIsThere'
  <2>1. stored' = [stored EXCEPT ![<<d, b>>] = written']
    BY DEF Write
  <2>2. ASSUME NEW z \in DataDisks \X Block(raid_type), stored'[z] # NoWrite
        PROVE  content'[z[1]][z[2]] = {stored'[z]}
    <3>1. z[1] \in DataDisks /\ z[2] \in Block(raid_type) /\ z = <<z[1], z[2]>>
      OBVIOUS
    <3>2. z[1] \in 0 .. K /\ z[1] # P
      BY <3>1, DiskNumbers
    <3>3. content'[z[1]][z[2]]
            = IF z[1] = d /\ z[2] = b THEN {written'} ELSE content[z[1]][z[2]]
      BY <1>5, <3>1, <3>2 DEF Encoded
    <3>4. stored \in [DataDisks \X Block(raid_type) -> Writes \cup {NoWrite}]
      BY DEF Inv, TypeOK
    <3>5. CASE z = <<d, b>>
      BY <2>1, <3>3, <3>4, <3>5
    <3>6. CASE z # <<d, b>>
      <4>1. stored'[z] = stored[z] /\ ~(z[1] = d /\ z[2] = b)
        BY <2>1, <3>1, <3>4, <3>6
      <4>2. content[z[1]][z[2]] = {stored[z]}
        BY <2>2, <4>1 DEF Inv, StoredIsThere, Live
      <4> QED BY <3>3, <4>1, <4>2
    <3> QED BY <3>5, <3>6
  <2> QED BY <1>1, <2>2 DEF StoredIsThere, Live
<1> QED BY <1>1, <1>6, <1>7, <1>8

(* The recovery tool. *)
LEMMA RecoverStep ==
    ASSUME Inv, AsSupported, NEW d \in Disks, NEW m \in Methods[raid_type], Recover(d, m)
    PROVE  (RowsHold(content, raid_type) /\ QHolds(content, raid_type) /\ StoredIsThere)'
<1>1. /\ raid_type \in RaidTypes /\ raid_type' = raid_type /\ stored' = stored
      /\ content \in [Disks -> [Block(raid_type) -> SUBSET Writes]]
  BY DEF Inv, TypeOK, Recover
<1>2. /\ 0 .. K \subseteq Disks /\ Q \in Disks /\ Q \notin 0 .. K
      /\ DataDisks \subseteq 0 .. K
  BY DiskNumbers
<1>3. ASSUME NEW e \in Disks, NEW c \in Block(raid_type), ~(raid_type = 64 /\ e = Q)
      PROVE  content'[e][c] = content[e][c]
  <2>1. content'[e][c] = IF e = d THEN Rebuilt(m, d, c) ELSE content[e][c]
    BY <1>1 DEF Recover
  <2> QED BY <1>3, <2>1, RebuiltIs DEF Inv
<1>4. \A e \in 0 .. K, c \in Block(raid_type) : content'[e][c] = content[e][c]
  BY <1>2, <1>3
<1>5. RowsHold(content', raid_type)
  BY <1>1, <1>4, RowsOfSame DEF Inv
<1>6. QHolds(content', raid_type)
  <2>1. CASE raid_type = 64
    BY <2>1 DEF QHolds
  <2>2. CASE raid_type # 64
    <3>1. \A c \in Block(raid_type) : content'[Q][c] = content[Q][c]
      BY <1>2, <1>3, <2>2
    <3> QED BY <1>1, <1>4, <3>1, RowsOfSame DEF Inv
  <2> QED BY <2>1, <2>2
<1>7. StoredIsThere'
  <2>1. ASSUME NEW z \in DataDisks \X Block(raid_type), stored[z] # NoWrite
        PROVE  content'[z[1]][z[2]] = {stored[z]}
    <3>1. z[1] \in 0 .. K /\ z[2] \in Block(raid_type)
      BY <1>2
    <3>2. content[z[1]][z[2]] = {stored[z]}
      BY <2>1 DEF Inv, StoredIsThere, Live
    <3> QED BY <1>4, <3>1, <3>2
  <2> QED BY <1>1, <2>1 DEF StoredIsThere, Live
<1> QED BY <1>1, <1>5, <1>6, <1>7

(* All blocks are zero at first. *)
LEMMA InvInit == Init => Inv
<1> SUFFICES ASSUME Init PROVE Inv
  OBVIOUS
<1> DEFINE s == strip_size(raid_type)
<1>1. raid_type \in RaidTypes /\ TypeOK
  BY TypeInit DEF Init
<1>2. \A e \in Disks, c \in Block(raid_type) : content[e][c] = {}
  BY DEF Init
<1>3. 0 .. K \subseteq Disks /\ Q \in Disks
  BY DiskNumbers
<1>4. ASSUME NEW b \in Block(raid_type), NEW S \in SUBSET ((0 .. s - 1) \X (0 .. K))
      PROVE  XorOver(S, Strip(content, s, b)) = {}
  <2>1. ASSUME NEW x \in S PROVE Strip(content, s, b)[x] = {}
    <3>1. x \in (0 .. s - 1) \X Disks /\ x[1] \in 0 .. s - 1 /\ x[2] \in Disks
      BY <1>3
    <3>2. (b - (b % s)) + x[1] \in Block(raid_type)
      BY <1>1, <3>1, StripBlocks
    <3> QED BY <1>2, <3>1, <3>2 DEF Strip
  <2> QED BY <2>1, XorFresh
<1>5. ASSUME NEW b \in Block(raid_type)
      PROVE  /\ RowCells(s, b) \subseteq (0 .. s - 1) \X (0 .. K)
             /\ QTerms[raid_type][b % s] \subseteq (0 .. s - 1) \X (0 .. K)
  <2>1. b % s \in 0 .. s - 1
    BY <1>1, StripBlocks
  <2> QED BY <1>1, <2>1, QTermsType DEF RowCells
<1>6. RowsHold(content, raid_type)
  BY <1>4, <1>5 DEF RowsHold
<1>7. QHolds(content, raid_type)
  BY <1>2, <1>3, <1>4, <1>5 DEF QHolds
<1>8. StoredIsThere
  BY DEF Init, StoredIsThere, Live
<1> QED BY <1>1, <1>6, <1>7, <1>8 DEF Inv

(* Every step keeps the codes. *)
LEMMA InvStep ==
    ASSUME Inv, AsSupported, [Next]_vars
    PROVE  Inv'
<1> DEFINE Codes == RowsHold(content, raid_type) /\ QHolds(content, raid_type)
<1>1. TypeOK'
  BY TypeStep DEF Inv, AsSupported
<1>2. ASSUME UNCHANGED <<raid_type, content>> PROVE Codes'
  BY <1>2 DEF Inv
<1>3. ASSUME UNCHANGED <<raid_type, content, stored>> PROVE StoredIsThere'
  BY <1>3 DEF Inv, StoredIsThere, Live
<1>4. ASSUME NEW d \in DataDisks, NEW b \in Block(raid_type), Write(d, b)
      PROVE  (Codes /\ StoredIsThere)'
  BY <1>4, WriteStep DEF AsSupported
<1>5. ASSUME NEW d \in DataDisks, NEW b \in Block(raid_type), Remove(d, b)
      PROVE  (Codes /\ StoredIsThere)'
  <2>1. UNCHANGED <<raid_type, content>>
    BY <1>5 DEF Remove
  <2>2. ASSUME NEW z \in DataDisks \X Block(raid_type), stored'[z] # NoWrite
        PROVE  stored[z] = stored'[z]
    BY <1>5, <2>2 DEF Remove, Inv, TypeOK
  <2>3. StoredIsThere'
    BY <2>1, <2>2 DEF Inv, StoredIsThere, Live
  <2> QED BY <1>2, <2>1, <2>3
<1>6. ASSUME NEW d \in DataDisks, NEW b \in Block(raid_type), ReadBlock(d, b)
      PROVE  (Codes /\ StoredIsThere)'
  BY <1>2, <1>3, <1>6 DEF ReadBlock
<1>7. CASE ReadStart \/ ReadEnd \/ Remount \/ UNCHANGED vars
  BY <1>1, <1>2, <1>3, <1>7 DEF ReadStart, ReadEnd, Remount, vars, Inv
<1>8. ASSUME NEW d \in Disks, NEW status \in {0, 1}, SetStatus(d, status)
      PROVE  (Codes /\ StoredIsThere)'
  BY <1>2, <1>3, <1>8 DEF SetStatus
<1>9. ASSUME NEW d \in Disks, NEW m \in Methods[raid_type], Recover(d, m)
      PROVE  (Codes /\ StoredIsThere)'
  BY <1>9, RecoverStep
<1> QED BY <1>1, <1>4, <1>5, <1>6, <1>7, <1>8, <1>9 DEF Next, Inv

(* The invariant. *)
LEMMA InvHolds ==
    ASSUME AsSupported
    PROVE  Spec => []Inv
<1>1. Init => Inv
  BY InvInit
<1>2. Inv /\ [Next]_vars => Inv'
  BY InvStep
<1> QED BY <1>1, <1>2, PTL DEF Spec

(***************************************************************************)
(* No acknowledged write is lost: it is on its disk, and what ./recover    *)
(* would write in its place, by either method, is the same.                *)
(***************************************************************************)
THEOREM AcknowledgedSurvivesHolds ==
    ASSUME AsSupported
    PROVE  Spec => []AcknowledgedSurvives
<1>1. ASSUME Inv PROVE AcknowledgedSurvives
  <2> SUFFICES ASSUME NEW x \in Live, NEW m \in Methods[raid_type]
               PROVE  /\ content[x[1]][x[2]] = {stored[x]}
                      /\ Rebuilt(m, x[1], x[2]) = {stored[x]}
    <3>1. \A x \in Live : content[x[1]][x[2]] = {stored[x]}
      BY <1>1 DEF Inv, StoredIsThere
    <3> QED BY <3>1 DEF AcknowledgedSurvives
  <2>1. x[1] \in DataDisks /\ x[2] \in Block(raid_type)
    BY DEF Live
  <2>2. x[1] \in Disks /\ x[1] # Q
    BY <2>1, DiskNumbers
  <2>3. Rebuilt(m, x[1], x[2]) = content[x[1]][x[2]]
    BY <1>1, <2>1, <2>2, RebuiltIs DEF Inv
  <2> QED BY <1>1, <2>3 DEF Inv, StoredIsThere
<1> QED BY <1>1, InvHolds, PTL

(***************************************************************************)
(* A rebuilt device is the image of the one it replaces, data or parity,   *)
(* but for Q of RDP.                                                       *)
(***************************************************************************)
THEOREM ImageRestoredButRdpQHolds ==
    ASSUME AsSupported
    PROVE  Spec => []ImageRestoredButRdpQ
<1>1. ASSUME Inv PROVE ImageRestoredButRdpQ
  BY <1>1, RebuiltIs DEF Inv, ImageRestoredButRdpQ, SameImage
<1> QED BY <1>1, InvHolds, PTL

-----------------------------------------------------------------------------
(***************************************************************************)
(* The list of rows that MDR-1 keeps between reads.                        *)
(***************************************************************************)

(* The list is for the disk that is out of service. *)
LEMMA OneFailedStep ==
    ASSUME TypeOK, OneFailed, "another" \notin Env, [Next]_vars
    PROVE  OneFailed'
<1>0. disk_status \in [Disks -> {0, 1}]
  BY DEF TypeOK
<1>1. ASSUME UNCHANGED <<disk_status, planned>> PROVE OneFailed'
  BY <1>1 DEF OneFailed
<1>2. ASSUME NEW d \in DataDisks, NEW b \in Block(raid_type),
             Write(d, b) \/ Remove(d, b)
      PROVE  OneFailed'
  BY <1>1, <1>2 DEF Write, Remove
<1>3. ASSUME NEW d \in DataDisks, NEW b \in Block(raid_type), ReadBlock(d, b)
      PROVE  OneFailed'
  <2>1. /\ d \in Disks /\ disk_status[d] = 1 /\ disk_status' = disk_status
        /\ planned' = IF planned = None THEN d ELSE planned
    BY <1>3, DiskNumbers DEF ReadBlock, Plan
  <2> QED BY <2>1 DEF OneFailed
<1>4. CASE ReadStart \/ ReadEnd \/ UNCHANGED vars
  BY <1>1, <1>4 DEF ReadStart, ReadEnd, vars
<1>5. CASE Remount
  <2>1. \A d \in Disks : disk_status'[d] = 0
    BY <1>5 DEF Remount
  <2> QED BY <2>1 DEF OneFailed
<1>6. ASSUME NEW d \in Disks, NEW status \in {0, 1}, SetStatus(d, status)
      PROVE  OneFailed'
  <2>1. /\ planned' = planned
        /\ \A e \in Disks : disk_status'[e] = IF e = d THEN status ELSE disk_status[e]
    BY <1>0, <1>6 DEF SetStatus
  <2>2. CASE status = 0
    BY <2>1, <2>2 DEF OneFailed
  <2>3. CASE status = 1
    <3>1. /\ \A e \in Disks : disk_status[e] = 0
          /\ planned \in {None, d}
      BY <1>6, <2>3 DEF SetStatus, Failed
    <3> QED BY <2>1, <2>3, <3>1 DEF OneFailed
  <2> QED BY <2>2, <2>3
<1>7. ASSUME NEW d \in Disks, NEW m \in Methods[raid_type], Recover(d, m)
      PROVE  OneFailed'
  <2>1. /\ planned' = None
        /\ \A e \in Disks : disk_status'[e] = IF e = d THEN 0 ELSE disk_status[e]
    BY <1>0, <1>7 DEF Recover
  <2> QED BY <2>1 DEF OneFailed
<1> QED BY <1>2, <1>3, <1>4, <1>5, <1>6, <1>7 DEF Next

(* What decode() computes for the disk that is out of service. *)
LEMMA DecodeIs ==
    ASSUME Inv, OneFailed, Mdr1Lists, NEW x \in Live, disk_status[x[1]] = 1
    PROVE  Decode(x[1], Plan(x[1]), x[2]) = {stored[x]}
<1>1. x[1] \in DataDisks /\ x[2] \in Block(raid_type)
  BY DEF Live
<1>2. x[1] \in 0 .. K /\ x[1] \in Disks /\ x[1] # Q
  BY <1>1, DiskNumbers
<1>3. Plan(x[1]) = x[1]
  BY <1>2 DEF Plan, OneFailed
<1>4. /\ raid_type \in RaidTypes /\ raid_type \in {61, 63, 64}
      /\ RowsHold(content, raid_type) /\ QHolds(content, raid_type)
  BY StripSize DEF Inv, TypeOK
<1>5. FromRow(x[1], row(x[2]), x[2]) = content[x[1]][x[2]]
  <2>1. /\ row(x[2]) \in StripRows
        /\ Cell(<<row(x[2]), x[1]>>, x[2]) = content[x[1]][x[2]]
    BY <1>1, <1>2, <1>4, CellsOfStrip
  <2> QED BY <1>1, <1>2, <1>4, <2>1, FromRowIs
<1>6. raid_type = 61 => FromPlan(x[1], x[1], x[2]) = content[x[1]][x[2]]
  BY <1>1, <1>2, <1>4, FromPlanIs
<1>7. Decode(x[1], x[1], x[2]) = content[x[1]][x[2]]
  BY <1>2, <1>4, <1>5, <1>6 DEF Decode, DecodeMdr1, DecodeEvenodd, DecodeRdp
<1> QED BY <1>3, <1>7 DEF Inv, StoredIsThere

(***************************************************************************)
(* A read of a file on a disk that is out of service decodes what was      *)
(* written, also with the list of rows made for an earlier read.           *)
(***************************************************************************)
THEOREM DegradedReadsBackHolds ==
    ASSUME AsSupported, "another" \notin Env
    PROVE  Spec => []DegradedReadsBack
<1>1. Init => OneFailed
  BY DEF Init, OneFailed
<1>2. Inv /\ OneFailed /\ [Next]_vars => OneFailed'
  BY OneFailedStep DEF Inv
<1>3. Inv /\ OneFailed => DegradedReadsBack
  BY DecodeIs DEF DegradedReadsBack, AsSupported
<1>4. Spec => []Inv
  BY InvHolds
<1> QED BY <1>1, <1>2, <1>3, <1>4, PTL DEF Spec
=============================================================================
