---------------------------- MODULE FileIOProofs -----------------------------
(***************************************************************************)
(* Theorems about FileIO: the table of paths for every use, and, for users *)
(* that keep to the safe part of it, that the handlers implement FileStore.*)
(***************************************************************************)
EXTENDS FileIO, TLAPS, WellFoundedInduction, FiniteSetTheorems, SequenceTheorems

(* No use that the code does not support; a long read comes out short. *)
SupportedUsage == Usage \subseteq {"long"}

-----------------------------------------------------------------------------
(* The table, the descriptors and the handles.  An entry that is not of a  *)
(* handle was left by an unlink; its descriptor is the next one handed out.*)
TableOK ==
    /\ fds \subseteq Descriptors
    /\ fileInfoPath_ \in [Descriptors -> Paths \cup {NoPath}]
    /\ handles \in [Descriptors -> Paths \cup {NoPath}]
    /\ unlinking \in [path : Paths \cup {NoPath}, fd : Descriptors \cup {-1}, closed : BOOLEAN]
    /\ unlinking = NoUnlink \/ (unlinking.path \in Paths /\ unlinking.fd \in Descriptors)

HandlesOpen ==
    /\ HandleKeepsItsPath
    /\ \A h \in Descriptors : handles[h] # NoPath => h \in fds
    /\ unlinking # NoUnlink /\ ~unlinking.closed =>
          unlinking.fd \in fds /\ handles[unlinking.fd] = NoPath

LeftOver(d) ==
    /\ d \notin fds /\ \A e \in Free : d <= e
    /\ ~Exists(fileInfoPath_[d]) \/ fileInfoPath_[d] = unlinking.path
    /\ unlinking = NoUnlink \/ unlinking.closed

EntriesOK ==
    /\ unlinking # NoUnlink /\ ~unlinking.closed =>
          \A e \in Descriptors : e < unlinking.fd => e \in fds
    /\ \A d \in Descriptors : fileInfoPath_[d] # NoPath =>
          \/ handles[d] = fileInfoPath_[d]
          \/ fileInfoPath_[d] = unlinking.path /\ d = unlinking.fd /\ ~unlinking.closed
          \/ LeftOver(d)

-----------------------------------------------------------------------------
SizeOf(p) == IF meta[p].size = NoSize THEN 0 ELSE meta[p].size

MetaOK ==
    meta \in [Paths -> [size : NoSize .. MaxLength, info : [Indexes -> 0 .. NumBlocks - 1]]
                          \cup {NoMeta}]

(* The blocks of a file have been handed out. *)
BlocksHeld ==
    \A p \in Paths, x \in Indexes :
        Exists(p) /\ x * disk_block_size < SizeOf(p) => meta[p].info[x] < used

(* Big blocks are written whole; the buffer holds the end of one file. *)
BufferOK ==
    /\ bigtempbuf_counter \in 1 .. bigtempbuf_maxcount
    /\ owner = NoPath <=> bigtempbuf_counter = bigtempbuf_maxcount
    /\ owner # NoPath => Exists(owner) /\ Length(owner) <= MaxLength
                         /\ \E h \in Descriptors : handles[h] = owner
    /\ usebigblock => \A p \in Paths : Exists(p) => SizeOf(p) % disk_block_size = 0

(* Requests for one file do not overlap. *)
Requests ==
    /\ \A h \in Descriptors : handles[h] # NoPath =>
          Exists(handles[h]) /\ handles[h] # unlinking.path
    /\ unlinking # NoUnlink => Exists(unlinking.path) /\ unlinking.path # stat.path
    /\ stat = NoStat \/ (stat.path \in Paths /\ stat.path # owner)
    /\ stat \in [path : Paths \cup {NoPath}, there : BOOLEAN,
                 fd : Descriptors \cup {UNAVAILABLE}]
    /\ stat # NoStat => stat.there = Exists(stat.path)
    /\ stat.there => /\ meta[stat.path].size # NoSize
                     /\ stat.fd # UNAVAILABLE => handles[stat.fd] = stat.path
    /\ (\E p \in Paths : Exists(p)) => Free # {}

FInv ==
    /\ TypeOK /\ TableOK /\ HandlesOpen /\ EntriesOK
    /\ MetaOK /\ BlocksHeld /\ BufferOK /\ Requests

-----------------------------------------------------------------------------
(* Numbers and the descriptor that is handed out.                          *)

(* A set of natural numbers has a least element: induction, for the proofs *)
(* below, is the least counterexample.                                     *)
LEMMA LeastNatural ==
    ASSUME NEW T, T \subseteq Nat, T # {}
    PROVE  \E n \in T : \A m \in T : n <= m
<1>1. PICK n \in T : \A m \in T : ~(<<m, n>> \in OpToRel(<, Nat))
  BY NatLessThanWellFounded, WFMin
<1>2. \A m \in T : ~(m < n)
  BY <1>1 DEF OpToRel
<1> QED BY <1>2

(* Min of the community modules finds it. *)
LEMMA MinIsLeast ==
    ASSUME NEW T, T \subseteq Nat, T # {}
    PROVE  Min(T) \in T /\ \A m \in T : Min(T) <= m
<1>1. \E n \in T : \A m \in T : n <= m
  BY LeastNatural
<1> QED BY <1>1 DEF Min

(* The smaller of two sizes. *)
LEMMA MinOfTwo ==
    ASSUME NEW x \in Nat, NEW y \in Nat
    PROVE  Min({x, y}) = IF x <= y THEN x ELSE y
<1>1. Min({x, y}) \in {x, y} /\ \A m \in {x, y} : Min({x, y}) <= m
  BY MinIsLeast
<1> QED BY <1>1

(* open() returns the lowest descriptor that is free. *)
LEMMA FreshIsFree ==
    ASSUME DescriptorLeft
    PROVE  fresh \in Descriptors /\ fresh \notin fds /\ \A e \in Free : fresh <= e
<1>1. Free # {}
  BY FS_EmptySet DEF DescriptorLeft
<1>2. Free \subseteq Nat
  BY FileIOAssumption DEF FileIOAssumption, Free
<1>3. fresh \in Free /\ \A e \in Free : fresh <= e
  BY <1>1, <1>2, MinIsLeast DEF fresh
<1> QED BY <1>3 DEF Free

(* One is left after it has been handed out. *)
LEMMA AnotherIsFree ==
    ASSUME SupportedUsage, DescriptorLeft
    PROVE  Free \ {fresh} # {}
<1> SUFFICES ASSUME Free \ {fresh} = {} PROVE FALSE
  OBVIOUS
<1>1. Cardinality(Free) > 1
  BY DEF SupportedUsage, DescriptorLeft, Allowed
<1>2. Free = {} \/ Free = {fresh}
  OBVIOUS
<1>3. Cardinality({}) = 0 /\ Cardinality({fresh}) = 1
  BY FS_EmptySet, FS_Singleton, Zenon
<1>4. Cardinality(Free) = 0 \/ Cardinality(Free) = 1
  BY <1>2, <1>3, Zenon
<1> QED BY <1>1, <1>4

-----------------------------------------------------------------------------
(* The table.                                                              *)
TableInv == TableOK /\ HandlesOpen

LEMMA TableInit == Init => TableInv
  BY DEF Init, TableInv, TableOK, HandlesOpen, HandleKeepsItsPath, NoUnlink

LEMMA TableStep ==
    ASSUME TableInv, [Next]_vars PROVE TableInv'
<1> USE DEF TableInv
<1>1. NoPath \notin Paths /\ -1 \notin Descriptors
  BY FileIOAssumption DEF FileIOAssumption
<1>2. ASSUME NEW p \in Paths, Opened(p), DescriptorLeft PROVE TableInv'
  <2> PICK d : d = fresh
    OBVIOUS
  <2>1. d \in Descriptors /\ d \notin fds
    BY <1>2, FreshIsFree
  <2>2. /\ fds' = fds \cup {d} /\ unlinking' = unlinking
        /\ fileInfoPath_' = [fileInfoPath_ EXCEPT ![d] = p]
        /\ handles' = [handles EXCEPT ![d] = p]
    BY <1>2 DEF Opened, createFileInfo
  <2>3. TableOK'
    BY <2>1, <2>2 DEF TableOK, NoUnlink
  <2>4. HandlesOpen'
    BY <1>1, <2>1, <2>2 DEF TableOK, HandlesOpen, HandleKeepsItsPath, NoUnlink
  <2> QED BY <2>3, <2>4
<1>3. ASSUME UNCHANGED <<fds, fileInfoPath_, handles, unlinking>> PROVE TableInv'
  BY <1>3 DEF TableOK, HandlesOpen, HandleKeepsItsPath, NoUnlink
<1>4. ASSUME NEW p \in Paths, Create(p) PROVE TableInv'
  BY <1>2, <1>4 DEF Create
<1>5. ASSUME NEW p \in Paths, Open(p) PROVE TableInv'
  BY <1>2, <1>5 DEF Open
<1>6. ASSUME NEW p \in Paths, StatStart(p) PROVE TableInv'
  BY <1>3, <1>6 DEF StatStart
<1>7. ASSUME NEW p \in Paths, UnlinkStart(p) PROVE TableInv'
  <2> PICK d : d = fresh
    OBVIOUS
  <2>1. d \in Descriptors /\ d \notin fds
    BY <1>7, FreshIsFree DEF UnlinkStart
  <2>2. /\ fds' = fds \cup {d} /\ handles' = handles
        /\ unlinking' = [path |-> p, fd |-> d, closed |-> FALSE]
        /\ fileInfoPath_' = [fileInfoPath_ EXCEPT ![d] = p]
    BY <1>7 DEF UnlinkStart, createFileInfo
  <2>3. TableOK'
    BY <2>1, <2>2 DEF TableOK, NoUnlink
  <2>4. handles[d] = NoPath
    BY <2>1 DEF HandlesOpen, TableOK
  <2>5. HandlesOpen'
    BY <2>1, <2>2, <2>4 DEF TableOK, HandlesOpen, HandleKeepsItsPath
  <2> QED BY <2>3, <2>5
<1>8. ASSUME NEW h \in Descriptors, Release(h) PROVE TableInv'
  <2>1. /\ fds' = fds /\ unlinking' = unlinking
        /\ fileInfoPath_' = [fileInfoPath_ EXCEPT ![h] = NoPath]
        /\ handles' = [handles EXCEPT ![h] = NoPath]
    BY <1>8 DEF Release, destroyFileInfo
  <2>2. TableOK'
    BY <2>1 DEF TableOK, NoUnlink
  <2>3. HandlesOpen'
    BY <2>1 DEF TableOK, HandlesOpen, HandleKeepsItsPath, NoUnlink
  <2> QED BY <2>2, <2>3
<1>9. ASSUME NEW h \in Descriptors, NEW offset, NEW n, Write(h, offset, n)
      PROVE  TableInv'
  BY <1>3, <1>9 DEF Write, Exit
<1>10. ASSUME NEW h \in Descriptors, NEW offset, NEW n, Read(h, offset, n)
       PROVE  TableInv'
  BY <1>3, <1>10 DEF Read, Exit
<1>11. ASSUME StatEnd PROVE TableInv'
  BY <1>3, <1>11 DEF StatEnd, Exit
<1>12. ASSUME UnlinkClose PROVE TableInv'
  <2>1. CASE Exit
    BY <1>3, <2>1 DEF Exit
  <2>2. CASE ~Exit
    <3>1. /\ fds' = fds \ {unlinking.fd}
          /\ unlinking' = [unlinking EXCEPT !.closed = TRUE]
          /\ UNCHANGED <<fileInfoPath_, handles>>
          /\ unlinking # NoUnlink /\ ~unlinking.closed
      BY <1>12, <2>2 DEF UnlinkClose
    <3>2. TableOK'
      BY <3>1 DEF TableOK, NoUnlink
    <3>3. HandlesOpen'
      BY <3>1 DEF TableOK, HandlesOpen, HandleKeepsItsPath
    <3> QED BY <3>2, <3>3
  <2> QED BY <2>1, <2>2
<1>13. ASSUME UnlinkEnd PROVE TableInv'
  <2>1. unlinking' = NoUnlink /\ UNCHANGED <<fds, fileInfoPath_, handles>>
    BY <1>13 DEF UnlinkEnd
  <2> QED BY <2>1 DEF TableOK, HandlesOpen, HandleKeepsItsPath, NoUnlink
<1>14. ASSUME Remount PROVE TableInv'
  BY <1>14 DEF Remount, TableOK, HandlesOpen, HandleKeepsItsPath, NoUnlink
<1>15. CASE UNCHANGED vars
  BY <1>3, <1>15 DEF vars
<1> QED BY <1>4, <1>5, <1>6, <1>7, <1>8, <1>9, <1>10, <1>11, <1>12, <1>13, <1>14,
           <1>15 DEF Next

(* Whatever users do and in whatever order threads open, close and remove  *)
(* files, a handle finds the file it was opened for: no_cache.cc is asked  *)
(* by descriptor, and descriptors are handed out again.                    *)
THEOREM HandleKeepsItsPathHolds == Spec => []HandleKeepsItsPath
<1>1. TableInv => HandleKeepsItsPath
  BY DEF TableInv, HandlesOpen
<1>2. TableInv /\ [Next]_vars => TableInv'
  BY TableStep
<1> QED BY <1>1, <1>2, TableInit, PTL DEF Spec

-----------------------------------------------------------------------------
(* Blocks and the bytes in them: arithmetic.                               *)

(* Comparing multiples. *)
LEMMA MultiplesCompare ==
    ASSUME NEW D \in Nat \ {0}, NEW x \in Int, NEW y \in Int
    PROVE  (x * D < y * D <=> x < y) /\ (x * D <= y * D <=> x <= y)
<1>1. ASSUME x < y PROVE x * D + D <= y * D
  <2>1. PICK z \in Nat : y = x + 1 + z
    BY <1>1
  <2>2. y * D = x * D + D + z * D
    BY <2>1
  <2>3. z * D >= 0
    OBVIOUS
  <2> QED BY <2>2, <2>3
<1>2. ASSUME y < x PROVE y * D + D <= x * D
  <2>1. PICK z \in Nat : x = y + 1 + z
    BY <1>2
  <2>2. x * D = y * D + D + z * D
    BY <2>1
  <2>3. z * D >= 0
    OBVIOUS
  <2> QED BY <2>2, <2>3
<1>3. x * D \in Int /\ y * D \in Int
  OBVIOUS
<1>4. CASE x < y
  BY <1>1, <1>3, <1>4
<1>5. CASE y < x
  BY <1>2, <1>3, <1>5
<1>6. CASE x = y
  BY <1>3, <1>6
<1> QED BY <1>4, <1>5, <1>6

(* Quotient and remainder. *)
LEMMA DivMod ==
    ASSUME NEW D \in Nat \ {0}, NEW j \in Nat
    PROVE  /\ j \div D \in Nat /\ j % D \in 0 .. D - 1
           /\ j = (j \div D) * D + (j % D)
  OBVIOUS

LEMMA DivOfSum ==
    ASSUME NEW D \in Nat \ {0}, NEW q \in Nat, NEW u \in 0 .. D - 1
    PROVE  (q * D + u) \div D = q /\ (q * D + u) % D = u
<1>1. PICK j \in Nat : j = q * D + u
  OBVIOUS
<1>2. PICK x, v : x = j \div D /\ v = j % D
  OBVIOUS
<1>3. x \in Nat /\ v \in 0 .. D - 1 /\ j = x * D + v
  BY <1>2, DivMod
<1>4. x * D < (q + 1) * D /\ q * D < (x + 1) * D
  BY <1>1, <1>3
<1>5. x < q + 1 /\ q < x + 1
  BY <1>3, <1>4, MultiplesCompare
<1> QED BY <1>1, <1>2, <1>3, <1>5

LEMMA Multiple ==
    ASSUME NEW D \in Nat \ {0}, NEW j \in Nat
    PROVE  /\ (j * D) \div D = j /\ (j * D) % D = 0
           /\ j % D = 0 => \E q \in Nat : j = q * D
<1>1. 0 \in 0 .. D - 1 /\ j * D + 0 = j * D
  OBVIOUS
<1>2. (j * D + 0) \div D = j /\ (j * D + 0) % D = 0
  BY <1>1, DivOfSum
<1>3. ASSUME j % D = 0 PROVE \E q \in Nat : j = q * D
  <2>1. PICK q : q = j \div D
    OBVIOUS
  <2>2. q \in Nat /\ j = q * D + 0
    BY <1>3, <2>1, DivMod
  <2>3. j = q * D
    BY <2>2
  <2> QED BY <2>2, <2>3
<1> QED BY <1>1, <1>2, <1>3

LEMMA DivBelow ==
    ASSUME NEW D \in Nat \ {0}, NEW j \in Nat, NEW q \in Nat
    PROVE  j < q * D <=> j \div D < q
<1>1. PICK x, v : x = j \div D /\ v = j % D
  OBVIOUS
<1>2. x \in Nat /\ v \in 0 .. D - 1 /\ j = x * D + v
  BY <1>1, DivMod
<1>3. j < q * D => x < q
  <2>1. x * D <= j
    BY <1>2
  <2> QED BY <1>2, <2>1, MultiplesCompare
<1>4. x < q => j < q * D
  <2>1. x < q => (x + 1) * D <= q * D
    BY <1>2, MultiplesCompare
  <2>2. j < (x + 1) * D
    BY <1>2
  <2> QED BY <1>2, <2>1, <2>2
<1> QED BY <1>1, <1>3, <1>4

-----------------------------------------------------------------------------
(* The loop of ncfs_write.                                                 *)
StartOf(m, offset) ==
    [block |-> block, used |-> used, buf |-> bigtempbuf, counter |-> bigtempbuf_counter,
     offset |-> offset, size |-> m.size, info |-> m.info, full |-> FALSE]

Turns(f, m, w, offset, n) ==
    f = [i \in 0 .. Pieces(n) |-> IF i = 0 THEN StartOf(m, offset)
                                  ELSE OnePiece(f[i - 1], w, offset, n, i - 1)]

(* The recursive function of the loop exists, turn by turn. *)
LEMMA LoopRuns ==
    ASSUME NEW m, NEW w, NEW offset, NEW n, Pieces(n) \in Nat
    PROVE  \E f : Turns(f, m, w, offset, n) /\ Written(m, w, offset, n) = f[Pieces(n)]
<1> DEFINE Sol(f, k) ==
             f = [i \in 0 .. k |-> IF i = 0 THEN StartOf(m, offset)
                                   ELSE OnePiece(f[i - 1], w, offset, n, i - 1)]
           Without == {k \in Nat : ~ \E f : Sol(f, k)}
<1>1. \A k \in Nat : \E f : Sol(f, k)
  <2> SUFFICES ASSUME Without # {} PROVE FALSE
    OBVIOUS
  <2>1. PICK k \in Without : \A l \in Without : k <= l
    BY LeastNatural
  <2>2. k # 0
    <3>1. Sol([i \in 0 .. 0 |-> StartOf(m, offset)], 0)
      OBVIOUS
    <3> QED BY <2>1, <3>1
  <2>3. k - 1 \in Nat /\ k - 1 \notin Without
    <3>1. k \in Nat /\ k - 1 \in Nat
      BY <2>1, <2>2
    <3> HIDE DEF Without
    <3> QED BY <2>1, <3>1
  <2>4. PICK f : Sol(f, k - 1)
    BY <2>3
  <2>5. Sol([i \in 0 .. k |-> IF i = k THEN OnePiece(f[k - 1], w, offset, n, k - 1)
                              ELSE f[i]], k)
    BY <2>2, <2>3, <2>4
  <2> QED BY <2>1, <2>5
<1>2. PICK f : Sol(f, Pieces(n))
  BY <1>1
<1>3. Written(m, w, offset, n) = (CHOOSE g : Sol(g, Pieces(n)))[Pieces(n)]
  BY DEF Written, StartOf
<1>4. Sol(CHOOSE g : Sol(g, Pieces(n)), Pieces(n))
  BY <1>2
<1> QED BY <1>3, <1>4 DEF Turns

(* What the loop runs over, and what it keeps: blocks handed out before it *)
(* are as they were, those of the file have been handed out.               *)
Bytes == (0 .. MaxWrites) \X (0 .. MaxLength)

LoopRecord ==
    [block : [0 .. NumBlocks - 1 -> [Units -> Bytes]], used : used .. NumBlocks,
     buf : [Units -> Bytes], counter : Nat, offset : Nat, size : NoSize .. MaxLength,
     info : [Indexes -> 0 .. NumBlocks - 1], full : BOOLEAN]

SSize(s) == IF s.size = NoSize THEN 0 ELSE s.size
SByte(s, j) == s.block[s.info[j \div disk_block_size]][j % disk_block_size]

LoopOK(s) ==
    /\ s \in LoopRecord
    /\ \A b \in 0 .. used - 1 : s.block[b] = block[b]
    /\ \A x \in Indexes : x * disk_block_size < SSize(s) => s.info[x] < s.used

(* encode() of the block that continues or replaces the file from the      *)
(* beginning of block q on.                                                *)
LEMMA EncodedBytes ==
    ASSUME NEW s, LoopOK(s), s.used # NumBlocks, TypeOK,
           NEW q \in Nat, q * disk_block_size <= SSize(s),
           NEW len \in 1 .. disk_block_size, q * disk_block_size + len <= MaxLength,
           NEW buf, \A u \in 0 .. len - 1 : buf[u] \in Bytes,
           NEW t, t = Encoded(s, buf, len, q, q * disk_block_size + len)
    PROVE  /\ LoopOK(t)
           /\ t.used = s.used + 1 /\ t.size = q * disk_block_size + len
           /\ t.buf = s.buf /\ t.counter = s.counter /\ t.offset = s.offset
           /\ t.full = s.full
           /\ \A j \in 0 .. q * disk_block_size - 1 : SByte(t, j) = SByte(s, j)
           /\ \A j \in 0 .. len - 1 : SByte(t, q * disk_block_size + j) = buf[j]
<1>1. PICK D : D = disk_block_size
  OBVIOUS
<1>2. D \in Nat \ {0}
  BY <1>1, FileIOAssumption DEF FileIOAssumption, TypeOK
<1>3. PICK z : z = q * D
  OBVIOUS
<1>4. z \in Nat /\ z <= SSize(s) /\ z + len <= MaxLength /\ len \in 1 .. D
  BY <1>1, <1>2, <1>3
<1>5. MaxLength \in Nat /\ NumBlocks \in Nat
  BY FileIOAssumption DEF FileIOAssumption
<1>6. used \in Nat /\ s.used \in 0 .. NumBlocks - 1 /\ used <= s.used
  BY <1>5 DEF LoopOK, LoopRecord, TypeOK
<1>7. q \in Indexes
  <2>1. q * 1 <= q * D
    BY <1>2
  <2> QED BY <2>1, <1>3, <1>4, <1>5 DEF Indexes
<1>8. /\ t = [s EXCEPT !.block[s.used] = [u \in Units |-> IF u < len THEN buf[u] ELSE @[u]],
                       !.used = @ + 1, !.info[q] = s.used, !.size = z + len]
  BY <1>1, <1>3 DEF Encoded
<1>9. /\ t.block = [s.block EXCEPT ![s.used] = [u \in Units |-> IF u < len THEN buf[u] ELSE s.block[s.used][u]]]
      /\ t.used = s.used + 1 /\ t.info = [s.info EXCEPT ![q] = s.used]
      /\ t.size = z + len
      /\ t.buf = s.buf /\ t.counter = s.counter /\ t.offset = s.offset /\ t.full = s.full
  BY <1>8 DEF LoopOK, LoopRecord
<1>10. [u \in Units |-> IF u < len THEN buf[u] ELSE s.block[s.used][u]] \in [Units -> Bytes]
  <2>1. Units = 0 .. D - 1
    BY <1>1 DEF Units
  <2>2. s.block[s.used] \in [Units -> Bytes]
    BY <1>6 DEF LoopOK, LoopRecord
  <2>3. \A u \in Units : u < len => u \in 0 .. len - 1
    BY <1>2, <1>4, <2>1
  <2> QED BY <2>2, <2>3
<1>20. PICK nb : nb = [u \in Units |-> IF u < len THEN buf[u] ELSE s.block[s.used][u]]
  OBVIOUS
<1>21. t.block = [s.block EXCEPT ![s.used] = nb]
  BY <1>9, <1>20
<1>11. t \in LoopRecord
  <2>1. t.block \in [0 .. NumBlocks - 1 -> [Units -> Bytes]]
    BY <1>6, <1>9, <1>10, ZenonT(30) DEF LoopOK, LoopRecord
  <2>2. t.info \in [Indexes -> 0 .. NumBlocks - 1]
    BY <1>6, <1>9 DEF LoopOK, LoopRecord
  <2>3. t.used \in used .. NumBlocks /\ t.size \in NoSize .. MaxLength
    BY <1>4, <1>5, <1>6, <1>9 DEF NoSize
  <2>4. t = [block |-> t.block, used |-> t.used, buf |-> t.buf, counter |-> t.counter,
             offset |-> t.offset, size |-> t.size, info |-> t.info, full |-> t.full]
    BY <1>8 DEF LoopOK, LoopRecord
  <2>5. /\ t.buf \in [Units -> Bytes] /\ t.counter \in Nat /\ t.offset \in Nat
        /\ t.full \in BOOLEAN
    BY <1>9 DEF LoopOK, LoopRecord
  <2> QED BY <2>1, <2>2, <2>3, <2>4, <2>5 DEF LoopRecord
<1>12. SSize(t) = z + len
  BY <1>4, <1>9 DEF SSize, NoSize
<1>13. \A x \in Indexes : x * D < z + len => x = q \/ (x < q /\ x * D < SSize(s))
  <2> SUFFICES ASSUME NEW x \in Nat, x * D < z + len
               PROVE  x = q \/ (x < q /\ x * D < SSize(s))
    BY DEF Indexes
  <2>1. (q + 1) * D = z + D
    BY <1>2, <1>3
  <2>2. x * D \in Int /\ SSize(s) \in Int
    BY <1>2, <1>5 DEF SSize, LoopOK, LoopRecord, NoSize
  <2>3. x * D < (q + 1) * D
    BY <1>2, <1>4, <2>1, <2>2
  <2>4. x < q + 1
    BY <1>2, <2>3, MultiplesCompare
  <2>5. x < q => x * D < q * D
    BY <1>2, MultiplesCompare
  <2> QED BY <1>3, <1>4, <2>2, <2>4, <2>5
<1>14. \A x \in Indexes : x * D < z + len => t.info[x] < t.used
  BY <1>1, <1>6, <1>9, <1>13 DEF LoopOK, LoopRecord
<1>15. \A b \in 0 .. used - 1 : t.block[b] = block[b]
  BY <1>5, <1>6, <1>9, SMTT(30) DEF LoopOK, LoopRecord
<1>16. LoopOK(t)
  BY <1>1, <1>11, <1>12, <1>14, <1>15 DEF LoopOK
<1>19. /\ s.block \in [0 .. NumBlocks - 1 -> [Units -> Bytes]]
       /\ s.info \in [Indexes -> 0 .. NumBlocks - 1]
  BY DEF LoopOK, LoopRecord
<1>17. ASSUME NEW j \in 0 .. z - 1 PROVE SByte(t, j) = SByte(s, j)
  <2>1. PICK x, u : x = j \div D /\ u = j % D
    OBVIOUS
  <2>0. j \in Nat /\ j < z
    BY <1>4
  <2>2. x \in Nat /\ u \in 0 .. D - 1 /\ j = x * D + u /\ x < q
    BY <1>2, <1>3, <2>0, <2>1, DivMod, DivBelow
  <2>3. x \in Indexes
    BY <1>5, <1>7, <2>2 DEF Indexes
  <2>4. x * D < SSize(s)
    <3>1. x * D \in Int /\ x * D <= j
      BY <1>2, <2>0, <2>2
    <3>2. SSize(s) \in Int
      BY <1>5 DEF SSize, LoopOK, LoopRecord, NoSize
    <3> QED BY <1>4, <2>0, <3>1, <3>2
  <2>5. s.info[x] < s.used /\ s.info[x] \in 0 .. NumBlocks - 1
    BY <1>1, <2>3, <2>4 DEF LoopOK, LoopRecord
  <2>6. t.info[x] = s.info[x]
    BY <1>9, <2>2, <2>3 DEF LoopOK, LoopRecord
  <2>7. t.block[s.info[x]] = s.block[s.info[x]]
    BY <1>5, <1>6, <1>19, <1>21, <2>5, SMTT(30)
  <2> QED BY <1>1, <2>1, <2>6, <2>7 DEF SByte
<1>18. ASSUME NEW j \in 0 .. len - 1 PROVE SByte(t, z + j) = buf[j]
  <2>1. j \in 0 .. D - 1
    BY <1>2, <1>4
  <2>2. (z + j) \div D = q /\ (z + j) % D = j
    BY <1>2, <1>3, <2>1, DivOfSum
  <2>3. t.info[q] = s.used
    BY <1>7, <1>9 DEF LoopOK, LoopRecord
  <2>4. t.block[s.used] = [u \in Units |-> IF u < len THEN buf[u] ELSE s.block[s.used][u]]
    BY <1>6, <1>19, <1>20, <1>21
  <2>5. t.block[s.used][j] = buf[j]
    BY <1>1, <1>2, <1>4, <2>1, <2>4 DEF Units
  <2> QED BY <1>1, <2>2, <2>3, <2>5 DEF SByte
<1> QED BY <1>1, <1>3, <1>9, <1>16, <1>17, <1>18

(* A write that users make, and what it comes to: byte j of the file after *)
(* the first m bytes of the request.                                       *)
WriteOK(p, offset, n) ==
    /\ FInv /\ SupportedUsage
    /\ p \in Paths /\ Exists(p) /\ offset \in Nat /\ n \in Nat \ {0}
    /\ offset + n <= MaxLength /\ writes < MaxWrites
    /\ WriteAllowed(p, offset, n)

Was(p, j) == IF j < SizeOf(p) THEN Byte(meta[p], j) ELSE bigtempbuf[j - SizeOf(p)]

Effect(r, p, offset, n, m) ==
    /\ LoopOK(r)
    /\ offset <= Length(p) /\ Length(p) <= offset + m
    /\ r.full <=> m # n
    /\ r.used = used => r.size = meta[p].size /\ r.info = meta[p].info
    /\ r.size = NoSize => meta[p].size = NoSize
    /\ r.counter \in 1 .. bigtempbuf_maxcount
    /\ SSize(r) + (bigtempbuf_maxcount - r.counter) * sysblocksize = offset + m
    /\ usebigblock => SSize(r) % disk_block_size = 0
    /\ \A j \in 0 .. offset + m - 1 :
          (IF j < SSize(r) THEN SByte(r, j) ELSE r.buf[j - SSize(r)])
            = IF j < offset THEN Was(p, j) ELSE <<writes + 1, j>>

LEMMA Geometry ==
    ASSUME TypeOK
    PROVE  /\ disk_block_size \in Nat \ {0} /\ sysblocksize \in Nat \ {0}
           /\ MaxLength \in Nat /\ NumBlocks \in Nat \ {0} /\ MaxWrites \in Nat
           /\ NoPath \notin Paths
           /\ bigtempbuf_maxcount \in Nat \ {0}
           /\ usebigblock => bigtempbuf_maxcount * sysblocksize = disk_block_size
           /\ ~usebigblock => bigtempbuf_maxcount = 1
<1>1. /\ disk_block_size \in Nat \ {0} /\ sysblocksize \in Nat \ {0}
      /\ disk_block_size > sysblocksize => disk_block_size % sysblocksize = 0
      /\ MaxLength \in Nat /\ NumBlocks \in Nat \ {0} /\ MaxWrites \in Nat
      /\ NoPath \notin Paths
  <2>1. PICK g \in Geometries : g = <<disk_block_size, sysblocksize>>
    BY DEF TypeOK
  <2>2. /\ g[1] \in Nat /\ g[2] \in Nat \ {0} /\ g[1] > 0
        /\ g[1] > g[2] => g[1] % g[2] = 0
    BY FileIOAssumption DEF FileIOAssumption
  <2>3. g[1] = disk_block_size /\ g[2] = sysblocksize
    BY <2>1
  <2>4. /\ MaxLength \in Nat /\ NumBlocks \in Nat \ {0} /\ MaxWrites \in Nat
        /\ NoPath \notin Paths
    BY FileIOAssumption DEF FileIOAssumption
  <2> QED BY <2>2, <2>3, <2>4
<1>2. CASE usebigblock
  <2>1. PICK D, S, K : D = disk_block_size /\ S = sysblocksize /\ K = D \div S
    OBVIOUS
  <2>2. D \in Nat \ {0} /\ S \in Nat \ {0} /\ D > S /\ D % S = 0
    BY <1>1, <1>2, <2>1 DEF usebigblock
  <2>3. K \in Nat /\ D = K * S
    BY <2>1, <2>2, DivMod
  <2>4. K # 0
    BY <2>2, <2>3
  <2>5. bigtempbuf_maxcount = K
    BY <1>2, <2>1 DEF bigtempbuf_maxcount
  <2> QED BY <1>1, <1>2, <2>1, <2>3, <2>4, <2>5
<1>3. CASE ~usebigblock
  BY <1>1, <1>3 DEF bigtempbuf_maxcount
<1> QED BY <1>2, <1>3

(* The record the loop begins with. *)
Begins(s, p, offset) ==
    /\ LoopOK(s) /\ s.used = used /\ s.size = meta[p].size
    /\ s.info = meta[p].info /\ s.full = FALSE /\ s.offset = offset
    /\ s.counter = bigtempbuf_counter /\ s.buf = bigtempbuf
    /\ SSize(s) = SizeOf(p)
    /\ \A j \in 0 .. SizeOf(p) - 1 : SByte(s, j) = Was(p, j)

LEMMA StartOK ==
    ASSUME NEW p, NEW offset, NEW n, WriteOK(p, offset, n)
    PROVE  Begins(StartOf(meta[p], offset), p, offset)
<1> DEFINE s == StartOf(meta[p], offset)
<1>1. /\ s.used = used /\ s.size = meta[p].size /\ s.block = block
      /\ s.info = meta[p].info /\ s.full = FALSE /\ s.offset = offset
      /\ s.counter = bigtempbuf_counter /\ s.buf = bigtempbuf
  BY DEF StartOf
<1>2. SSize(s) = SizeOf(p)
  BY <1>1 DEF SSize, SizeOf
<1>3. used \in used .. NumBlocks /\ bigtempbuf_counter \in Nat
  BY Geometry DEF WriteOK, FInv, TypeOK
<1>4. meta[p].size \in NoSize .. MaxLength /\ meta[p].info \in [Indexes -> 0 .. NumBlocks - 1]
  BY DEF WriteOK, FInv, TypeOK
<1>5. block \in [0 .. NumBlocks - 1 -> [Units -> Bytes]] /\ bigtempbuf \in [Units -> Bytes]
  BY DEF WriteOK, FInv, TypeOK, Bytes
<1>6. s \in LoopRecord
  BY <1>3, <1>4, <1>5 DEF StartOf, LoopRecord, WriteOK
<1>7. \A x \in Indexes : x * disk_block_size < SSize(s) => s.info[x] < s.used
  BY <1>1, <1>2 DEF WriteOK, FInv, BlocksHeld
<1>8. LoopOK(s)
  BY <1>1, <1>6, <1>7 DEF LoopOK
<1>9. \A j \in 0 .. SizeOf(p) - 1 : SByte(s, j) = Was(p, j)
  <2>1. SizeOf(p) \in Nat
    BY <1>4, Geometry DEF SizeOf, NoSize, WriteOK, FInv
  <2> QED BY <1>1, <2>1 DEF SByte, Was, Byte
<1> QED BY <1>1, <1>2, <1>8, <1>9 DEF Begins

(* Without big blocks: what i turns have come to, and the turn that finds  *)
(* the disks full.                                                         *)
PlainAt(s, p, offset, n, i) ==
    /\ LoopOK(s)
    /\ s.used = used + i /\ s.counter = bigtempbuf_counter
    /\ i = 0 => s.size = meta[p].size /\ s.info = meta[p].info
    /\ i # 0 => s.size = offset + (IF i * disk_block_size <= n THEN i * disk_block_size ELSE n)
    /\ \A j \in 0 .. SSize(s) - 1 :
          SByte(s, j) = IF j < offset \/ i = 0 THEN Was(p, j) ELSE <<writes + 1, j>>

PlainInv(s, p, offset, n, i) ==
    \E j \in 0 .. i : /\ PlainAt(s, p, offset, n, j)
                      /\ s.full => j < i /\ used + j = NumBlocks
                      /\ ~s.full => j = i

(* The number of pieces, and the size of each. *)
LEMMA PiecesCover ==
    ASSUME TypeOK, NEW n \in Nat \ {0}
    PROVE  /\ Piece \in Nat \ {0} /\ Pieces(n) \in Nat \ {0}
           /\ Pieces(n) * Piece >= n
           /\ \A i \in 0 .. Pieces(n) - 1 :
                 /\ i * Piece < n
                 /\ PieceSize(n, i) = IF Piece <= n - i * Piece THEN Piece ELSE n - i * Piece
<1>1. PICK P, k : P = Piece /\ k = Pieces(n)
  OBVIOUS
<1>2. P \in Nat \ {0}
  BY <1>1, Geometry DEF Piece
<1>3. k = (n + P - 1) \div P
  BY <1>1 DEF Pieces
<1>4. n + P - 1 \in Nat
  BY <1>2
<1>5. PICK rest \in 0 .. P - 1 : n + P - 1 = k * P + rest
  BY <1>2, <1>3, <1>4, DivMod
<1>6. k \in Nat
  BY <1>2, <1>3, <1>4, DivMod
<1>7. k * P \in Nat /\ k * P >= n
  BY <1>2, <1>5, <1>6
<1>8. k # 0
  BY <1>2, <1>5, <1>6
<1>9. ASSUME NEW i \in 0 .. k - 1
      PROVE  /\ i * P < n
             /\ PieceSize(n, i) = IF P <= n - i * P THEN P ELSE n - i * P
  <2>1. i \in Int /\ i + 1 \in Int /\ i + 1 <= k
    BY <1>6
  <2>2. (i + 1) * P <= k * P
    BY <1>2, <1>6, <2>1, MultiplesCompare
  <2>3. (i + 1) * P = i * P + P /\ i * P \in Int
    BY <1>2, <2>1
  <2>4. i * P < n
    BY <1>2, <1>5, <1>7, <2>2, <2>3
  <2>5. P \in Nat /\ n - i * P \in Nat
    BY <1>2, <2>3, <2>4
  <2> QED BY <1>1, <2>4, <2>5, MinOfTwo DEF PieceSize
<1> QED BY <1>1, <1>2, <1>6, <1>7, <1>8, <1>9

LEMMA PlainStep ==
    ASSUME NEW p, NEW offset, NEW n, WriteOK(p, offset, n), ~usebigblock,
           NEW i \in 0 .. Pieces(n) - 1, NEW s, PlainInv(s, p, offset, n, i)
    PROVE  PlainInv(OnePiece(s, writes + 1, offset, n, i), p, offset, n, i + 1)
<1>1. PICK t : t = OnePiece(s, writes + 1, offset, n, i)
  OBVIOUS
<1>2. PICK j \in 0 .. i : /\ PlainAt(s, p, offset, n, j)
                          /\ s.full => j < i /\ used + j = NumBlocks
                          /\ ~s.full => j = i
  BY DEF PlainInv
<1>3. PICK D : D = disk_block_size
  OBVIOUS
<1>4. TypeOK /\ offset \in Nat /\ n \in Nat \ {0} /\ offset + n <= MaxLength
  BY DEF WriteOK, FInv
<1>5. D \in Nat \ {0} /\ Piece = D
  BY <1>3, <1>4, Geometry DEF Piece
<1>6. /\ i \in Nat /\ i * D < n
      /\ PieceSize(n, i) = IF D <= n - i * D THEN D ELSE n - i * D
  BY <1>4, <1>5, PiecesCover
<1>7. CASE s.full
  <2>1. t = s
    BY <1>1, <1>7 DEF OnePiece
  <2> QED BY <1>1, <1>2, <1>6, <1>7, <2>1 DEF PlainInv
<1>8. CASE ~s.full
  <2>1. j = i /\ LoopOK(s)
    BY <1>2, <1>8 DEF PlainAt
  <2>2. PICK at, len, buf : /\ at = offset + i * D /\ len = PieceSize(n, i)
                            /\ buf = [u \in Units |-> <<writes + 1, at + u>>]
    OBVIOUS
  <2>3. t = Encoded(s, buf, len, at \div D, at + len)
    BY <1>1, <1>3, <1>5, <1>8, <2>2 DEF OnePiece, PlainPiece
  <2>4. CASE s.used = NumBlocks
    <3>1. t = [s EXCEPT !.full = TRUE]
      BY <2>3, <2>4 DEF Encoded
    <3>2. /\ t.block = s.block /\ t.used = s.used /\ t.buf = s.buf
          /\ t.counter = s.counter /\ t.size = s.size /\ t.info = s.info
          /\ t.full = TRUE /\ t \in LoopRecord
      BY <2>1, <3>1 DEF LoopOK, LoopRecord
    <3>3. LoopOK(t)
      BY <2>1, <3>2 DEF LoopOK, SSize
    <3>4. PlainAt(t, p, offset, n, i)
      BY <1>2, <2>1, <3>2, <3>3 DEF PlainAt, SSize, SByte
    <3>5. used + i = NumBlocks
      BY <1>2, <2>1, <2>4 DEF PlainAt
    <3> QED BY <1>1, <1>6, <3>2, <3>4, <3>5 DEF PlainInv
  <2>5. CASE s.used # NumBlocks
    <3>1. PICK q0 \in Nat : offset = q0 * D
      <4>1. offset % D = 0
        BY <1>3, <1>5 DEF SupportedUsage, WriteOK, WriteAllowed, Allowed
      <4> QED BY <1>4, <1>5, <4>1, Multiple
    <3>2. PICK q \in Nat : q = q0 + i
      BY <1>6
    <3>3. i * D \in Nat /\ q * D = offset + i * D
      BY <1>5, <1>6, <3>1, <3>2
    <3>4. at \in Nat /\ at = q * D /\ at \div D = q
      <4>1. (q * D) \div D = q
        BY <1>5, Multiple
      <4> QED BY <1>4, <2>2, <3>3, <4>1
    <3>5. /\ len \in 1 .. D /\ at + len <= MaxLength
          /\ len = IF D <= n - i * D THEN D ELSE n - i * D
      BY <1>4, <1>5, <1>6, <2>2, <3>3, Geometry
    <3>6. at <= SSize(s)
      <4>1. CASE i = 0
        <5>1. SSize(s) = SizeOf(p) /\ at = offset
          BY <1>2, <1>4, <1>5, <2>1, <2>2, <4>1 DEF PlainAt, SSize, SizeOf
        <5>2. owner # p
          <6>1. bigtempbuf_maxcount = 1
            BY <1>4, Geometry
          <6> QED BY <6>1, Geometry DEF WriteOK, FInv, BufferOK
        <5>3. SizeOf(p) = Length(p) /\ Length(p) \in Nat
          <6>1. SizeOf(p) \in Nat
            BY <1>4, Geometry DEF SizeOf, NoSize, WriteOK, TypeOK
          <6> QED BY <5>2, <6>1 DEF Length, SizeOf, Buffered
        <5>4. offset = Length(p) \/ offset < Length(p)
          BY DEF SupportedUsage, WriteOK, WriteAllowed, Allowed
        <5> QED BY <5>1, <5>3, <5>4, <1>4
      <4>2. CASE i # 0
        <5>1. s.size = offset + i * D
          BY <1>2, <1>3, <1>4, <1>6, <2>1, <3>3, <4>2 DEF PlainAt
        <5> QED BY <1>4, <2>2, <3>3, <5>1 DEF SSize, NoSize
      <4> QED BY <4>1, <4>2
    <3>7. \A u \in 0 .. len - 1 : buf[u] = <<writes + 1, at + u>> /\ buf[u] \in Bytes
      <4> SUFFICES ASSUME NEW u \in 0 .. len - 1
                   PROVE  buf[u] = <<writes + 1, at + u>> /\ buf[u] \in Bytes
        OBVIOUS
      <4>1. u \in Units
        BY <1>3, <1>5, <3>5 DEF Units
      <4>2. at + u \in 0 .. MaxLength
        BY <1>4, <3>4, <3>5, Geometry
      <4>3. writes + 1 \in 0 .. MaxWrites
        BY <1>4, Geometry, SMTT(30) DEF WriteOK, TypeOK
      <4> QED BY <2>2, <4>1, <4>2, <4>3 DEF Bytes
    <3>8. /\ LoopOK(t)
          /\ t.used = s.used + 1 /\ t.size = at + len
          /\ t.counter = s.counter /\ t.full = s.full
          /\ \A x \in 0 .. at - 1 : SByte(t, x) = SByte(s, x)
          /\ \A x \in 0 .. len - 1 : SByte(t, at + x) = buf[x]
      BY <1>3, <1>4, <2>1, <2>3, <2>5, <3>4, <3>5, <3>6, <3>7, EncodedBytes
    <3>9. (i + 1) * D = i * D + D
      BY <1>5, <1>6
    <3>10. t.size = offset + (IF (i + 1) * D <= n THEN (i + 1) * D ELSE n)
      BY <1>4, <1>5, <2>2, <3>3, <3>5, <3>8, <3>9
    <3>11. t.used = used + (i + 1)
      <4>1. used \in Nat
        BY <1>4, Geometry DEF TypeOK
      <4> QED BY <1>2, <1>6, <2>1, <3>8, <4>1 DEF PlainAt
    <3>12. ASSUME NEW x \in 0 .. SSize(t) - 1
           PROVE  SByte(t, x) = IF x < offset THEN Was(p, x) ELSE <<writes + 1, x>>
      <4>1. SSize(t) = at + len
        BY <3>4, <3>5, <3>8 DEF SSize, NoSize
      <4>2. CASE x < at
        <5>1. x \in 0 .. at - 1 /\ x \in 0 .. SSize(s) - 1
          <6>1. SSize(s) \in Nat
            BY <1>4, <2>1, Geometry, SMTT(30) DEF SSize, NoSize, LoopOK, LoopRecord
          <6> QED BY <3>4, <3>6, <4>2, <6>1
        <5>2. SByte(t, x) = SByte(s, x)
          BY <3>8, <5>1
        <5>3. i = 0 => x < offset
          BY <1>4, <1>5, <2>2, <4>2
        <5> QED BY <1>2, <2>1, <5>1, <5>2, <5>3 DEF PlainAt
      <4>3. CASE ~(x < at)
        <5>1. PICK u \in 0 .. len - 1 : x = at + u
          BY <3>4, <3>5, <4>1, <4>3
        <5>2. SByte(t, x) = <<writes + 1, x>>
          BY <3>7, <3>8, <5>1
        <5>3. ~(x < offset)
          BY <1>4, <2>2, <3>3, <4>3
        <5> QED BY <5>2, <5>3
      <4> QED BY <4>2, <4>3
    <3>13. PlainAt(t, p, offset, n, i + 1)
      BY <1>2, <1>3, <1>6, <2>1, <3>8, <3>10, <3>11, <3>12 DEF PlainAt
    <3> QED BY <1>1, <1>6, <1>8, <3>8, <3>13 DEF PlainInv
  <2> QED BY <2>4, <2>5
<1> QED BY <1>7, <1>8

(* With big blocks: i pieces later the file is i system blocks longer, and *)
(* what does not fill a block is in the buffer.                            *)
BigAt(s, p, offset, n, i) ==
    /\ LoopOK(s) /\ s.full = FALSE
    /\ s.used <= used + i
    /\ s.used = used => s.size = meta[p].size /\ s.info = meta[p].info
    /\ s.size = NoSize => meta[p].size = NoSize
    /\ s.counter \in 1 .. bigtempbuf_maxcount
    /\ SSize(s) % disk_block_size = 0
    /\ SSize(s) + (bigtempbuf_maxcount - s.counter) * sysblocksize = offset + i * sysblocksize
    /\ n <= sysblocksize /\ i = 0 => s.offset = offset
    /\ n > sysblocksize => s.offset = SSize(s)
    /\ \A j \in 0 .. offset + i * sysblocksize - 1 :
          (IF j < SSize(s) THEN SByte(s, j) ELSE s.buf[j - SSize(s)])
            = IF j < offset THEN Was(p, j) ELSE <<writes + 1, j>>

(* The slots of the buffer that are taken. *)
LEMMA Slots ==
    ASSUME NEW K \in Nat \ {0}, NEW S \in Nat \ {0}, NEW c \in 1 .. K
    PROVE  /\ (K - c) * S \in Nat /\ (K - c) * S + S <= K * S
           /\ (K - (c - 1)) * S = (K - c) * S + S
           /\ c = 1 => (K - c) * S + S = K * S
           /\ (K - K) * S = 0
<1>1. PICK a \in Nat : a = K - c
  OBVIOUS
<1>2. a * S \in Nat /\ (a + 1) * S = a * S + S
  OBVIOUS
<1>3. (a + 1) * S <= K * S
  BY <1>1, MultiplesCompare
<1>4. K - (c - 1) = a + 1
  BY <1>1
<1> QED BY <1>1, <1>2, <1>3, <1>4

(* Pieces of a request that is a number of system blocks. *)
LEMMA WholePieces ==
    ASSUME TypeOK, NEW n \in Nat \ {0}, n % Piece = 0
    PROVE  /\ Pieces(n) * Piece = n
           /\ \A i \in 0 .. Pieces(n) - 1 : /\ PieceSize(n, i) = Piece
                                            /\ (i + 1) * Piece <= n
<1>1. PICK P, k : P = Piece /\ k = Pieces(n)
  OBVIOUS
<1>2. P \in Nat \ {0} /\ k \in Nat \ {0} /\ k * P >= n
  BY <1>1, PiecesCover
<1>3. PICK x \in Nat : n = x * P
  BY <1>1, <1>2, Multiple
<1>4. \A i \in 0 .. k - 1 : i * P < n
  BY <1>1, PiecesCover
<1>5. (k - 1) * P < x * P /\ k - 1 \in Int
  BY <1>2, <1>3, <1>4
<1>6. k - 1 < x
  BY <1>2, <1>5, MultiplesCompare
<1>7. x <= k
  BY <1>2, <1>3, MultiplesCompare
<1>8. x = k
  BY <1>2, <1>6, <1>7
<1>9. ASSUME NEW i \in 0 .. k - 1 PROVE PieceSize(n, i) = P /\ (i + 1) * P <= n
  <2>1. i \in Int /\ i + 1 \in Int /\ i + 1 <= k
    BY <1>2
  <2>2. (i + 1) * P <= k * P
    BY <1>2, <2>1, MultiplesCompare
  <2>3. (i + 1) * P = i * P + P /\ i * P \in Int
    BY <1>2, <2>1
  <2>4. P <= n - i * P
    BY <1>2, <1>3, <1>8, <2>2, <2>3
  <2> QED BY <1>1, <1>3, <1>8, <2>2, <2>4, PiecesCover
<1> QED BY <1>1, <1>3, <1>8, <1>9

LEMMA PlainWritten ==
    ASSUME NEW p, NEW offset, NEW n, WriteOK(p, offset, n), ~usebigblock
    PROVE  \E m \in 0 .. n :
              Effect(Written(meta[p], writes + 1, offset, n), p, offset, n, m)
<1>1. PICK D, k : D = disk_block_size /\ k = Pieces(n)
  OBVIOUS
<1>2. TypeOK /\ offset \in Nat /\ n \in Nat \ {0} /\ offset + n <= MaxLength
  BY DEF WriteOK, FInv
<1>3. D \in Nat \ {0} /\ Piece = D /\ bigtempbuf_maxcount = 1 /\ sysblocksize \in Nat
  BY <1>1, <1>2, Geometry DEF Piece
<1>4. /\ k \in Nat \ {0} /\ k * D >= n
      /\ \A i \in 0 .. k - 1 : i * D < n
  BY <1>1, <1>2, <1>3, PiecesCover
<1>5. PICK f : /\ Turns(f, meta[p], writes + 1, offset, n)
               /\ Written(meta[p], writes + 1, offset, n) = f[k]
  <2>1. Pieces(n) \in Nat
    BY <1>1, <1>4
  <2> QED BY <1>1, <2>1, LoopRuns
<1>6. f[0] = StartOf(meta[p], offset)
  BY <1>1, <1>4, <1>5 DEF Turns
<1>7. \A i \in 0 .. k - 1 : f[i + 1] = OnePiece(f[i], writes + 1, offset, n, i)
  <2> SUFFICES ASSUME NEW i \in 0 .. k - 1
               PROVE  f[i + 1] = OnePiece(f[i], writes + 1, offset, n, i)
    OBVIOUS
  <2>1. i + 1 \in 0 .. k /\ i + 1 # 0 /\ (i + 1) - 1 = i
    BY <1>4
  <2> QED BY <1>1, <1>5, <2>1 DEF Turns
<1>8. /\ SizeOf(p) \in Nat /\ Length(p) = SizeOf(p) /\ bigtempbuf_counter = 1
      /\ used \in Nat
  <2>1. owner # p /\ bigtempbuf_counter = 1
    BY <1>3, Geometry DEF WriteOK, FInv, BufferOK
  <2>2. SizeOf(p) \in Nat
    BY <1>2, Geometry DEF SizeOf, NoSize, WriteOK, TypeOK
  <2> QED BY <1>2, <2>1, <2>2, Geometry DEF Length, SizeOf, Buffered, TypeOK
<1>9. PlainInv(f[0], p, offset, n, 0)
  <2>1. PICK s : s = f[0]
    OBVIOUS
  <2>2. Begins(s, p, offset)
    BY <1>6, <2>1, StartOK
  <2>3. PlainAt(s, p, offset, n, 0)
    BY <1>8, <2>2 DEF PlainAt, Begins
  <2> QED BY <2>1, <2>2, <2>3 DEF PlainInv, Begins
<1>10. PlainInv(f[k], p, offset, n, k)
  <2> DEFINE Bad == {i \in 0 .. k : ~PlainInv(f[i], p, offset, n, i)}
  <2> SUFFICES ASSUME Bad # {} PROVE FALSE
    BY <1>4
  <2>1. PICK i \in Bad : \A x \in Bad : i <= x
    <3>1. Bad \subseteq Nat
      BY <1>4
    <3> HIDE DEF Bad
    <3> QED BY <3>1, LeastNatural
  <2>2. i \in 0 .. k /\ i # 0
    BY <1>9, <2>1
  <2>3. i - 1 \in 0 .. k - 1
    BY <1>4, <2>2
  <2>4. i - 1 \notin Bad
    <3> HIDE DEF Bad
    <3> QED BY <1>4, <2>1, <2>2
  <2>5. PlainInv(f[i - 1], p, offset, n, i - 1)
    BY <1>4, <2>3, <2>4
  <2>6. (i - 1) + 1 = i
    BY <1>4, <2>2
  <2>7. PlainInv(f[i], p, offset, n, i)
    BY <1>1, <1>7, <2>3, <2>5, <2>6, PlainStep
  <2> QED BY <2>1, <2>7
<1>11. PICK r : r = f[k]
  OBVIOUS
<1>12. PICK j \in 0 .. k : /\ PlainAt(r, p, offset, n, j)
                           /\ r.full => j < k /\ used + j = NumBlocks
                           /\ ~r.full => j = k
  BY <1>10, <1>11 DEF PlainInv
<1>13. PICK m : m = IF j * D <= n THEN j * D ELSE n
  OBVIOUS
<1>14. j \in Nat /\ j * D \in Nat /\ m \in 0 .. n
  BY <1>2, <1>3, <1>4, <1>13
<1>15. r.full <=> m # n
  <2>1. r.full \in BOOLEAN
    BY <1>12 DEF PlainAt, LoopOK, LoopRecord
  <2>2. r.full => j * D < n
    BY <1>4, <1>12, <1>14
  <2>3. ~r.full => j * D >= n
    BY <1>4, <1>12
  <2> QED BY <1>2, <1>13, <1>14, <2>1, <2>2, <2>3
<1>16. offset <= Length(p) /\ Length(p) <= offset + m /\ (j = 0 => offset = Length(p))
  <2>1. \/ offset = Length(p)
        \/ /\ offset < Length(p) /\ offset + n >= Length(p)
           /\ used + k <= NumBlocks
    BY <1>1 DEF SupportedUsage, WriteOK, WriteAllowed, Allowed
  <2>2. CASE offset = Length(p)
    BY <1>2, <1>14, <2>2
  <2>3. CASE /\ offset < Length(p) /\ offset + n >= Length(p)
             /\ used + k <= NumBlocks
    <3>1. ~r.full
      BY <1>2, <1>4, <1>8, <1>12, <1>14, <2>3, Geometry
    <3> QED BY <1>2, <1>4, <1>8, <1>12, <1>15, <2>3, <3>1
  <2> QED BY <2>1, <2>2, <2>3
<1>17. SSize(r) = offset + m
  <2>1. CASE j = 0
    <3>1. SSize(r) = SizeOf(p)
      BY <1>12, <2>1 DEF PlainAt, SSize, SizeOf
    <3>2. m = 0
      BY <1>2, <1>3, <1>13, <2>1
    <3> QED BY <1>2, <1>8, <1>16, <2>1, <3>1, <3>2
  <2>2. CASE j # 0
    <3>1. r.size = offset + m
      BY <1>1, <1>12, <1>13, <2>2 DEF PlainAt
    <3> QED BY <1>2, <1>14, <3>1 DEF SSize, NoSize
  <2> QED BY <2>1, <2>2
<1>18. r.used = used => r.size = meta[p].size /\ r.info = meta[p].info
  <2>1. r.used = used => j = 0
    BY <1>8, <1>12, <1>14 DEF PlainAt
  <2> QED BY <1>12, <2>1 DEF PlainAt
<1>19. r.size = NoSize => meta[p].size = NoSize
  <2>1. j # 0 => r.size = offset + m
    BY <1>1, <1>12, <1>13 DEF PlainAt
  <2>2. j = 0 => r.size = meta[p].size
    BY <1>12 DEF PlainAt
  <2> QED BY <1>2, <1>14, <2>1, <2>2 DEF NoSize
<1>20. ASSUME NEW x \in 0 .. offset + m - 1
       PROVE  (IF x < SSize(r) THEN SByte(r, x) ELSE r.buf[x - SSize(r)])
                = IF x < offset THEN Was(p, x) ELSE <<writes + 1, x>>
  <2>1. x < SSize(r) /\ x \in 0 .. SSize(r) - 1
    BY <1>2, <1>14, <1>17
  <2>2. j = 0 => x < offset
    BY <1>2, <1>3, <1>13
  <2> QED BY <1>12, <2>1, <2>2 DEF PlainAt
<1>21. /\ r.counter \in 1 .. bigtempbuf_maxcount
       /\ SSize(r) + (bigtempbuf_maxcount - r.counter) * sysblocksize = offset + m
  <2>1. r.counter = 1
    BY <1>8, <1>12 DEF PlainAt
  <2> QED BY <1>2, <1>3, <1>14, <1>17, <2>1
<1>22. Effect(r, p, offset, n, m)
  BY <1>12, <1>15, <1>16, <1>18, <1>19, <1>20, <1>21 DEF Effect, PlainAt
<1> QED BY <1>5, <1>11, <1>14, <1>22

(* One piece of a request, with big blocks. *)
LEMMA BigStep ==
    ASSUME NEW p, NEW offset, NEW n, WriteOK(p, offset, n), usebigblock,
           NEW i \in 0 .. Pieces(n) - 1, NEW s, BigAt(s, p, offset, n, i)
    PROVE  BigAt(OnePiece(s, writes + 1, offset, n, i), p, offset, n, i + 1)
<1>1. PICK D, S, K : D = disk_block_size /\ S = sysblocksize /\ K = bigtempbuf_maxcount
  OBVIOUS
<1>2. TypeOK /\ offset \in Nat /\ n \in Nat \ {0} /\ offset + n <= MaxLength
  BY DEF WriteOK, FInv
<1>3. /\ D \in Nat \ {0} /\ S \in Nat \ {0} /\ K \in Nat \ {0} /\ K * S = D /\ D > S
      /\ Piece = S /\ MaxLength \in Nat /\ NumBlocks \in Nat
  BY <1>1, <1>2, Geometry DEF Piece, usebigblock
<1>4. n % Piece = 0 /\ used + Pieces(n) <= NumBlocks
  BY DEF SupportedUsage, WriteOK, WriteAllowed, Allowed
<1>5. /\ i \in Nat /\ i * S < n /\ PieceSize(n, i) = S /\ (i + 1) * S <= n
      /\ Pieces(n) \in Nat \ {0}
  BY <1>2, <1>3, <1>4, PiecesCover, WholePieces
<1>6. i * S \in Nat /\ (i + 1) * S = i * S + S
  BY <1>3, <1>5
<1>7. PICK z, c, slot : z = SSize(s) /\ c = s.counter /\ slot = (K - c) * S
  OBVIOUS
<1>8. LoopOK(s) /\ s.full = FALSE /\ c \in 1 .. K /\ z % D = 0 /\ z + slot = offset + i * S
  BY <1>1, <1>7 DEF BigAt
<1>9. z \in Nat /\ s.used \in used .. NumBlocks /\ s.used <= used + i
  BY <1>3, <1>7, <1>8 DEF SSize, NoSize, LoopOK, LoopRecord, BigAt
<1>10. PICK q \in Nat : z = q * D
  BY <1>3, <1>8, <1>9, Multiple
<1>11. /\ slot \in Nat /\ slot + S <= D /\ (K - (c - 1)) * S = slot + S
       /\ c = 1 => slot + S = D
       /\ (K - K) * S = 0
  BY <1>3, <1>7, <1>8, Slots
<1>12. z + slot + S <= MaxLength
  BY <1>2, <1>3, <1>5, <1>6, <1>8, <1>9, <1>11
<1>13. PICK buf : buf = [u \in Units |-> IF u >= slot /\ u < slot + S
                                        THEN <<writes + 1, offset + i * S + u - slot>>
                                        ELSE s.buf[u]]
  OBVIOUS
<1>14. ASSUME NEW u \in Units
       PROVE  /\ buf[u] \in Bytes
              /\ slot <= u /\ u < slot + S => buf[u] = <<writes + 1, z + u>>
              /\ u < slot => buf[u] = s.buf[u]
  <2>1. u \in 0 .. D - 1
    BY <1>1 DEF Units
  <2>2. s.buf[u] \in Bytes
    BY <1>8 DEF LoopOK, LoopRecord
  <2>3. writes + 1 \in 0 .. MaxWrites
    <3>1. writes \in 0 .. MaxWrites /\ writes < MaxWrites /\ MaxWrites \in Nat
      BY <1>2, Geometry DEF WriteOK, TypeOK
    <3> QED BY <3>1
  <2>4. offset + i * S + u - slot = z + u
    BY <1>2, <1>3, <1>6, <1>8, <1>9, <1>11, <2>1
  <2>5. u < slot + S => z + u \in 0 .. MaxLength
    BY <1>3, <1>9, <1>11, <1>12, <2>1
  <2>6. buf[u] = IF u >= slot /\ u < slot + S THEN <<writes + 1, z + u>> ELSE s.buf[u]
    BY <1>13, <2>4
  <2> QED BY <1>3, <1>11, <2>1, <2>2, <2>3, <2>5, <2>6 DEF Bytes
<1>15. buf \in [Units -> Bytes]
  BY <1>13, <1>14
<1>16. PICK t : t = OnePiece(s, writes + 1, offset, n, i)
  OBVIOUS
<1>17. t = BigPiece(s, writes + 1, offset, n, i)
  BY <1>8, <1>16 DEF OnePiece
<1>18. ASSUME NEW j \in 0 .. offset + i * S - 1
       PROVE  (IF j < z THEN SByte(s, j) ELSE s.buf[j - z])
                = IF j < offset THEN Was(p, j) ELSE <<writes + 1, j>>
  BY <1>1, <1>7 DEF BigAt
<1>19. CASE c > 1
  <2>1. t = [s EXCEPT !.buf = buf, !.counter = @ - 1]
    BY <1>1, <1>3, <1>5, <1>7, <1>13, <1>17, <1>19 DEF BigPiece
  <2>2. /\ t.block = s.block /\ t.used = s.used /\ t.buf = buf
        /\ t.counter = c - 1 /\ t.size = s.size /\ t.info = s.info
        /\ t.full = FALSE /\ t.offset = s.offset
    BY <1>7, <1>8, <2>1 DEF LoopOK, LoopRecord
  <2>3. LoopOK(t)
    <3>1. t \in LoopRecord
      <4>1. c - 1 \in Nat
        BY <1>3, <1>8, <1>19
      <4> QED BY <1>8, <1>15, <2>1, <2>2, <4>1 DEF LoopOK, LoopRecord
    <3> QED BY <1>8, <2>2, <3>1 DEF LoopOK, SSize
  <2>4. SSize(t) = z
    BY <1>7, <2>2 DEF SSize
  <2>5. ASSUME NEW j \in 0 .. offset + (i + 1) * S - 1
        PROVE  (IF j < z THEN SByte(t, j) ELSE t.buf[j - z])
                 = IF j < offset THEN Was(p, j) ELSE <<writes + 1, j>>
    <3>0. j \in Nat /\ j < z + slot + S
      BY <1>2, <1>3, <1>6, <1>8, <1>9, <1>11
    <3>1. CASE j < z
      <4>1. j \in 0 .. offset + i * S - 1
        BY <1>2, <1>6, <1>8, <1>9, <1>11, <3>0, <3>1
      <4>2. SByte(t, j) = SByte(s, j)
        BY <2>2 DEF SByte
      <4> QED BY <1>18, <3>1, <4>1, <4>2
    <3>2. CASE ~(j < z)
      <4>1. PICK u \in Nat : u = j - z
        BY <1>9, <3>0, <3>2
      <4>2. u \in Units /\ u < slot + S /\ j = z + u
        BY <1>1, <1>3, <1>9, <1>11, <3>0, <4>1 DEF Units
      <4>3. CASE u < slot
        <5>1. j \in 0 .. offset + i * S - 1
          BY <1>2, <1>6, <1>8, <1>9, <1>11, <3>0, <4>2, <4>3
        <5>2. t.buf[j - z] = s.buf[j - z]
          BY <1>14, <2>2, <4>1, <4>2, <4>3
        <5> QED BY <1>18, <3>2, <5>1, <5>2
      <4>4. CASE ~(u < slot)
        <5>1. t.buf[j - z] = <<writes + 1, j>>
          BY <1>11, <1>14, <2>2, <4>1, <4>2, <4>4
        <5>2. ~(j < offset)
          BY <1>2, <1>6, <1>8, <1>9, <1>11, <4>1, <4>2, <4>4
        <5> QED BY <3>2, <5>1, <5>2
      <4> QED BY <4>3, <4>4
    <3> QED BY <3>1, <3>2
  <2>6. t.counter \in 1 .. K
    BY <1>3, <1>8, <1>19, <2>2
  <2>7. z + (K - t.counter) * S = offset + (i + 1) * S
    BY <1>2, <1>3, <1>6, <1>8, <1>9, <1>11, <2>2
  <2>8. t.used <= used + (i + 1)
    <3>1. used \in Nat
      BY <1>2, Geometry DEF TypeOK
    <3> QED BY <1>5, <1>9, <2>2, <3>1
  <2>9. /\ t.used = used => t.size = meta[p].size /\ t.info = meta[p].info
        /\ t.size = NoSize => meta[p].size = NoSize
        /\ n > S => t.offset = z
    BY <1>1, <1>7, <2>2 DEF BigAt
  <2>10. i + 1 # 0
    BY <1>5
  <2>11. BigAt(t, p, offset, n, i + 1)
    BY <1>1, <1>8, <2>2, <2>3, <2>4, <2>5, <2>6, <2>7, <2>8, <2>9, <2>10 DEF BigAt
  <2> QED BY <1>16, <2>11
<1>20. CASE c = 1
  <2>1. slot + S = D /\ slot = (K - 1) * S
    BY <1>7, <1>11, <1>20
  <2>2. s.used # NumBlocks
    <3>1. used \in Nat
      BY <1>2, Geometry DEF TypeOK
    <3> QED BY <1>3, <1>4, <1>5, <1>9, <3>1
  <2>3. n <= S => s.offset = offset /\ i = 0 /\ offset = z + slot
    <3> SUFFICES ASSUME n <= S PROVE s.offset = offset /\ i = 0 /\ offset = z + slot
      OBVIOUS
    <3>1. i * S < 1 * S
      BY <1>2, <1>3, <1>5, <1>6
    <3>2. i = 0
      BY <1>3, <1>5, <3>1, MultiplesCompare
    <3>3. i * S = 0
      BY <1>3, <3>2
    <3> QED BY <1>1, <1>2, <1>8, <1>9, <1>11, <3>2, <3>3 DEF BigAt
  <2>4. ~(n <= S) => s.offset = z
    BY <1>1, <1>2, <1>3, <1>7 DEF BigAt
  <2>5. s.offset \div D = q
    <3>1. slot \in 0 .. D - 1
      BY <1>3, <1>11, <2>1
    <3>2. (q * D + slot) \div D = q /\ (q * D) \div D = q
      BY <1>3, <3>1, DivOfSum, Multiple
    <3> QED BY <1>10, <2>3, <2>4, <3>2
  <2>6. BigSize(s, offset, n, S) = q * D + D
    <3>1. BigSize(s, offset, n, S)
            = IF n <= S THEN offset + (slot + S) - (D - S) ELSE s.offset + (slot + S)
      BY <1>1, <2>1 DEF BigSize
    <3> QED BY <1>2, <1>3, <1>9, <1>10, <1>11, <2>1, <2>3, <2>4, <3>1
  <2>7. PICK e : e = Encoded(s, buf, D, q, q * D + D)
    OBVIOUS
  <2>8. q * D <= SSize(s) /\ q * D + D <= MaxLength /\ D \in 1 .. D
    BY <1>3, <1>7, <1>9, <1>10, <1>11, <1>12, <2>1
  <2>9. \A u \in 0 .. D - 1 : buf[u] \in Bytes
    BY <1>1, <1>14 DEF Units
  <2>10. /\ LoopOK(e) /\ e.used = s.used + 1 /\ e.size = z + D
         /\ e.buf = s.buf /\ e.counter = s.counter /\ e.offset = s.offset
         /\ e.full = s.full
         /\ \A j \in 0 .. z - 1 : SByte(e, j) = SByte(s, j)
         /\ \A j \in 0 .. D - 1 : SByte(e, z + j) = buf[j]
    BY <1>1, <1>2, <1>8, <1>10, <2>2, <2>7, <2>8, <2>9, EncodedBytes
  <2>11. t = [e EXCEPT !.buf = ZeroBlock, !.counter = K, !.offset = @ + D]
    <3>1. /\ (bigtempbuf_maxcount - s.counter) * sysblocksize = slot
          /\ (bigtempbuf_maxcount - 1) * sysblocksize + S = D
          /\ s.offset \div disk_block_size = q
          /\ ~(s.counter > 1)
      BY <1>1, <1>7, <1>20, <2>1, <2>5
    <3>2. ~e.full
      BY <1>8, <2>10
    <3> QED BY <1>1, <1>3, <1>5, <1>13, <1>17, <2>6, <2>7, <3>1, <3>2 DEF BigPiece
  <2>12. ZeroBlock \in [Units -> Bytes]
    <3>1. Zero \in Bytes
      BY <1>2, Geometry DEF Zero, Bytes
    <3> QED BY <3>1 DEF ZeroBlock
  <2>13. /\ t.block = e.block /\ t.used = s.used + 1 /\ t.buf = ZeroBlock
         /\ t.counter = K /\ t.size = z + D /\ t.info = e.info
         /\ t.full = FALSE /\ t.offset = s.offset + D
    BY <1>8, <2>10, <2>11 DEF LoopOK, LoopRecord
  <2>14. LoopOK(t)
    <3>1. t \in LoopRecord
      <4>1. e.offset + D \in Nat /\ K \in Nat
        BY <1>3, <2>10 DEF LoopOK, LoopRecord
      <4>2. t = [block |-> e.block, used |-> e.used, buf |-> ZeroBlock, counter |-> K,
                 offset |-> e.offset + D, size |-> e.size, info |-> e.info, full |-> e.full]
        BY <2>10, <2>11 DEF LoopOK, LoopRecord
      <4> QED BY <2>10, <2>12, <4>1, <4>2 DEF LoopOK, LoopRecord
    <3> QED BY <2>10, <2>13, <3>1 DEF LoopOK, SSize
  <2>15. SSize(t) = z + D /\ t.size # NoSize
    BY <1>3, <1>9, <2>13 DEF SSize, NoSize
  <2>16. ASSUME NEW j \in 0 .. offset + (i + 1) * S - 1
         PROVE  /\ j < z + D
                /\ SByte(t, j) = IF j < offset THEN Was(p, j) ELSE <<writes + 1, j>>
    <3>0. j \in Nat /\ j < z + D
      BY <1>2, <1>3, <1>6, <1>8, <1>9, <1>11, <2>1
    <3>3. SByte(t, j) = SByte(e, j)
      BY <2>13 DEF SByte
    <3>1. CASE j < z
      <4>1. j \in 0 .. offset + i * S - 1 /\ j \in 0 .. z - 1
        BY <1>2, <1>6, <1>8, <1>9, <1>11, <3>0, <3>1
      <4> QED BY <1>18, <2>10, <3>0, <3>1, <3>3, <4>1
    <3>2. CASE ~(j < z)
      <4>1. PICK u \in Nat : u = j - z
        BY <1>9, <3>0, <3>2
      <4>2. u \in Units /\ u \in 0 .. D - 1 /\ u < slot + S /\ j = z + u
        BY <1>1, <1>3, <1>9, <1>11, <2>1, <3>0, <4>1 DEF Units
      <4>3. SByte(e, j) = buf[u]
        BY <2>10, <4>2
      <4>4. CASE u < slot
        <5>1. j \in 0 .. offset + i * S - 1
          BY <1>2, <1>6, <1>8, <1>9, <1>11, <3>0, <4>2, <4>4
        <5>2. buf[u] = s.buf[j - z]
          BY <1>14, <4>1, <4>2, <4>4
        <5> QED BY <1>18, <3>0, <3>2, <3>3, <4>3, <5>1, <5>2
      <4>5. CASE ~(u < slot)
        <5>1. buf[u] = <<writes + 1, j>>
          BY <1>11, <1>14, <4>1, <4>2, <4>5
        <5>2. ~(j < offset)
          BY <1>2, <1>6, <1>8, <1>9, <1>11, <4>1, <4>2, <4>5
        <5> QED BY <3>0, <3>3, <4>3, <5>1, <5>2
      <4> QED BY <4>4, <4>5
    <3> QED BY <3>1, <3>2
  <2>17. (z + D) % D = 0
    <3>1. z + D = (q + 1) * D /\ q + 1 \in Nat
      BY <1>3, <1>10
    <3> QED BY <1>3, <3>1, Multiple
  <2>18. (z + D) + (K - t.counter) * S = offset + (i + 1) * S
    BY <1>2, <1>3, <1>6, <1>8, <1>9, <1>11, <2>1, <2>13
  <2>19. t.used <= used + (i + 1) /\ t.used # used
    <3>1. used \in Nat
      BY <1>2, Geometry DEF TypeOK
    <3> QED BY <1>5, <1>9, <2>13, <3>1
  <2>20. n > S => t.offset = z + D
    BY <1>2, <1>3, <2>4, <2>13
  <2>21. i + 1 # 0 /\ t.counter \in 1 .. K
    BY <1>3, <1>5, <2>13
  <2>22. BigAt(t, p, offset, n, i + 1)
    BY <1>1, <2>13, <2>14, <2>15, <2>16, <2>17, <2>18, <2>19, <2>20, <2>21 DEF BigAt
  <2> QED BY <1>16, <2>22
<1> QED BY <1>3, <1>8, <1>19, <1>20

LEMMA BigWritten ==
    ASSUME NEW p, NEW offset, NEW n, WriteOK(p, offset, n), usebigblock
    PROVE  Effect(Written(meta[p], writes + 1, offset, n), p, offset, n, n)
<1>1. PICK D, S, K, k : /\ D = disk_block_size /\ S = sysblocksize
                        /\ K = bigtempbuf_maxcount /\ k = Pieces(n)
  OBVIOUS
<1>2. TypeOK /\ offset \in Nat /\ n \in Nat \ {0} /\ offset + n <= MaxLength
  BY DEF WriteOK, FInv
<1>3. /\ D \in Nat \ {0} /\ S \in Nat \ {0} /\ K \in Nat \ {0} /\ K * S = D /\ D > S
      /\ Piece = S /\ MaxLength \in Nat
  BY <1>1, <1>2, Geometry DEF Piece, usebigblock
<1>4. /\ offset = Length(p) /\ n % Piece = 0 /\ (n > Piece => offset % D = 0)
      /\ owner \in {NoPath, p}
  BY <1>1 DEF SupportedUsage, WriteOK, WriteAllowed, Allowed
<1>5. k \in Nat \ {0} /\ k * S = n
  BY <1>1, <1>2, <1>3, <1>4, PiecesCover, WholePieces
<1>6. PICK f : /\ Turns(f, meta[p], writes + 1, offset, n)
               /\ Written(meta[p], writes + 1, offset, n) = f[k]
  <2>1. Pieces(n) \in Nat
    BY <1>1, <1>5
  <2> QED BY <1>1, <2>1, LoopRuns
<1>7. f[0] = StartOf(meta[p], offset)
  BY <1>1, <1>5, <1>6 DEF Turns
<1>8. \A i \in 0 .. k - 1 : f[i + 1] = OnePiece(f[i], writes + 1, offset, n, i)
  <2> SUFFICES ASSUME NEW i \in 0 .. k - 1
               PROVE  f[i + 1] = OnePiece(f[i], writes + 1, offset, n, i)
    OBVIOUS
  <2>1. i + 1 \in 0 .. k /\ i + 1 # 0 /\ (i + 1) - 1 = i
    BY <1>5
  <2> QED BY <1>1, <1>6, <2>1 DEF Turns
<1>9. PICK z, c, slot : z = SizeOf(p) /\ c = bigtempbuf_counter /\ slot = (K - c) * S
  OBVIOUS
<1>10. /\ z \in Nat /\ z % D = 0 /\ c \in 1 .. K /\ slot \in Nat /\ slot + S <= D
       /\ (K - K) * S = 0
  <2>1. z \in Nat
    BY <1>2, <1>9, Geometry DEF SizeOf, NoSize, WriteOK, TypeOK
  <2>2. z % D = 0 /\ c \in 1 .. K
    BY <1>1, <1>9 DEF WriteOK, FInv, BufferOK
  <2> QED BY <1>3, <1>9, <2>1, <2>2, Slots
<1>11. offset = z + slot
  <2>1. CASE owner = p
    <3>1. Len(Buffered(p)) = slot
      BY <1>1, <1>9, <1>10, <2>1 DEF Buffered
    <3> QED BY <1>4, <1>9, <3>1 DEF Length, SizeOf
  <2>2. CASE owner # p
    <3>1. c = K
      BY <1>1, <1>4, <1>9, <2>2 DEF WriteOK, FInv, BufferOK
    <3>2. Len(Buffered(p)) = 0
      BY <2>2 DEF Buffered
    <3> QED BY <1>4, <1>9, <1>10, <3>1, <3>2 DEF Length, SizeOf
  <2> QED BY <2>1, <2>2
<1>12. BigAt(f[0], p, offset, n, 0)
  <2>1. PICK s : s = f[0]
    OBVIOUS
  <2>2. Begins(s, p, offset)
    BY <1>7, <2>1, StartOK
  <2>3. 0 * S = 0 /\ offset + 0 = offset
    BY <1>2, <1>3
  <2>4. n > S => offset = z
    <3> SUFFICES ASSUME n > S PROVE offset = z
      OBVIOUS
    <3>1. offset % D = 0
      BY <1>3, <1>4
    <3>2. PICK q \in Nat : z = q * D
      BY <1>3, <1>10, Multiple
    <3>3. slot \in 0 .. D - 1
      BY <1>3, <1>10
    <3>4. (q * D + slot) % D = slot
      BY <1>3, <3>3, DivOfSum
    <3> QED BY <1>10, <1>11, <3>1, <3>2, <3>4
  <2>5. ASSUME NEW j \in 0 .. offset + 0 * S - 1
        PROVE  (IF j < SSize(s) THEN SByte(s, j) ELSE s.buf[j - SSize(s)])
                 = IF j < offset THEN Was(p, j) ELSE <<writes + 1, j>>
    <3>1. j < offset /\ j \in Nat
      BY <1>2, <2>3
    <3>2. CASE j < z
      <4>1. j \in 0 .. SizeOf(p) - 1
        BY <1>9, <1>10, <3>1, <3>2
      <4> QED BY <1>9, <2>2, <3>1, <3>2, <4>1 DEF Begins
    <3>3. CASE ~(j < z)
      BY <1>9, <2>2, <3>1, <3>3 DEF Begins, Was
    <3> QED BY <3>2, <3>3
  <2>6. s.used <= used + 0
    BY <1>2, <2>2, Geometry DEF Begins, TypeOK
  <2>7. SSize(s) + (bigtempbuf_maxcount - s.counter) * sysblocksize = offset + 0 * sysblocksize
    BY <1>1, <1>9, <1>11, <2>2, <2>3 DEF Begins
  <2>8. BigAt(s, p, offset, n, 0)
    BY <1>1, <1>9, <1>10, <2>2, <2>4, <2>5, <2>6, <2>7 DEF BigAt, Begins
  <2> QED BY <2>1, <2>8
<1>13. BigAt(f[k], p, offset, n, k)
  <2> DEFINE Bad == {i \in 0 .. k : ~BigAt(f[i], p, offset, n, i)}
  <2> SUFFICES ASSUME Bad # {} PROVE FALSE
    BY <1>5
  <2>1. PICK i \in Bad : \A x \in Bad : i <= x
    <3>1. Bad \subseteq Nat
      BY <1>5
    <3> HIDE DEF Bad
    <3> QED BY <3>1, LeastNatural
  <2>2. i \in 0 .. k /\ i # 0
    BY <1>12, <2>1
  <2>3. i - 1 \in 0 .. k - 1
    BY <1>5, <2>2
  <2>4. i - 1 \notin Bad
    <3> HIDE DEF Bad
    <3> QED BY <1>5, <2>1, <2>2
  <2>5. BigAt(f[i - 1], p, offset, n, i - 1)
    BY <1>5, <2>3, <2>4
  <2>6. (i - 1) + 1 = i
    BY <1>5, <2>2
  <2>7. BigAt(f[i], p, offset, n, i)
    BY <1>1, <1>8, <2>3, <2>5, <2>6, BigStep
  <2> QED BY <2>1, <2>7
<1>14. Effect(f[k], p, offset, n, n)
  <2>1. k * sysblocksize = n
    BY <1>1, <1>5
  <2>2. offset <= Length(p) /\ Length(p) <= offset + n
    BY <1>2, <1>4
  <2> QED BY <1>13, <2>1, <2>2 DEF BigAt, Effect
<1> QED BY <1>6, <1>14

(* What a write that users make comes to. *)
LEMMA WriteEffect ==
    ASSUME NEW p, NEW offset, NEW n, WriteOK(p, offset, n)
    PROVE  \E m \in 0 .. n :
              Effect(Written(meta[p], writes + 1, offset, n), p, offset, n, m)
<1>1. CASE usebigblock
  <2>1. n \in 0 .. n
    BY DEF WriteOK
  <2> QED BY <1>1, <2>1, BigWritten
<1>2. CASE ~usebigblock
  BY <1>2, PlainWritten
<1> QED BY <1>1, <1>2

-----------------------------------------------------------------------------
(* The invariant.                                                          *)
StoreOK ==
    /\ <<disk_block_size, sysblocksize>> \in Geometries
    /\ block \in [0 .. NumBlocks - 1 -> [Units -> Bytes]]
    /\ used \in 0 .. NumBlocks
    /\ bigtempbuf \in [Units -> Bytes]
    /\ bigtempbuf_counter \in 0 .. bigtempbuf_maxcount
    /\ running \in BOOLEAN
    /\ writes \in 0 .. MaxWrites
    /\ owner \in Paths \cup {NoPath}

LEMMA TypeFromParts == StoreOK /\ TableOK /\ MetaOK /\ Requests => TypeOK
<1> SUFFICES ASSUME StoreOK, TableOK, MetaOK, Requests PROVE TypeOK
  OBVIOUS
<1>1. ASSUME NEW p \in Paths, Exists(p)
      PROVE  /\ meta[p].size \in NoSize .. MaxLength
             /\ meta[p].info \in [Indexes -> 0 .. NumBlocks - 1]
  BY <1>1 DEF MetaOK, Exists
<1>2. stat.fd \in Descriptors \cup {UNAVAILABLE}
  BY DEF Requests
<1> QED BY <1>1, <1>2 DEF TypeOK, StoreOK, TableOK, Bytes

LEMMA FInit == Init => FInv
<1> SUFFICES ASSUME Init PROVE FInv
  OBVIOUS
<1>1. PICK g \in Geometries : disk_block_size = g[1] /\ sysblocksize = g[2]
  BY DEF Init
<1>2. /\ Geometries \subseteq (Nat \ {0}) \X (Nat \ {0})
      /\ g[1] > g[2] => g[1] % g[2] = 0
      /\ NumBlocks \in Nat \ {0} /\ MaxLength \in Nat /\ MaxWrites \in Nat /\ NoPath \notin Paths
  BY FileIOAssumption DEF FileIOAssumption
<1>3. g = <<disk_block_size, sysblocksize>>
  BY <1>1, <1>2
<1>4. bigtempbuf_maxcount \in Nat \ {0}
  <2>1. PICK D, S : D = disk_block_size /\ S = sysblocksize
    OBVIOUS
  <2>2. D \in Nat \ {0} /\ S \in Nat \ {0} /\ (D > S => D % S = 0)
    BY <1>1, <1>2, <2>1
  <2>3. D > S => D \div S \in Nat \ {0}
    BY <2>2, DivMod
  <2> QED BY <2>1, <2>3 DEF bigtempbuf_maxcount, usebigblock
<1>5. ZeroBlock \in [Units -> Bytes]
  BY <1>2 DEF ZeroBlock, Zero, Bytes
<1>6. StoreOK
  BY <1>2, <1>3, <1>4, <1>5 DEF Init, StoreOK
<1>7. TableOK /\ HandlesOpen
  BY TableInit DEF TableInv
<1>8. EntriesOK /\ MetaOK
  BY DEF Init, EntriesOK, MetaOK, NoUnlink
<1>9. BlocksHeld /\ BufferOK
  BY <1>4 DEF Init, BlocksHeld, BufferOK, Exists
<1>10. Requests
  BY DEF Init, Requests, Exists, NoStat, NoUnlink, UNAVAILABLE
<1>11. TypeOK
  BY <1>6, <1>7, <1>8, <1>10, TypeFromParts
<1> QED BY <1>7, <1>8, <1>9, <1>10, <1>11 DEF FInv

(* The process ends, a read, or nothing. *)
LEMMA StillStep ==
    ASSUME FInv, TableInv', running' \in BOOLEAN,
           UNCHANGED <<geometry, store, meta, fds, fileInfoPath_, handles, stat, unlinking>>
    PROVE  FInv'
<1>1. EntriesOK' /\ MetaOK' /\ BlocksHeld' /\ Requests'
  BY DEF FInv, geometry, store, EntriesOK, LeftOver, MetaOK, BlocksHeld, Requests, Exists, Free,
         SizeOf, Indexes
<1>2. BufferOK'
  BY DEF FInv, geometry, store, BufferOK, Exists, SizeOf, Length, Buffered, usebigblock,
         bigtempbuf_maxcount
<1>3. StoreOK'
  BY DEF FInv, TypeOK, StoreOK, geometry, store, Bytes, Units, bigtempbuf_maxcount, usebigblock
<1>4. TypeOK'
  BY <1>1, <1>3, TypeFromParts, PTL DEF TableInv
<1> QED BY <1>1, <1>2, <1>4 DEF FInv, TableInv

(* Steps that do not touch the blocks, the buffer or the metadata. *)
LEMMA StoreStays ==
    ASSUME FInv, UNCHANGED <<geometry, store, meta, running>>
    PROVE  StoreOK' /\ MetaOK' /\ BlocksHeld'
<1>1. StoreOK'
  BY DEF FInv, TypeOK, StoreOK, geometry, store, Bytes, Units, bigtempbuf_maxcount, usebigblock
<1>2. MetaOK' /\ BlocksHeld'
  BY DEF FInv, geometry, store, MetaOK, BlocksHeld, Exists, SizeOf, Indexes
<1> QED BY <1>1, <1>2

LEMMA OpenedStep ==
    ASSUME FInv, TableInv', SupportedUsage, NEW p \in Paths, Create(p) \/ Open(p)
    PROVE  FInv'
<1>1. /\ running /\ Alone(p) /\ DescriptorLeft /\ Opened(p)
      /\ \/ meta' = meta /\ Exists(p)
         \/ meta' = [meta EXCEPT ![p] = EmptyMeta] /\ ~Exists(p)
  BY DEF Create, Open
<1>2. /\ fds' = fds \cup {fresh}
      /\ fileInfoPath_' = [fileInfoPath_ EXCEPT ![fresh] = p]
      /\ handles' = [handles EXCEPT ![fresh] = p]
      /\ UNCHANGED <<geometry, store, stat, unlinking, running>>
  BY <1>1 DEF Opened, createFileInfo
<1>3. stat.path # p /\ unlinking.path # p
  BY <1>1 DEF SupportedUsage, Alone, Allowed
<1>4. fresh \in Descriptors /\ fresh \notin fds /\ \A e \in Free : fresh <= e
  BY <1>1, FreshIsFree
<1>5. p # NoPath /\ Descriptors \subseteq Nat /\ MaxLength \in Nat /\ NumBlocks \in Nat \ {0}
  BY FileIOAssumption DEF FileIOAssumption
<1>6. handles[fresh] = NoPath
  BY <1>4 DEF FInv, HandlesOpen
<1>7. EmptyMeta \in [size : NoSize .. MaxLength, info : [Indexes -> 0 .. NumBlocks - 1]]
  BY <1>5 DEF EmptyMeta, NoSize
<1>8. /\ meta'[p] # NoMeta
      /\ \A o \in Paths \ {p} : meta'[o] = meta[o]
      /\ Exists(p) => meta'[p] = meta[p]
      /\ ~Exists(p) => meta'[p] = EmptyMeta
      /\ MetaOK'
  <2>1. EmptyMeta # NoMeta
    BY DEF EmptyMeta, NoMeta, NoSize
  <2> QED BY <1>1, <1>7, <2>1 DEF FInv, MetaOK, Exists, Indexes
<1>9. /\ Exists(p)' /\ \A o : o # p /\ o \in Paths \cup {NoPath} => (Exists(o)' <=> Exists(o))
  BY <1>5, <1>8 DEF Exists
<1>10. fileInfoPath_' \in [Descriptors -> Paths \cup {NoPath}] /\ fileInfoPath_'[fresh] = p
       /\ handles'[fresh] = p
       /\ \A d \in Descriptors \ {fresh} : /\ fileInfoPath_'[d] = fileInfoPath_[d]
                                           /\ handles'[d] = handles[d]
  BY <1>2, <1>4 DEF FInv, TableOK
<1>11. ~ \E d \in Descriptors \ {fresh} : LeftOver(d)
  <2> SUFFICES ASSUME NEW d \in Descriptors \ {fresh}, LeftOver(d) PROVE FALSE
    OBVIOUS
  <2>1. d \in Free /\ fresh \in Free
    BY <1>4 DEF LeftOver, Free
  <2>2. d <= fresh /\ fresh <= d
    BY <1>4, <2>1 DEF LeftOver
  <2> QED BY <1>4, <1>5, <2>2
<1>12. EntriesOK'
  <2>1. ASSUME unlinking' # NoUnlink, ~unlinking'.closed, NEW e \in Descriptors, e < unlinking'.fd
        PROVE  e \in fds'
    BY <1>2, <2>1 DEF FInv, EntriesOK
  <2>2. ASSUME NEW d \in Descriptors, fileInfoPath_'[d] # NoPath
        PROVE  \/ handles'[d] = fileInfoPath_'[d]
               \/ fileInfoPath_'[d] = unlinking'.path /\ d = unlinking'.fd /\ ~unlinking'.closed
    <3>1. CASE d = fresh
      BY <1>10, <3>1
    <3>2. CASE d # fresh
      BY <1>2, <1>10, <1>11, <2>2, <3>2 DEF FInv, EntriesOK
    <3> QED BY <3>1, <3>2
  <2> QED BY <2>1, <2>2 DEF EntriesOK
<1>13. BlocksHeld'
  <2> SUFFICES ASSUME NEW o \in Paths, NEW x \in Indexes', Exists(o)',
                      x * disk_block_size' < SizeOf(o)'
               PROVE  meta'[o].info[x] < used'
    BY DEF BlocksHeld
  <2>1. CASE o # p \/ Exists(p)
    <3>1. meta'[o] = meta[o] /\ Exists(o)
      BY <1>8, <1>9, <2>1
    <3> QED BY <1>2, <3>1 DEF FInv, BlocksHeld, SizeOf, Indexes, geometry, store
  <2>2. CASE o = p /\ ~Exists(p)
    <3>1. SizeOf(o)' = 0
      BY <1>8, <2>2 DEF SizeOf, EmptyMeta
    <3>2. PICK D \in Nat : D = disk_block_size'
      BY <1>2, Geometry DEF FInv, geometry
    <3>3. x \in Nat /\ x * D \in Nat
      BY DEF Indexes
    <3>4. x * D < SizeOf(o)'
      BY <3>2
    <3>5. x * D < 0
      BY <3>1, <3>4
    <3> QED BY <3>3, <3>5
  <2> QED BY <2>1, <2>2
<1>14. BufferOK'
  <2>1. /\ bigtempbuf_counter' = bigtempbuf_counter /\ owner' = owner
        /\ bigtempbuf_maxcount' = bigtempbuf_maxcount /\ usebigblock' = usebigblock
        /\ disk_block_size' = disk_block_size /\ sysblocksize' = sysblocksize
        /\ bigtempbuf' = bigtempbuf
    BY <1>2 DEF geometry, store, bigtempbuf_maxcount, usebigblock
  <2>2. ASSUME owner # NoPath
        PROVE  /\ Exists(owner)' /\ (Length(owner) <= MaxLength)'
               /\ \E h \in Descriptors : handles'[h] = owner
    <3>1. Exists(owner) /\ Length(owner) <= MaxLength /\ owner \in Paths
      BY <2>2 DEF FInv, BufferOK, TypeOK
    <3>2. meta'[owner] = meta[owner]
      BY <1>8, <3>1
    <3>3. (Length(owner) <= MaxLength)'
      BY <2>1, <3>1, <3>2 DEF Length, Buffered
    <3>4. PICK h \in Descriptors : handles[h] = owner
      BY <2>2 DEF FInv, BufferOK
    <3>5. h # fresh
      BY <1>6, <2>2, <3>4
    <3> QED BY <1>10, <2>1, <3>1, <3>2, <3>3, <3>4, <3>5 DEF Exists
  <2>3. ASSUME usebigblock, NEW o \in Paths, Exists(o)'
        PROVE  SizeOf(o)' % disk_block_size' = 0
    <3>1. CASE o # p \/ Exists(p)
      BY <1>8, <1>9, <2>1, <2>3, <3>1 DEF FInv, BufferOK, SizeOf
    <3>2. CASE o = p /\ ~Exists(p)
      <4>1. SizeOf(o)' = 0
        BY <1>8, <3>2 DEF SizeOf, EmptyMeta
      <4>2. PICK D \in Nat \ {0} : D = disk_block_size'
        BY <2>1, Geometry DEF FInv
      <4>3. 0 % D = 0
        OBVIOUS
      <4> QED BY <4>1, <4>2, <4>3
    <3> QED BY <3>1, <3>2
  <2>4. /\ bigtempbuf_counter \in 1 .. bigtempbuf_maxcount
        /\ owner = NoPath <=> bigtempbuf_counter = bigtempbuf_maxcount
    BY DEF FInv, BufferOK
  <2> QED BY <2>1, <2>2, <2>3, <2>4 DEF BufferOK
<1>15. Requests'
  <2>1. ASSUME NEW h \in Descriptors, handles'[h] # NoPath
        PROVE  Exists(handles[h])' /\ handles'[h] # unlinking'.path
    <3>1. CASE h = fresh
      BY <1>2, <1>3, <1>9, <1>10, <3>1
    <3>2. CASE h # fresh
      <4>1. handles'[h] = handles[h] /\ handles[h] \in Paths \cup {NoPath}
        BY <1>10, <3>2 DEF FInv, TableOK
      <4>2. Exists(handles[h]) /\ handles[h] # unlinking.path
        BY <2>1, <4>1 DEF FInv, Requests
      <4>3. meta'[handles[h]] # NoMeta
        BY <1>8, <2>1, <4>1, <4>2 DEF Exists
      <4> QED BY <1>2, <2>1, <4>1, <4>2, <4>3 DEF Exists
    <3> QED BY <3>1, <3>2
  <2>2. unlinking' # NoUnlink => Exists(unlinking.path)' /\ unlinking'.path # stat'.path
    <3> SUFFICES ASSUME unlinking' # NoUnlink
                 PROVE  Exists(unlinking.path)' /\ unlinking'.path # stat'.path
      OBVIOUS
    <3>1. unlinking.path \in Paths /\ Exists(unlinking.path) /\ unlinking.path # stat.path
      BY <1>2 DEF FInv, TableOK, Requests
    <3> QED BY <1>2, <1>3, <1>8, <3>1 DEF Exists
  <2>3. /\ stat = NoStat \/ (stat.path \in Paths /\ stat.path # owner)
        /\ stat \in [path : Paths \cup {NoPath}, there : BOOLEAN,
                     fd : Descriptors \cup {UNAVAILABLE}]
        /\ owner' = owner /\ stat' = stat
    BY <1>2 DEF FInv, Requests, store
  <2>4. stat # NoStat => stat.there = Exists(stat.path)'
    BY <1>3, <1>9, <2>3 DEF FInv, Requests, Exists
  <2>5. stat.there => /\ meta'[stat.path].size # NoSize
                      /\ stat.fd # UNAVAILABLE => handles'[stat.fd] = stat.path
    <3> SUFFICES ASSUME stat.there
                 PROVE  /\ meta'[stat.path].size # NoSize
                        /\ stat.fd # UNAVAILABLE => handles'[stat.fd] = stat.path
      OBVIOUS
    <3>1. stat # NoStat
      BY DEF NoStat
    <3>2. stat.path \in Paths /\ stat.path # p /\ stat.path # NoPath
      BY <1>3, <2>3, <3>1, FileIOAssumption DEF FileIOAssumption
    <3>3. meta[stat.path].size # NoSize /\ (stat.fd # UNAVAILABLE => handles[stat.fd] = stat.path)
      BY DEF FInv, Requests
    <3>4. stat.fd # UNAVAILABLE => stat.fd \in Descriptors \ {fresh}
      BY <1>6, <2>3, <3>2, <3>3
    <3> QED BY <1>8, <1>10, <3>2, <3>3, <3>4
  <2>6. Free' # {}
    <3>1. Free' = Free \ {fresh}
      BY <1>2 DEF Free
    <3> QED BY <1>1, <3>1, AnotherIsFree
  <2> QED BY <2>1, <2>2, <2>3, <2>4, <2>5, <2>6 DEF Requests
<1>16. StoreOK'
  BY <1>2 DEF FInv, TypeOK, StoreOK, geometry, store, Bytes, Units, bigtempbuf_maxcount, usebigblock
<1>17. TypeOK'
  BY <1>8, <1>15, <1>16, TypeFromParts, PTL DEF TableInv
<1> QED BY <1>8, <1>12, <1>13, <1>14, <1>15, <1>17 DEF FInv, TableInv

(* The buffer stays as it is, and the file it is about stays open. *)
LEMMA BufferStays ==
    ASSUME FInv, UNCHANGED <<geometry, store, meta>>,
           \A h \in Descriptors : handles[h] # NoPath /\ handles[h] = owner => handles'[h] = handles[h]
    PROVE  BufferOK'
<1>1. owner # NoPath => \E h \in Descriptors : handles'[h] = owner
  BY DEF FInv, BufferOK
<1> QED BY <1>1 DEF FInv, geometry, store, BufferOK, Exists, SizeOf, Length, Buffered, usebigblock,
                    bigtempbuf_maxcount

LEMMA ReleaseStep ==
    ASSUME FInv, TableInv', SupportedUsage, NEW h \in Descriptors, Release(h)
    PROVE  FInv'
<1>1. /\ handles[h] # NoPath /\ stat.path # handles[h] /\ unlinking.path # handles[h]
      /\ owner # handles[h]
      /\ fileInfoPath_' = [fileInfoPath_ EXCEPT ![h] = NoPath]
      /\ handles' = [handles EXCEPT ![h] = NoPath]
      /\ UNCHANGED <<geometry, store, meta, fds, stat, unlinking, running>>
  BY DEF SupportedUsage, Release, Alone, Quiescent, Allowed, destroyFileInfo
<1>2. /\ fileInfoPath_'[h] = NoPath /\ handles'[h] = NoPath
      /\ \A d \in Descriptors \ {h} : /\ fileInfoPath_'[d] = fileInfoPath_[d]
                                      /\ handles'[d] = handles[d]
  BY <1>1 DEF FInv, TableOK
<1>3. StoreOK' /\ MetaOK' /\ BlocksHeld'
  BY <1>1, StoreStays
<1>4. BufferOK'
  BY <1>1, <1>2, BufferStays
<1>5. EntriesOK'
  BY <1>1, <1>2 DEF FInv, EntriesOK, LeftOver, Exists, Free
<1>6. Requests'
  <2>1. \A d \in Descriptors : handles'[d] # NoPath => d # h /\ handles'[d] = handles[d]
    BY <1>2
  <2>2. stat.there => (stat.fd # UNAVAILABLE => stat.fd \in Descriptors /\ stat.fd # h)
    BY <1>1 DEF FInv, Requests
  <2> QED BY <1>1, <1>2, <2>1, <2>2 DEF FInv, Requests, Exists, Free, store
<1>7. TypeOK'
  BY <1>3, <1>6, TypeFromParts, PTL DEF TableInv
<1> QED BY <1>3, <1>4, <1>5, <1>6, <1>7 DEF FInv, TableInv

(* searchFileInfo() finds an entry for the path, if there is one. *)
LEMMA SearchFinds ==
    ASSUME NEW p
    PROVE  \/ searchFileInfo(p) = UNAVAILABLE
           \/ searchFileInfo(p) \in Descriptors /\ fileInfoPath_[searchFileInfo(p)] = p
<1> DEFINE found == {fd \in Descriptors : fileInfoPath_[fd] = p}
<1>1. found \subseteq Nat
  BY FileIOAssumption DEF FileIOAssumption
<1>2. searchFileInfo(p) = IF found = {} THEN UNAVAILABLE ELSE Min(found)
  BY DEF searchFileInfo
<1>3. found # {} => Min(found) \in found
  <2> HIDE DEF found
  <2> QED BY <1>1, MinIsLeast
<1> QED BY <1>2, <1>3

LEMMA StatStartStep ==
    ASSUME FInv, TableInv', SupportedUsage, NEW p \in Paths, StatStart(p)
    PROVE  FInv'
<1>1. /\ unlinking.path # p /\ owner # p
      /\ Exists(p) => meta[p].size # NoSize
      /\ stat' = [path |-> p, there |-> Exists(p), fd |-> searchFileInfo(p)]
      /\ UNCHANGED <<geometry, store, meta, fds, fileInfoPath_, handles, unlinking, running>>
  BY DEF SupportedUsage, StatStart, Quiescent, Allowed
<1>2. StoreOK' /\ MetaOK' /\ BlocksHeld'
  BY <1>1, StoreStays
<1>3. BufferOK'
  BY <1>1, BufferStays
<1>4. EntriesOK'
  BY <1>1 DEF FInv, EntriesOK, LeftOver, Exists, Free
<1>5. PICK f : f = searchFileInfo(p)
  OBVIOUS
<1>6. f = UNAVAILABLE \/ (f \in Descriptors /\ fileInfoPath_[f] = p)
  BY <1>5, SearchFinds
<1>7. Exists(p) /\ f # UNAVAILABLE => handles[f] = p
  BY <1>1, <1>6 DEF FInv, EntriesOK, LeftOver, Exists
<1>8. p # NoPath
  BY FileIOAssumption DEF FileIOAssumption
<1>9. Requests'
  <2>1. stat'.path = p /\ stat'.there = Exists(p) /\ stat'.fd = f
    BY <1>1, <1>5
  <2>2. stat' \in [path : Paths \cup {NoPath}, there : BOOLEAN, fd : Descriptors \cup {UNAVAILABLE}]
    BY <1>1, <1>5, <1>6 DEF Exists
  <2>3. \A o : Exists(o)' <=> Exists(o)
    BY <1>1 DEF Exists
  <2>4. /\ \A h \in Descriptors : handles'[h] # NoPath =>
               Exists(handles[h])' /\ handles'[h] # unlinking'.path
        /\ unlinking' # NoUnlink => Exists(unlinking.path)' /\ unlinking'.path # stat'.path
        /\ (\E o \in Paths : Exists(o)') => Free' # {}
    BY <1>1, <2>1, <2>3 DEF FInv, Requests, Free, Exists
  <2>5. /\ stat' = NoStat \/ (stat'.path \in Paths /\ stat'.path # owner')
        /\ stat' # NoStat => stat'.there = Exists(stat.path)'
    BY <1>1, <2>1 DEF store, Exists
  <2>6. stat'.there => /\ meta'[stat'.path].size # NoSize
                       /\ stat'.fd # UNAVAILABLE => handles'[stat'.fd] = stat'.path
    BY <1>1, <1>7, <2>1
  <2> QED BY <2>2, <2>4, <2>5, <2>6 DEF Requests
<1>10. TypeOK'
  BY <1>2, <1>9, TypeFromParts, PTL DEF TableInv
<1> QED BY <1>2, <1>3, <1>4, <1>9, <1>10 DEF FInv, TableInv

LEMMA StatEndStep ==
    ASSUME FInv, TableInv', SupportedUsage, StatEnd
    PROVE  FInv'
<1>1. CASE Exit
  BY <1>1, StillStep DEF Exit
<1>2. CASE ~Exit
  <2>1. /\ stat' = NoStat
        /\ UNCHANGED <<geometry, store, meta, fds, fileInfoPath_, handles, unlinking, running>>
    BY <1>2 DEF StatEnd
  <2>2. StoreOK' /\ MetaOK' /\ BlocksHeld'
    BY <2>1, StoreStays
  <2>3. BufferOK'
    BY <2>1, BufferStays
  <2>4. EntriesOK'
    BY <2>1 DEF FInv, EntriesOK, LeftOver, Exists, Free
  <2>5. Requests'
    <3>1. unlinking # NoUnlink => unlinking.path # NoPath
      BY FileIOAssumption DEF FileIOAssumption, FInv, TableOK
    <3> QED BY <2>1, <3>1 DEF FInv, Requests, Exists, Free, NoStat, UNAVAILABLE
  <2>6. TypeOK'
    BY <2>2, <2>5, TypeFromParts, PTL DEF TableInv
  <2> QED BY <2>2, <2>3, <2>4, <2>5, <2>6 DEF FInv, TableInv
<1> QED BY <1>1, <1>2

LEMMA UnlinkStartStep ==
    ASSUME FInv, TableInv', SupportedUsage, NEW p \in Paths, UnlinkStart(p)
    PROVE  FInv'
<1>1. /\ unlinking = NoUnlink /\ Exists(p) /\ \A h \in Descriptors : handles[h] # p
      /\ stat.path # p /\ DescriptorLeft
      /\ unlinking' = [path |-> p, fd |-> fresh, closed |-> FALSE]
      /\ fds' = fds \cup {fresh}
      /\ fileInfoPath_' = [fileInfoPath_ EXCEPT ![fresh] = p]
      /\ UNCHANGED <<geometry, store, meta, handles, stat, running>>
  BY DEF SupportedUsage, UnlinkStart, Alone, Allowed, createFileInfo
<1>2. /\ fresh \in Descriptors /\ fresh \notin fds /\ \A e \in Free : fresh <= e
      /\ Descriptors \subseteq Nat
  BY <1>1, FreshIsFree, FileIOAssumption DEF FileIOAssumption
<1>3. StoreOK' /\ MetaOK' /\ BlocksHeld'
  BY <1>1, StoreStays
<1>4. BufferOK'
  BY <1>1, BufferStays
<1>5. /\ fileInfoPath_'[fresh] = p
      /\ \A d \in Descriptors \ {fresh} : fileInfoPath_'[d] = fileInfoPath_[d]
  BY <1>1, <1>2 DEF FInv, TableOK
<1>6. ~ \E d \in Descriptors \ {fresh} : LeftOver(d)
  <2> SUFFICES ASSUME NEW d \in Descriptors \ {fresh}, LeftOver(d) PROVE FALSE
    OBVIOUS
  <2>1. d \in Free /\ fresh \in Free
    BY <1>2 DEF LeftOver, Free
  <2>2. d <= fresh /\ fresh <= d
    BY <1>2, <2>1 DEF LeftOver
  <2> QED BY <1>2, <2>2
<1>7. EntriesOK'
  <2>1. ASSUME NEW e \in Descriptors, e < fresh PROVE e \in fds'
    BY <1>1, <1>2, <2>1 DEF Free
  <2>2. ASSUME NEW d \in Descriptors, fileInfoPath_'[d] # NoPath
        PROVE  \/ handles'[d] = fileInfoPath_'[d]
               \/ fileInfoPath_'[d] = unlinking'.path /\ d = unlinking'.fd /\ ~unlinking'.closed
    BY <1>1, <1>5, <1>6, <2>2 DEF FInv, EntriesOK, NoUnlink
  <2> QED BY <1>1, <2>1, <2>2 DEF EntriesOK
<1>8. Requests'
  <2>1. Free' = Free \ {fresh}
    BY <1>1 DEF Free
  <2>2. Free' # {}
    BY <1>1, <2>1, AnotherIsFree
  <2> QED BY <1>1, <2>2 DEF FInv, Requests, Exists, store
<1>9. TypeOK'
  BY <1>3, <1>8, TypeFromParts, PTL DEF TableInv
<1> QED BY <1>3, <1>4, <1>7, <1>8, <1>9 DEF FInv, TableInv

LEMMA UnlinkCloseStep ==
    ASSUME FInv, TableInv', SupportedUsage, UnlinkClose
    PROVE  FInv'
<1>1. CASE Exit
  BY <1>1, StillStep DEF Exit
<1>2. CASE ~Exit
  <2>1. /\ unlinking # NoUnlink /\ ~unlinking.closed
        /\ fds' = fds \ {unlinking.fd}
        /\ unlinking' = [unlinking EXCEPT !.closed = TRUE]
        /\ UNCHANGED <<geometry, store, meta, fileInfoPath_, handles, stat, running>>
    BY <1>2 DEF UnlinkClose
  <2>2. /\ unlinking.fd \in Descriptors /\ unlinking.fd \in fds
        /\ Descriptors \subseteq Nat
        /\ \A e \in Descriptors : e < unlinking.fd => e \in fds
    BY <2>1, FileIOAssumption DEF FileIOAssumption, FInv, TableOK, HandlesOpen, EntriesOK
  <2>3. unlinking'.path = unlinking.path /\ unlinking'.fd = unlinking.fd /\ unlinking'.closed
    BY <2>1 DEF FInv, TableOK
  <2>4. StoreOK' /\ MetaOK' /\ BlocksHeld'
    BY <2>1, StoreStays
  <2>5. BufferOK'
    BY <2>1, BufferStays
  <2>6. EntriesOK'
    <3>1. ASSUME NEW d \in Descriptors, fileInfoPath_'[d] # NoPath
          PROVE  handles'[d] = fileInfoPath_'[d] \/ LeftOver(d)'
      <4>1. \/ handles[d] = fileInfoPath_[d]
            \/ fileInfoPath_[d] = unlinking.path /\ d = unlinking.fd
        BY <2>1, <3>1 DEF FInv, EntriesOK, LeftOver
      <4>2. CASE fileInfoPath_[d] = unlinking.path /\ d = unlinking.fd
        <5>1. \A e \in Free' : d <= e
          <6> SUFFICES ASSUME NEW e \in Descriptors, e \notin fds', ~(d <= e) PROVE FALSE
            BY DEF Free
          <6>1. e < d
            BY <2>2
          <6> QED BY <2>1, <2>2, <4>2, <6>1
        <5> QED BY <2>1, <2>3, <4>2, <5>1 DEF LeftOver
      <4> QED BY <2>1, <4>1, <4>2
    <3> QED BY <2>3, <3>1 DEF EntriesOK
  <2>7. Requests'
    <3>1. Free \subseteq Free'
      BY <2>1 DEF Free
    <3>2. \A o : Exists(o)' <=> Exists(o)
      BY <2>1 DEF Exists
    <3> QED BY <2>1, <2>3, <3>1, <3>2 DEF FInv, Requests, store, Exists
  <2>8. TypeOK'
    BY <2>4, <2>7, TypeFromParts, PTL DEF TableInv
  <2> QED BY <2>4, <2>5, <2>6, <2>7, <2>8 DEF FInv, TableInv
<1> QED BY <1>1, <1>2

LEMMA UnlinkEndStep ==
    ASSUME FInv, TableInv', SupportedUsage, UnlinkEnd
    PROVE  FInv'
<1>1. PICK p : p = unlinking.path
  OBVIOUS
<1>2. /\ unlinking # NoUnlink /\ unlinking.closed
      /\ meta' = [meta EXCEPT ![p] = NoMeta]
      /\ unlinking' = NoUnlink
      /\ UNCHANGED <<geometry, store, fds, fileInfoPath_, handles, stat, running>>
  BY <1>1 DEF UnlinkEnd, NoUnlink
<1>3. p \in Paths /\ Exists(p) /\ p # stat.path /\ \A h \in Descriptors : handles[h] # p
  BY <1>1, <1>2, FileIOAssumption DEF FileIOAssumption, FInv, TableOK, Requests
<1>4. meta'[p] = NoMeta /\ \A o \in Paths \ {p} : meta'[o] = meta[o]
  BY <1>2, <1>3 DEF FInv, MetaOK
<1>5. ~Exists(p)' /\ \A o \in Paths \cup {NoPath} : o # p => (Exists(o)' <=> Exists(o))
  BY <1>4 DEF Exists
<1>6. owner # p
  <2>1. p # NoPath
    BY <1>3 DEF Exists
  <2> QED BY <1>3, <2>1 DEF FInv, BufferOK
<1>7. MetaOK'
  BY <1>2 DEF FInv, MetaOK, Indexes
<1>8. StoreOK'
  BY <1>2 DEF FInv, TypeOK, StoreOK, geometry, store, Bytes, Units, bigtempbuf_maxcount, usebigblock
<1>9. BlocksHeld'
  <2> SUFFICES ASSUME NEW o \in Paths, NEW x \in Indexes, Exists(o)',
                      x * disk_block_size' < SizeOf(o)'
               PROVE  meta'[o].info[x] < used'
    BY DEF BlocksHeld, Indexes
  <2>1. o # p /\ meta'[o] = meta[o] /\ Exists(o)
    BY <1>4, <1>5
  <2> QED BY <1>2, <2>1 DEF FInv, BlocksHeld, SizeOf, geometry, store
<1>10. BufferOK'
  <2>1. /\ bigtempbuf_counter' = bigtempbuf_counter /\ owner' = owner
        /\ bigtempbuf_maxcount' = bigtempbuf_maxcount /\ usebigblock' = usebigblock
        /\ disk_block_size' = disk_block_size /\ sysblocksize' = sysblocksize
        /\ bigtempbuf' = bigtempbuf /\ handles' = handles
    BY <1>2 DEF geometry, store, bigtempbuf_maxcount, usebigblock
  <2>2. ASSUME owner # NoPath
        PROVE  Exists(owner)' /\ (Length(owner) <= MaxLength)'
    <3>1. Exists(owner) /\ Length(owner) <= MaxLength /\ owner \in Paths
      BY <2>2 DEF FInv, BufferOK, TypeOK
    <3>2. meta'[owner] = meta[owner]
      BY <1>4, <1>6, <3>1
    <3> QED BY <2>1, <3>1, <3>2 DEF Exists, Length, Buffered
  <2>3. ASSUME usebigblock, NEW o \in Paths, Exists(o)'
        PROVE  SizeOf(o)' % disk_block_size' = 0
    BY <1>4, <1>5, <2>1, <2>3 DEF FInv, BufferOK, SizeOf
  <2> QED BY <2>1, <2>2, <2>3 DEF FInv, BufferOK
<1>11. EntriesOK'
  <2>1. ASSUME NEW d \in Descriptors, fileInfoPath_[d] # NoPath
        PROVE  handles'[d] = fileInfoPath_'[d] \/ LeftOver(d)'
    <3>1. handles[d] = fileInfoPath_[d] \/ LeftOver(d)
      BY <1>2, <2>1 DEF FInv, EntriesOK
    <3>2. ASSUME LeftOver(d) PROVE LeftOver(d)'
      <4>1. fileInfoPath_[d] \in Paths \cup {NoPath}
        BY DEF FInv, TableOK
      <4>2. ~Exists(fileInfoPath_[d])'
        BY <1>1, <1>2, <1>5, <3>2, <4>1 DEF LeftOver, Exists
      <4> QED BY <1>2, <3>2, <4>2 DEF LeftOver, Free
    <3> QED BY <1>2, <3>1, <3>2
  <2> QED BY <1>2, <2>1 DEF EntriesOK
<1>12. Requests'
  <2>1. ASSUME NEW h \in Descriptors, handles'[h] # NoPath
        PROVE  Exists(handles[h])' /\ handles'[h] # unlinking'.path
    <3>1. handles[h] \in Paths \cup {NoPath} /\ Exists(handles[h]) /\ handles[h] # p
      BY <1>2, <1>3, <2>1 DEF FInv, TableOK, Requests
    <3> QED BY <1>2, <1>5, <2>1, <3>1 DEF NoUnlink, Exists
  <2>2. stat # NoStat => stat.there = Exists(stat.path)'
    <3>1. stat # NoStat => stat.path \in Paths /\ stat.there = Exists(stat.path)
      BY DEF FInv, Requests
    <3>2. stat # NoStat => Exists(stat.path)' = Exists(stat.path)
      <4>1. Exists(stat.path)' \in BOOLEAN /\ Exists(stat.path) \in BOOLEAN /\ stat' = stat
        BY <1>2 DEF Exists
      <4> QED BY <1>3, <1>5, <3>1, <4>1
    <3> QED BY <3>1, <3>2
  <2>3. stat.there => /\ meta'[stat.path].size # NoSize
                      /\ stat.fd # UNAVAILABLE => handles'[stat.fd] = stat.path
    <3> SUFFICES ASSUME stat.there
                 PROVE  /\ meta'[stat.path].size # NoSize
                        /\ stat.fd # UNAVAILABLE => handles'[stat.fd] = stat.path
      OBVIOUS
    <3>1. stat # NoStat
      BY DEF NoStat
    <3>2. stat.path \in Paths \ {p}
      BY <1>3, <3>1 DEF FInv, Requests
    <3> QED BY <1>2, <1>4, <3>2 DEF FInv, Requests
  <2>4. (\E o \in Paths : Exists(o)') => Free' # {}
    BY <1>2, <1>3 DEF FInv, Requests, Free
  <2> QED BY <1>2, <2>1, <2>2, <2>3, <2>4 DEF FInv, Requests, store
<1>13. TypeOK'
  BY <1>7, <1>8, <1>12, TypeFromParts, PTL DEF TableInv
<1> QED BY <1>7, <1>9, <1>10, <1>11, <1>12, <1>13 DEF FInv, TableInv

LEMMA RemountStep ==
    ASSUME FInv, TableInv', SupportedUsage, Remount
    PROVE  FInv'
<1>1. /\ stat = NoStat /\ unlinking = NoUnlink /\ owner = NoPath
      /\ \A h \in Descriptors : handles[h] = NoPath
      /\ fds' = {} /\ fileInfoPath_' = [fd \in Descriptors |-> NoPath]
      /\ bigtempbuf' = ZeroBlock /\ bigtempbuf_counter' = bigtempbuf_maxcount
      /\ owner' = NoPath
      /\ UNCHANGED <<geometry, block, used, writes, meta, handles, stat, unlinking, running>>
  BY DEF SupportedUsage, Remount, Allowed
<1>2. bigtempbuf_maxcount \in Nat \ {0} /\ MaxWrites \in Nat /\ MaxLength \in Nat
  BY Geometry DEF FInv
<1>3. ZeroBlock \in [Units -> Bytes]
  BY <1>2 DEF ZeroBlock, Zero, Bytes
<1>4. StoreOK'
  BY <1>1, <1>2, <1>3 DEF FInv, TypeOK, StoreOK, geometry, Bytes, Units, bigtempbuf_maxcount,
                          usebigblock
<1>5. MetaOK' /\ BlocksHeld'
  BY <1>1 DEF FInv, geometry, MetaOK, BlocksHeld, Exists, SizeOf, Indexes
<1>6. BufferOK'
  BY <1>1, <1>2 DEF FInv, geometry, BufferOK, Exists, SizeOf, usebigblock, bigtempbuf_maxcount
<1>7. EntriesOK'
  BY <1>1 DEF EntriesOK
<1>8. Requests'
  BY <1>1 DEF FInv, Requests, Exists, Free, NoStat
<1>9. TypeOK'
  BY <1>4, <1>5, <1>8, TypeFromParts, PTL DEF TableInv
<1> QED BY <1>5, <1>6, <1>7, <1>8, <1>9 DEF FInv, TableInv

(* A write, with what the loop comes to. *)
Wrote(p, offset, n, r, m) ==
    /\ WriteOK(p, offset, n) /\ Effect(r, p, offset, n, m)
    /\ block' = r.block /\ used' = r.used
    /\ bigtempbuf' = r.buf /\ bigtempbuf_counter' = r.counter
    /\ owner' = IF r.counter = bigtempbuf_maxcount THEN NoPath ELSE p
    /\ writes' = writes + 1
    /\ meta' = [meta EXCEPT ![p] = [size |-> r.size, info |-> r.info]]
    /\ answer' = Reply("write", p, IF r.full THEN -1 ELSE n, <<>>)
    /\ UNCHANGED <<geometry, fds, fileInfoPath_, handles, stat, unlinking, running>>

LEMMA WriteIs ==
    ASSUME FInv, SupportedUsage, NEW h \in Descriptors,
           NEW offset \in 0 .. MaxLength - 1, NEW n \in 1 .. MaxRequest,
           Write(h, offset, n), ~Exit
    PROVE  \E r : \E m \in 0 .. n : Wrote(handles[h], offset, n, r, m)
<1>1. PICK p : p = fileInfoPath_[h]
  OBVIOUS
<1>2. PICK r : r = Written(MetaOf(p), writes + 1, offset, n)
  OBVIOUS
<1>3. handles[h] # NoPath
  BY DEF Write
<1>4. /\ offset + n <= MaxLength /\ writes < MaxWrites
      /\ Exists(p) => WriteAllowed(p, offset, n)
      /\ block' = r.block /\ used' = r.used
      /\ bigtempbuf' = r.buf /\ bigtempbuf_counter' = r.counter
      /\ owner' = IF r.counter = bigtempbuf_maxcount THEN NoPath ELSE p
      /\ writes' = writes + 1
      /\ meta' = IF r.used > used THEN [meta EXCEPT ![p] = [size |-> r.size, info |-> r.info]]
                 ELSE meta
      /\ answer' = Reply("write", p, IF r.full THEN -1 ELSE n, <<>>)
      /\ UNCHANGED <<geometry, fds, fileInfoPath_, handles, stat, unlinking, running>>
  BY <1>1, <1>2 DEF Write
<1>5. p = handles[h]
  BY <1>1, <1>3 DEF FInv, HandlesOpen, HandleKeepsItsPath
<1>6. p \in Paths /\ Exists(p)
  BY <1>3, <1>5 DEF FInv, TableOK, Requests
<1>7. MetaOf(p) = meta[p]
  BY <1>6 DEF MetaOf
<1>8. WriteOK(p, offset, n)
  <2>1. MaxLength \in Nat /\ MaxRequest \in Nat
    BY FileIOAssumption DEF FileIOAssumption
  <2>2. offset \in Nat /\ n \in Nat \ {0}
    BY <2>1
  <2> QED BY <1>4, <1>6, <2>2 DEF WriteOK
<1>9. PICK m \in 0 .. n : Effect(r, p, offset, n, m)
  BY <1>2, <1>7, <1>8, WriteEffect
<1>10. meta' = [meta EXCEPT ![p] = [size |-> r.size, info |-> r.info]]
  <2>1. CASE r.used > used
    BY <1>4, <2>1
  <2>2. CASE ~(r.used > used)
    <3>1. used \in Nat /\ NumBlocks \in Nat
      BY Geometry DEF FInv, TypeOK
    <3>2. r.used \in used .. NumBlocks
      BY <1>9 DEF Effect, LoopOK, LoopRecord
    <3>3. r.used = used
      BY <2>2, <3>1, <3>2
    <3>4. r.size = meta[p].size /\ r.info = meta[p].info
      BY <1>9, <3>3 DEF Effect
    <3>5. meta[p] = [size |-> r.size, info |-> r.info]
      BY <1>6, <3>4 DEF FInv, MetaOK, Exists
    <3>6. meta' = meta
      BY <1>4, <2>2
    <3>7. meta = [meta EXCEPT ![p] = meta[p]]
      BY <1>6 DEF FInv, MetaOK
    <3> QED BY <3>5, <3>6, <3>7
  <2> QED BY <2>1, <2>2
<1>11. Wrote(p, offset, n, r, m)
  BY <1>4, <1>8, <1>9, <1>10 DEF Wrote
<1> QED BY <1>5, <1>11

LEMMA WroteStep ==
    ASSUME FInv, TableInv', NEW p, NEW offset, NEW n, NEW r, NEW m \in 0 .. n,
           Wrote(p, offset, n, r, m), \E h \in Descriptors : handles[h] = p
    PROVE  FInv' /\ Length(p)' = offset + m
<1>1. /\ LoopOK(r) /\ Effect(r, p, offset, n, m)
      /\ p \in Paths /\ Exists(p) /\ offset \in Nat /\ n \in Nat \ {0}
      /\ offset + n <= MaxLength /\ WriteAllowed(p, offset, n) /\ SupportedUsage
  BY DEF Wrote, WriteOK, Effect
<1>2. /\ block' = r.block /\ used' = r.used
      /\ bigtempbuf' = r.buf /\ bigtempbuf_counter' = r.counter
      /\ owner' = IF r.counter = bigtempbuf_maxcount THEN NoPath ELSE p
      /\ meta' = [meta EXCEPT ![p] = [size |-> r.size, info |-> r.info]]
      /\ UNCHANGED <<fds, fileInfoPath_, handles, stat, unlinking, running>>
      /\ disk_block_size' = disk_block_size /\ sysblocksize' = sysblocksize
      /\ bigtempbuf_maxcount' = bigtempbuf_maxcount /\ usebigblock' = usebigblock
      /\ Units' = Units
      /\ writes' = writes + 1
  BY DEF Wrote, geometry, bigtempbuf_maxcount, usebigblock, Units
<1>3. /\ MaxLength \in Nat /\ NumBlocks \in Nat \ {0} /\ MaxWrites \in Nat
      /\ bigtempbuf_maxcount \in Nat \ {0} /\ NoPath \notin Paths /\ used \in Nat
      /\ sysblocksize \in Nat \ {0} /\ disk_block_size \in Nat \ {0}
  BY Geometry DEF FInv, TypeOK
<1>4. /\ r.block \in [0 .. NumBlocks - 1 -> [Units -> Bytes]]
      /\ r.used \in used .. NumBlocks /\ r.buf \in [Units -> Bytes]
      /\ r.size \in NoSize .. MaxLength /\ r.info \in [Indexes -> 0 .. NumBlocks - 1]
      /\ r.counter \in 1 .. bigtempbuf_maxcount
  BY <1>1 DEF LoopOK, LoopRecord, Effect
<1>5. meta'[p] = [size |-> r.size, info |-> r.info] /\ \A o \in Paths \ {p} : meta'[o] = meta[o]
  BY <1>1, <1>2 DEF FInv, MetaOK
<1>6. meta'[p] # NoMeta
  <2>1. r.size # -2
    BY <1>3, <1>4 DEF NoSize
  <2> QED BY <1>5, <2>1 DEF NoMeta
<1>7. \A o \in Paths \cup {NoPath} : Exists(o)' <=> Exists(o)
  BY <1>1, <1>3, <1>5, <1>6 DEF Exists
<1>8. MetaOK'
  BY <1>1, <1>2, <1>4 DEF FInv, MetaOK, Indexes
<1>9. StoreOK'
  <2>1. writes + 1 \in 0 .. MaxWrites
    <3>1. writes \in 0 .. MaxWrites /\ writes < MaxWrites
      BY DEF Wrote, WriteOK, FInv, TypeOK
    <3> QED BY <1>3, <3>1
  <2>2. r.used \in 0 .. NumBlocks /\ r.counter \in 0 .. bigtempbuf_maxcount
    BY <1>3, <1>4
  <2>3. owner' \in Paths \cup {NoPath}
    BY <1>1, <1>2
  <2> QED BY <1>2, <1>4, <2>1, <2>2, <2>3 DEF FInv, TypeOK, StoreOK, Bytes
<1>10. SizeOf(p)' = SSize(r)
  BY <1>5 DEF SizeOf, SSize
<1>11. /\ SSize(r) + (bigtempbuf_maxcount - r.counter) * sysblocksize = offset + m
       /\ usebigblock => SSize(r) % disk_block_size = 0
       /\ r.size = NoSize => meta[p].size = NoSize
  BY <1>1 DEF Effect
<1>12. BlocksHeld'
  <2> SUFFICES ASSUME NEW o \in Paths, NEW x \in Indexes, Exists(o)',
                      x * disk_block_size < SizeOf(o)'
               PROVE  meta'[o].info[x] < used'
    BY <1>2 DEF BlocksHeld, Indexes
  <2>1. CASE o = p
    <3>1. meta'[o].info = r.info
      BY <1>5, <2>1
    <3> QED BY <1>1, <1>2, <1>10, <2>1, <3>1 DEF LoopOK
  <2>2. CASE o # p
    <3>1. meta'[o] = meta[o] /\ Exists(o)
      BY <1>5, <1>7, <2>2
    <3>2. x * disk_block_size < SizeOf(o)
      BY <3>1 DEF SizeOf
    <3>3. meta[o].info[x] < used /\ meta[o].info[x] \in 0 .. NumBlocks - 1
      BY <3>1, <3>2 DEF FInv, BlocksHeld, TypeOK
    <3> QED BY <1>2, <1>3, <1>4, <3>1, <3>3
  <2> QED BY <2>1, <2>2
<1>13. PICK slots \in Nat : slots = (bigtempbuf_maxcount - r.counter) * sysblocksize
  BY <1>3, <1>4, Slots
<1>14. Len(Buffered(p))' = slots
  <2>1. CASE r.counter = bigtempbuf_maxcount
    <3>1. slots = 0
      BY <1>3, <1>4, <1>13, <2>1, Slots
    <3>2. Buffered(p)' = <<>>
      BY <1>1, <1>2, <1>3, <2>1 DEF Buffered
    <3> QED BY <3>1, <3>2
  <2>2. CASE r.counter # bigtempbuf_maxcount
    <3>1. Buffered(p)' = [i \in 1 .. slots |-> bigtempbuf'[i - 1]]
      BY <1>2, <1>13, <2>2 DEF Buffered
    <3> QED BY <1>13, <3>1
  <2> QED BY <2>1, <2>2
<1>15. Length(p)' = offset + m
  <2>1. Length(p)' = SSize(r) + slots
    BY <1>10, <1>14 DEF Length, SizeOf
  <2> QED BY <1>11, <1>13, <2>1
<1>16. BufferOK'
  <2>1. bigtempbuf_counter' \in 1 .. bigtempbuf_maxcount'
    BY <1>2, <1>4
  <2>2. owner' = NoPath <=> bigtempbuf_counter' = bigtempbuf_maxcount'
    BY <1>1, <1>2, <1>3
  <2>3. ASSUME owner' # NoPath
        PROVE  /\ Exists(owner)' /\ (Length(owner) <= MaxLength)'
               /\ \E h \in Descriptors : handles'[h] = owner'
    <3>1. owner' = p
      BY <1>2, <2>3
    <3>2. Exists(owner)' /\ Length(owner)' = offset + m
      BY <1>1, <1>6, <1>15, <2>3, <3>1 DEF Exists, Length, Buffered
    <3>3. offset + m <= MaxLength
      BY <1>1, <1>3
    <3> QED BY <1>2, <3>1, <3>2, <3>3
  <2>4. ASSUME usebigblock', NEW o \in Paths, Exists(o)'
        PROVE  SizeOf(o)' % disk_block_size' = 0
    <3>1. CASE o = p
      BY <1>2, <1>10, <1>11, <2>4, <3>1
    <3>2. CASE o # p
      <4>1. SizeOf(o)' = SizeOf(o) /\ Exists(o)
        BY <1>5, <1>7, <2>4, <3>2 DEF SizeOf
      <4> QED BY <1>2, <2>4, <4>1 DEF FInv, BufferOK
    <3> QED BY <3>1, <3>2
  <2> QED BY <2>1, <2>2, <2>3, <2>4 DEF BufferOK
<1>17. EntriesOK'
  <2>1. ASSUME NEW d \in Descriptors, LeftOver(d) PROVE LeftOver(d)'
    <3>1. fileInfoPath_[d] \in Paths \cup {NoPath}
      BY DEF FInv, TableOK
    <3>2. Exists(fileInfoPath_[d])' <=> Exists(fileInfoPath_[d])
      BY <1>2, <1>7, <3>1 DEF Exists
    <3> QED BY <1>2, <2>1, <3>2 DEF LeftOver, Free
  <2> QED BY <1>2, <2>1 DEF FInv, EntriesOK
<1>18. Requests'
  <2>1. ASSUME NEW h \in Descriptors, handles'[h] # NoPath
        PROVE  Exists(handles[h])' /\ handles'[h] # unlinking'.path
    <3>1. handles[h] \in Paths \cup {NoPath} /\ Exists(handles[h]) /\ handles[h] # unlinking.path
      BY <1>2, <2>1 DEF FInv, TableOK, Requests
    <3> QED BY <1>2, <1>7, <3>1 DEF Exists
  <2>2. unlinking' # NoUnlink => Exists(unlinking.path)' /\ unlinking'.path # stat'.path
    <3> SUFFICES ASSUME unlinking # NoUnlink
                 PROVE  Exists(unlinking.path)' /\ unlinking.path # stat.path
      BY <1>2
    <3>1. unlinking.path \in Paths /\ Exists(unlinking.path) /\ unlinking.path # stat.path
      BY DEF FInv, TableOK, Requests
    <3> QED BY <1>2, <1>7, <3>1 DEF Exists
  <2>3. /\ stat' = NoStat \/ (stat'.path \in Paths /\ stat'.path # owner')
        /\ stat' \in [path : Paths \cup {NoPath}, there : BOOLEAN,
                      fd : Descriptors \cup {UNAVAILABLE}]
    <3>1. CASE usebigblock
      <4>1. stat.path # p
        BY <1>1, <3>1 DEF SupportedUsage, WriteAllowed, Allowed
      <4> QED BY <1>2, <1>3, <4>1 DEF FInv, Requests
    <3>2. CASE ~usebigblock
      <4>1. r.counter = bigtempbuf_maxcount
        BY <1>4, <3>2, Geometry DEF FInv
      <4> QED BY <1>2, <1>3, <4>1 DEF FInv, Requests
    <3> QED BY <3>1, <3>2
  <2>4. stat' # NoStat => stat'.there = Exists(stat.path)'
    <3>1. stat # NoStat => stat.path \in Paths /\ stat.there = Exists(stat.path)
      BY DEF FInv, Requests
    <3>2. stat # NoStat => Exists(stat.path)' = Exists(stat.path)
      <4>1. Exists(stat.path)' \in BOOLEAN /\ Exists(stat.path) \in BOOLEAN /\ stat' = stat
        BY <1>2 DEF Exists
      <4> QED BY <1>7, <3>1, <4>1
    <3> QED BY <1>2, <3>1, <3>2
  <2>5. stat.there => /\ meta'[stat.path].size # NoSize
                      /\ stat.fd # UNAVAILABLE => handles'[stat.fd] = stat.path
    <3> SUFFICES ASSUME stat.there
                 PROVE  /\ meta'[stat.path].size # NoSize
                        /\ stat.fd # UNAVAILABLE => handles'[stat.fd] = stat.path
      OBVIOUS
    <3>1. stat # NoStat
      BY DEF NoStat
    <3>2. stat.path \in Paths /\ meta[stat.path].size # NoSize
      BY <3>1 DEF FInv, Requests
    <3>3. meta'[stat.path].size # NoSize
      BY <1>5, <1>11, <3>2
    <3> QED BY <1>2, <3>3 DEF FInv, Requests
  <2>6. (\E o \in Paths : Exists(o)') => Free' # {}
    BY <1>1, <1>2 DEF FInv, Requests, Free
  <2> QED BY <1>2, <2>1, <2>2, <2>3, <2>4, <2>5, <2>6 DEF Requests
<1>19. TypeOK'
  BY <1>8, <1>9, <1>18, TypeFromParts, PTL DEF TableInv
<1> QED BY <1>8, <1>12, <1>15, <1>16, <1>17, <1>18, <1>19 DEF FInv, TableInv

LEMMA FStep ==
    ASSUME FInv, SupportedUsage, [Next]_vars
    PROVE  FInv'
<1>1. TableInv'
  BY TableStep DEF FInv, TableInv
<1>2. ASSUME NEW p \in Paths, Create(p) \/ Open(p) PROVE FInv'
  BY <1>1, <1>2, OpenedStep
<1>3. ASSUME NEW p \in Paths, StatStart(p) PROVE FInv'
  BY <1>1, <1>3, StatStartStep
<1>4. ASSUME NEW p \in Paths, UnlinkStart(p) PROVE FInv'
  BY <1>1, <1>4, UnlinkStartStep
<1>5. ASSUME NEW h \in Descriptors, Release(h) PROVE FInv'
  BY <1>1, <1>5, ReleaseStep
<1>6. ASSUME Exit PROVE FInv'
  BY <1>1, <1>6, StillStep DEF Exit
<1>7. ASSUME NEW h \in Descriptors, NEW offset \in 0 .. MaxLength - 1, NEW n \in 1 .. MaxRequest,
             Write(h, offset, n)
      PROVE  FInv'
  <2>1. CASE Exit
    BY <1>6, <2>1
  <2>2. CASE ~Exit
    <3>1. PICK r : \E m \in 0 .. n : Wrote(handles[h], offset, n, r, m)
      BY <1>7, <2>2, WriteIs
    <3>2. PICK m \in 0 .. n : Wrote(handles[h], offset, n, r, m)
      BY <3>1
    <3> QED BY <1>1, <3>2, WroteStep
  <2> QED BY <2>1, <2>2
<1>8. ASSUME NEW h \in Descriptors, NEW offset \in 0 .. MaxLength - 1, NEW n \in 1 .. MaxRequest,
             Read(h, offset, n)
      PROVE  FInv'
  <2>1. CASE Exit
    BY <1>6, <2>1
  <2>2. CASE ~Exit
    <3>1. UNCHANGED <<geometry, store, meta, fds, fileInfoPath_, handles, stat, unlinking, running>>
      BY <1>8, <2>2 DEF Read
    <3> QED BY <1>1, <3>1, StillStep DEF FInv, TypeOK
  <2> QED BY <2>1, <2>2
<1>9. ASSUME StatEnd PROVE FInv'
  BY <1>1, <1>9, StatEndStep
<1>10. ASSUME UnlinkClose PROVE FInv'
  BY <1>1, <1>10, UnlinkCloseStep
<1>11. ASSUME UnlinkEnd PROVE FInv'
  BY <1>1, <1>11, UnlinkEndStep
<1>12. ASSUME Remount PROVE FInv'
  BY <1>1, <1>12, RemountStep
<1>13. ASSUME UNCHANGED vars PROVE FInv'
  BY <1>1, <1>13, StillStep DEF vars, FInv, TypeOK
<1> QED BY <1>2, <1>3, <1>4, <1>5, <1>7, <1>8, <1>9, <1>10, <1>11, <1>12, <1>13 DEF Next

(* For users that keep to what the code supports: the sizes of files, their *)
(* blocks, the buffer and its counter, the descriptors and the entries of  *)
(* the table stay what ncfs.cc and no_cache.cc declare them to be.         *)
THEOREM TypeCorrect == SupportedUsage /\ Spec => []TypeOK
<1> SUFFICES ASSUME SupportedUsage PROVE Spec => []TypeOK
  OBVIOUS
<1>1. FInv /\ [Next]_vars => FInv'
  BY FStep
<1>2. FInv => TypeOK
  BY DEF FInv
<1> QED BY <1>1, <1>2, FInit, PTL DEF Spec

-----------------------------------------------------------------------------
(* The refinement.  What users have stored, as FileStore has it.           *)
ContentsOK ==
    /\ Contents = [p \in Paths |-> Contents[p]]
    /\ \A p \in Paths :
          IF Exists(p)
          THEN /\ Length(p) \in 0 .. MaxLength
               /\ Contents[p] \in Seq(Bytes) /\ Len(Contents[p]) = Length(p)
               /\ \A i \in 1 .. Length(p) : Contents[p][i] = Was(p, i - 1)
               /\ Contents[p] # Files!NoFile
          ELSE Contents[p] = Files!NoFile

LEMMA ContentsAre == FInv => ContentsOK
<1> SUFFICES ASSUME FInv PROVE ContentsOK
  OBVIOUS
<1>1. /\ MaxLength \in Nat /\ NumBlocks \in Nat \ {0} /\ MaxWrites \in Nat
      /\ bigtempbuf_maxcount \in Nat \ {0} /\ NoPath \notin Paths
      /\ sysblocksize \in Nat \ {0} /\ disk_block_size \in Nat \ {0}
  BY Geometry DEF FInv
<1>2. Contents = [p \in Paths |-> Contents[p]]
  BY DEF Contents
<1>3. ASSUME NEW p \in Paths, ~Exists(p) PROVE Contents[p] = Files!NoFile
  BY <1>3 DEF Contents, Files!NoFile
<1>4. ASSUME NEW p \in Paths, Exists(p)
      PROVE  /\ Length(p) \in 0 .. MaxLength
             /\ Contents[p] \in Seq(Bytes) /\ Len(Contents[p]) = Length(p)
             /\ \A i \in 1 .. Length(p) : Contents[p][i] = Was(p, i - 1)
             /\ Contents[p] # Files!NoFile
  <2>1. PICK z \in Nat : z = SizeOf(p) /\ z <= MaxLength
    <3>1. meta[p].size \in NoSize .. MaxLength
      BY <1>4 DEF FInv, TypeOK
    <3> QED BY <1>1, <3>1 DEF SizeOf, NoSize
  <2>2. PICK slots \in Nat : slots = (bigtempbuf_maxcount - bigtempbuf_counter) * sysblocksize
    <3>1. bigtempbuf_counter \in 1 .. bigtempbuf_maxcount
      BY DEF FInv, BufferOK
    <3> QED BY <1>1, <3>1, Slots
  <2>3. PICK b : b = Buffered(p)
    OBVIOUS
  <2>4. /\ b \in Seq(Bytes) /\ Len(b) \in Nat /\ z + Len(b) <= MaxLength
        /\ \A i \in 1 .. Len(b) : b[i] = bigtempbuf[i - 1]
    <3>1. CASE owner # p
      <4>1. b = <<>>
        BY <2>3, <3>1 DEF Buffered
      <4>2. b \in Seq(Bytes) /\ Len(b) = 0
        BY <4>1, EmptySeq
      <4> QED BY <1>1, <2>1, <4>2
    <3>2. CASE owner = p
      <4>1. b = [i \in 1 .. slots |-> bigtempbuf[i - 1]]
        BY <2>2, <2>3, <3>2 DEF Buffered
      <4>2. Length(p) <= MaxLength
        BY <1>1, <3>2 DEF FInv, BufferOK
      <4>3. Len(b) = slots
        BY <2>2, <4>1
      <4>4. z + slots <= MaxLength
        BY <2>1, <2>3, <4>2, <4>3 DEF Length, SizeOf
      <4>5. slots <= disk_block_size
        <5>1. CASE usebigblock
          <6>1. bigtempbuf_counter \in 1 .. bigtempbuf_maxcount
            BY DEF FInv, BufferOK
          <6>2. bigtempbuf_maxcount * sysblocksize = disk_block_size
            BY <5>1, Geometry DEF FInv
          <6>3. slots + sysblocksize <= bigtempbuf_maxcount * sysblocksize
            BY <1>1, <2>2, <6>1, Slots
          <6> QED BY <1>1, <2>2, <6>2, <6>3
        <5>2. CASE ~usebigblock
          <6>1. bigtempbuf_maxcount = 1 /\ bigtempbuf_counter \in 1 .. bigtempbuf_maxcount
            BY <5>2, Geometry DEF FInv, BufferOK
          <6>2. slots = 0
            BY <1>1, <2>2, <6>1
          <6> QED BY <1>1, <6>2
        <5> QED BY <5>1, <5>2
      <4>6. \A i \in 1 .. slots : bigtempbuf[i - 1] \in Bytes
        <5> SUFFICES ASSUME NEW i \in 1 .. slots PROVE bigtempbuf[i - 1] \in Bytes
          OBVIOUS
        <5>1. i - 1 \in Units
          BY <1>1, <2>2, <4>5 DEF Units
        <5> QED BY <5>1 DEF FInv, TypeOK, Bytes
      <4>7. b \in Seq(Bytes)
        BY <2>2, <4>1, <4>6
      <4> QED BY <2>2, <4>1, <4>3, <4>4, <4>7
    <3> QED BY <3>1, <3>2
  <2>5. Length(p) = z + Len(b) /\ Length(p) - Len(Buffered(p)) = z
    BY <2>1, <2>3, <2>4 DEF Length, SizeOf
  <2>6. ASSUME NEW j \in 0 .. z - 1 PROVE Byte(meta[p], j) \in Bytes
    <3>1. PICK x, u : x = j \div disk_block_size /\ u = j % disk_block_size
      OBVIOUS
    <3>2. x \in Nat /\ u \in Units /\ x <= j
      <4>1. PICK D \in Nat \ {0} : D = disk_block_size
        BY <1>1
      <4>2. x \in Nat /\ u \in 0 .. D - 1 /\ j = x * D + u
        <5>1. j \in Nat
          BY <2>1
        <5> QED BY <3>1, <4>1, <5>1, DivMod
      <4>3. x * 1 <= x * D
        BY <4>2
      <4>4. x * D \in Nat
        BY <4>2
      <4> QED BY <4>1, <4>2, <4>3, <4>4 DEF Units
    <3>3. x \in Indexes
      BY <1>1, <2>1, <3>2 DEF Indexes
    <3>4. meta[p].info[x] \in 0 .. NumBlocks - 1
      BY <1>4, <3>3 DEF FInv, TypeOK
    <3> QED BY <3>1, <3>2, <3>4, SMTT(30) DEF FInv, TypeOK, Byte, Bytes
  <2>7. PICK a : a = [i \in 1 .. z |-> Byte(meta[p], i - 1)]
    OBVIOUS
  <2>8. a \in Seq(Bytes) /\ Len(a) = z /\ \A i \in 1 .. z : a[i] = Byte(meta[p], i - 1)
    <3>1. \A i \in 1 .. z : Byte(meta[p], i - 1) \in Bytes
      <4> SUFFICES ASSUME NEW i \in 1 .. z PROVE Byte(meta[p], i - 1) \in Bytes
        OBVIOUS
      <4>1. i - 1 \in 0 .. z - 1
        BY <2>1
      <4> QED BY <2>6, <4>1
    <3> QED BY <2>1, <2>7, <3>1
  <2>9. Contents[p] = a \o b
    BY <1>4, <2>3, <2>5, <2>7 DEF Contents
  <2>10. /\ Contents[p] \in Seq(Bytes) /\ Len(Contents[p]) = z + Len(b)
         /\ \A i \in 1 .. z + Len(b) : Contents[p][i] = IF i <= z THEN a[i] ELSE b[i - z]
    <3>1. /\ a \o b \in Seq(Bytes) /\ Len(a \o b) = Len(a) + Len(b)
          /\ \A i \in 1 .. Len(a) + Len(b) : (a \o b)[i] = IF i <= Len(a) THEN a[i] ELSE b[i - Len(a)]
      <4> HIDE DEF Bytes
      <4>1. a \in Seq(Bytes) /\ b \in Seq(Bytes)
        BY <2>4, <2>8
      <4> QED BY <4>1, ConcatProperties
    <3> QED BY <2>8, <2>9, <3>1
  <2>11. \A i \in 1 .. Length(p) : Contents[p][i] = Was(p, i - 1)
    <3> SUFFICES ASSUME NEW i \in 1 .. z + Len(b) PROVE Contents[p][i] = Was(p, i - 1)
      BY <2>5
    <3>1. CASE i <= z
      BY <2>1, <2>4, <2>8, <2>10, <3>1 DEF Was
    <3>2. CASE ~(i <= z)
      <4>1. i - z \in 1 .. Len(b) /\ ~(i - 1 < z) /\ (i - z) - 1 = (i - 1) - z
        BY <2>1, <2>4, <3>2
      <4> QED BY <2>1, <2>4, <2>10, <3>2, <4>1 DEF Was
    <3> QED BY <3>1, <3>2
  <2>12. Contents[p] # Files!NoFile
    <3> SUFFICES ASSUME Contents[p] = <<<<-1, -1>>>> PROVE FALSE
      BY DEF Files!NoFile
    <3>1. Len(Contents[p]) = 1 /\ Contents[p][1] = <<-1, -1>>
      OBVIOUS
    <3>2. <<-1, -1>> \in Bytes
      BY <2>10, <3>1, ElementOfSeq
    <3> QED BY <1>1, <3>2 DEF Bytes
  <2> QED BY <2>1, <2>4, <2>5, <2>10, <2>11, <2>12
<1> QED BY <1>2, <1>3, <1>4 DEF ContentsOK

FilesStep == [Files!Next]_<<Contents, answer>>

(* Files whose bytes stay. *)
LEMMA FileStays ==
    ASSUME NEW o \in Paths, UNCHANGED <<disk_block_size, sysblocksize, block>>,
           meta'[o] = meta[o], Buffered(o)' = Buffered(o)
    PROVE  Contents'[o] = Contents[o]
  BY DEF Contents, Exists, Length, Byte

LEMMA ContentsStay ==
    ASSUME UNCHANGED <<disk_block_size, sysblocksize, block, meta>>,
           \A p \in Paths : Buffered(p)' = Buffered(p)
    PROVE  Contents' = Contents
<1>1. \A p \in Paths : Contents'[p] = Contents[p]
  BY FileStays
<1>2. Contents = [p \in Paths |-> Contents[p]] /\ Contents' = [p \in Paths |-> Contents'[p]]
  BY DEF Contents
<1> QED BY <1>1, <1>2

LEMMA StoreUnchanged ==
    ASSUME UNCHANGED <<geometry, store, meta>>
    PROVE  Contents' = Contents
<1>1. \A p \in Paths : Buffered(p)' = Buffered(p)
  BY DEF Buffered, geometry, store, bigtempbuf_maxcount, usebigblock
<1> QED BY <1>1, ContentsStay DEF geometry, store

(* A file that stays what it is while another is written. *)
LEMMA SameFile ==
    ASSUME ContentsOK, ContentsOK', NEW o \in Paths, Exists(o), Exists(o)',
           Length(o)' = Length(o),
           \A j \in 0 .. Length(o) - 1 : Was(o, j)' = Was(o, j)
    PROVE  Contents'[o] = Contents[o]
<1>1. PICK n : n = Length(o)
  OBVIOUS
<1>2. /\ Contents[o] \in Seq(Bytes) /\ Len(Contents[o]) = n
      /\ \A i \in 1 .. n : Contents[o][i] = Was(o, i - 1)
      /\ Contents'[o] \in Seq(Bytes) /\ Len(Contents'[o]) = n
      /\ \A i \in 1 .. n : Contents'[o][i] = Was(o, i - 1)'
      /\ n \in Nat
  BY <1>1, FileIOAssumption DEF ContentsOK, Bytes, FileIOAssumption
<1>3. \A i \in 1 .. n : Contents'[o][i] = Contents[o][i]
  <2> SUFFICES ASSUME NEW i \in 1 .. n PROVE Contents'[o][i] = Contents[o][i]
    OBVIOUS
  <2>1. i - 1 \in 0 .. Length(o) - 1
    BY <1>1, <1>2
  <2> QED BY <1>2, <2>1
<1> QED
  <2> HIDE DEF Bytes
  <2> QED BY <1>2, <1>3, SeqEqual

LEMMA CreateRefines ==
    ASSUME ContentsOK, ContentsOK', FInv, NEW p \in Paths, Create(p)
    PROVE  FilesStep
<1>1. /\ ~Exists(p) /\ meta' = [meta EXCEPT ![p] = EmptyMeta] /\ answer' = answer
      /\ UNCHANGED <<geometry, store>>
  BY DEF Create, Opened
<1>2. p # NoPath
  BY FileIOAssumption DEF FileIOAssumption
<1>3. meta'[p] = EmptyMeta /\ \A o \in Paths \ {p} : meta'[o] = meta[o]
  BY <1>1 DEF FInv, MetaOK
<1>4. Contents'[p] = <<>>
  <2>1. Exists(p)'
    BY <1>2, <1>3 DEF Exists, EmptyMeta, NoMeta, NoSize
  <2>2. Buffered(p)' = <<>>
    <3>1. owner' # p
      BY <1>1, <1>2 DEF FInv, BufferOK, store
    <3> QED BY <3>1 DEF Buffered
  <2>3. Length(p)' = 0
    BY <1>3, <2>2 DEF Length, EmptyMeta
  <2>4. Contents'[p] \in Seq(Bytes) /\ Len(Contents'[p]) = 0
    BY <2>1, <2>3 DEF ContentsOK, Bytes
  <2> QED
    <3> HIDE DEF Bytes
    <3> QED BY <2>4, EmptySeq
<1>5. \A o \in Paths \ {p} : Contents'[o] = Contents[o]
  <2>1. \A o \in Paths : Buffered(o)' = Buffered(o)
    BY <1>1 DEF Buffered, geometry, store, bigtempbuf_maxcount, usebigblock
  <2> QED BY <1>1, <1>3, <2>1, FileStays DEF geometry, store
<1>6. Contents[p] = Files!NoFile /\ Contents' = [Contents EXCEPT ![p] = <<>>]
  BY <1>1, <1>4, <1>5 DEF ContentsOK
<1>7. Files!Create(p)
  BY <1>1, <1>6 DEF Files!Create
<1> QED BY <1>7 DEF FilesStep, Files!Next

LEMMA RemoveRefines ==
    ASSUME ContentsOK, ContentsOK', FInv, UnlinkEnd
    PROVE  FilesStep
<1>1. PICK p : p = unlinking.path
  OBVIOUS
<1>2. /\ unlinking # NoUnlink /\ meta' = [meta EXCEPT ![p] = NoMeta]
      /\ UNCHANGED <<geometry, store, answer>>
  BY <1>1 DEF UnlinkEnd, NoUnlink
<1>3. p \in Paths /\ Exists(p)
  BY <1>1, <1>2 DEF FInv, TableOK, Requests
<1>4. meta'[p] = NoMeta /\ \A o \in Paths \ {p} : meta'[o] = meta[o]
  BY <1>2, <1>3 DEF FInv, MetaOK
<1>5. Contents'[p] = Files!NoFile
  BY <1>3, <1>4 DEF ContentsOK, Exists
<1>6. \A o \in Paths \ {p} : Contents'[o] = Contents[o]
  <2>1. \A o \in Paths : Buffered(o)' = Buffered(o)
    BY <1>2 DEF Buffered, geometry, store, bigtempbuf_maxcount, usebigblock
  <2> QED BY <1>2, <1>4, <2>1, FileStays DEF geometry, store
<1>7. Contents[p] # Files!NoFile /\ Contents' = [Contents EXCEPT ![p] = Files!NoFile]
  BY <1>3, <1>5, <1>6 DEF ContentsOK
<1>8. Files!Remove(p)
  BY <1>2, <1>7 DEF Files!Remove
<1> QED BY <1>3, <1>8 DEF FilesStep, Files!Next

LEMMA StatRefines ==
    ASSUME ContentsOK, FInv, StatEnd, ~Exit
    PROVE  FilesStep
<1>1. PICK p : p = stat.path
  OBVIOUS
<1>2. /\ stat # NoStat /\ UNCHANGED <<geometry, store, meta>>
      /\ \E size \in SizeRead(IF stat.fd = UNAVAILABLE THEN p ELSE fileInfoPath_[stat.fd]) :
            answer' = Reply("stat", p, IF stat.there THEN size ELSE -1, <<>>)
  BY <1>1 DEF StatEnd
<1>3. /\ p \in Paths /\ p # owner /\ p # NoPath /\ stat.there = Exists(p)
      /\ stat.fd \in Descriptors \cup {UNAVAILABLE}
  BY <1>1, <1>2, FileIOAssumption DEF FileIOAssumption, FInv, Requests
<1>4. Contents' = Contents
  BY <1>2, StoreUnchanged
<1>5. CASE Exists(p)
  <2>1. /\ meta[p].size # NoSize /\ Free # {}
        /\ stat.fd # UNAVAILABLE => handles[stat.fd] = p
    BY <1>1, <1>3, <1>5 DEF FInv, Requests
  <2>2. stat.fd # UNAVAILABLE => fileInfoPath_[stat.fd] = p
    BY <1>3, <2>1 DEF FInv, HandlesOpen, HandleKeepsItsPath
  <2>3. SizeRead(p) = {meta[p].size}
    BY <1>5, <2>1 DEF SizeRead
  <2>4. answer' = Reply("stat", p, meta[p].size, <<>>)
    BY <1>2, <1>3, <1>5, <2>2, <2>3
  <2>5. Len(Contents[p]) = meta[p].size /\ Contents[p] # Files!NoFile
    <3>1. Length(p) = meta[p].size
      <4>1. Buffered(p) = <<>>
        BY <1>3 DEF Buffered
      <4>2. meta[p].size \in NoSize .. MaxLength
        BY <1>3, <1>5 DEF FInv, TypeOK
      <4> QED BY <2>1, <4>1, <4>2, Geometry DEF Length, NoSize, FInv
    <3> QED BY <1>3, <1>5, <3>1 DEF ContentsOK
  <2>6. Files!Stat(p)
    BY <1>4, <2>4, <2>5 DEF Files!Stat, Files!Reply, Reply
  <2> QED BY <1>3, <2>6 DEF FilesStep, Files!Next
<1>6. CASE ~Exists(p)
  <2>1. answer' = Reply("stat", p, -1, <<>>)
    BY <1>2, <1>3, <1>6
  <2>2. Contents[p] = Files!NoFile
    BY <1>3, <1>6 DEF ContentsOK
  <2>3. Files!Stat(p)
    BY <1>4, <2>1, <2>2 DEF Files!Stat, Files!Reply, Reply
  <2> QED BY <1>3, <2>3 DEF FilesStep, Files!Next
<1> QED BY <1>5, <1>6

(* A read returns a byte at least, and no more than the file has. *)
LEMMA ReadCount ==
    ASSUME TypeOK, NEW offset \in Nat, NEW n \in Nat \ {0}
    PROVE  bytes_read(offset, n) \in Nat \ {0}
<1>1. PICK D \in Nat \ {0} : D = disk_block_size
  BY Geometry
<1>2. PICK asked : asked = IF usebigblock THEN Min({n, disk_block_size}) ELSE n
  OBVIOUS
<1>3. asked \in Nat \ {0}
  <2>1. Min({n, D}) = IF n <= D THEN n ELSE D
    BY <1>1, MinOfTwo
  <2> QED BY <1>1, <1>2, <2>1
<1>4. PICK e : e = offset + asked
  OBVIOUS
<1>5. e \in Nat
  BY <1>3, <1>4
<1>6. PICK x, y : x = offset % D /\ y = e % D
  OBVIOUS
<1>7. x \in 0 .. D - 1 /\ y \in 0 .. D - 1
  BY <1>1, <1>5, <1>6, DivMod
<1>8. PICK f : f = finishedSize(offset, asked)
  OBVIOUS
<1>9. f = IF endBlock(offset, asked) <= startBlock(offset) THEN D - x
          ELSE (D - x) + (IF y = 0 THEN D ELSE y)
  BY <1>1, <1>4, <1>6, <1>8 DEF finishedSize
<1>10. f \in Nat \ {0}
  BY <1>1, <1>7, <1>9
<1>11. bytes_read(offset, n) = Min({f, asked})
  BY <1>2, <1>8 DEF bytes_read
<1>12. Min({f, asked}) = IF f <= asked THEN f ELSE asked
  BY <1>3, <1>10, MinOfTwo
<1> QED BY <1>3, <1>10, <1>11, <1>12

LEMMA ReadRefines ==
    ASSUME ContentsOK, FInv, SupportedUsage, NEW h \in Descriptors,
           NEW offset \in 0 .. MaxLength - 1, NEW n \in 1 .. MaxRequest,
           Read(h, offset, n), ~Exit
    PROVE  FilesStep
<1>1. PICK p : p = fileInfoPath_[h]
  OBVIOUS
<1>2. PICK count : count = Min({bytes_read(offset, n), meta[p].size - offset})
  OBVIOUS
<1>3. /\ handles[h] # NoPath
      /\ Exists(p) => offset < Length(p) /\ Quiescent(p)
      /\ answer' = Reply("read", p, count, [i \in 1 .. count |-> Byte(meta[p], offset + i - 1)])
      /\ UNCHANGED <<geometry, store, meta>>
  BY <1>1, <1>2 DEF Read
<1>4. p = handles[h] /\ p \in Paths /\ Exists(p)
  BY <1>1, <1>3 DEF FInv, TableOK, HandlesOpen, HandleKeepsItsPath, Requests
<1>5. offset < Length(p) /\ owner # p
  BY <1>3, <1>4 DEF SupportedUsage, Quiescent, Allowed
<1>6. Contents' = Contents
  BY <1>3, StoreUnchanged
<1>7. MaxLength \in Nat /\ offset \in Nat /\ n \in Nat \ {0}
  <2>1. MaxLength \in Nat /\ MaxRequest \in Nat
    BY FileIOAssumption DEF FileIOAssumption
  <2> QED BY <2>1
<1>8. PICK L \in 0 .. MaxLength : L = Length(p)
  BY <1>4 DEF ContentsOK
<1>9. meta[p].size = L
  <2>1. Buffered(p) = <<>>
    BY <1>5 DEF Buffered
  <2>2. meta[p].size \in NoSize .. MaxLength
    BY <1>4 DEF FInv, TypeOK
  <2> QED BY <1>5, <1>7, <1>8, <2>1, <2>2 DEF Length, NoSize
<1>10. count \in 1 .. MaxLength /\ offset + count <= L
  <2>1. PICK b \in Nat \ {0} : b = bytes_read(offset, n)
    BY <1>7, ReadCount DEF FInv
  <2>2. PICK rest \in Nat \ {0} : rest = L - offset
    BY <1>5, <1>7, <1>8
  <2>3. Min({b, rest}) = IF b <= rest THEN b ELSE rest
    BY <2>1, <2>2, MinOfTwo
  <2>4. count = IF b <= rest THEN b ELSE rest
    BY <1>2, <1>9, <2>1, <2>2, <2>3
  <2> QED BY <1>7, <1>8, <2>1, <2>2, <2>4
<1>11. PICK s : s = Contents[p]
  OBVIOUS
<1>12. /\ s \in Seq(Bytes) /\ Len(s) = L /\ s # Files!NoFile
       /\ \A i \in 1 .. L : s[i] = Was(p, i - 1)
  BY <1>4, <1>8, <1>11 DEF ContentsOK
<1>13. \A i \in 1 .. L : s[i] = Byte(meta[p], i - 1)
  <2> SUFFICES ASSUME NEW i \in 1 .. L PROVE s[i] = Byte(meta[p], i - 1)
    OBVIOUS
  <2>1. i - 1 < SizeOf(p)
    BY <1>8, <1>9 DEF SizeOf, NoSize
  <2> QED BY <1>12, <2>1 DEF Was
<1>14. SubSeq(s, offset + 1, offset + count)
         = [i \in 1 .. count |-> Byte(meta[p], offset + i - 1)]
  <2>1. PICK a, b : a = offset + 1 /\ b = offset + count
    OBVIOUS
  <2>2. a \in Int /\ b \in Int /\ b - a + 1 = count /\ a <= b /\ 1 <= a /\ b <= L
    BY <1>7, <1>10, <2>1
  <2>3. \A i \in a .. b : s[i] \in Bytes
    <3> SUFFICES ASSUME NEW i \in a .. b PROVE s[i] \in Bytes
      OBVIOUS
    <3>1. i \in 1 .. Len(s)
      BY <1>8, <1>12, <2>2
    <3> HIDE DEF Bytes
    <3> QED BY <1>12, <3>1, ElementOfSeq
  <2>4. /\ SubSeq(s, a, b) \in Seq(Bytes)
        /\ Len(SubSeq(s, a, b)) = IF a <= b THEN b - a + 1 ELSE 0
        /\ \A i \in 1 .. b - a + 1 : SubSeq(s, a, b)[i] = s[a + i - 1]
    <3> HIDE DEF Bytes
    <3> QED BY <2>2, <2>3, SubSeqProperties
  <2>5. DOMAIN SubSeq(s, a, b) = 1 .. count
    BY <2>2, <2>4, LenProperties
  <2>6. ASSUME NEW i \in 1 .. count
        PROVE  SubSeq(s, a, b)[i] = Byte(meta[p], offset + i - 1)
    <3>1. a + i - 1 = offset + i /\ offset + i \in 1 .. L /\ (offset + i) - 1 = offset + i - 1
      BY <1>7, <1>8, <1>10, <2>1
    <3> QED BY <1>13, <2>2, <2>4, <2>6, <3>1
  <2>7. SubSeq(s, a, b) = [i \in 1 .. count |-> SubSeq(s, a, b)[i]]
    BY <2>2, <2>4, <2>5, LenProperties
  <2> QED BY <2>1, <2>6, <2>7
<1>15. PICK end : end = IF offset + count < Len(Contents[p]) THEN offset + count ELSE Len(Contents[p])
  OBVIOUS
<1>16. end = offset + count /\ end - offset = count
  BY <1>7, <1>8, <1>10, <1>11, <1>12, <1>15
<1>17. Files!Read(p, offset, count)
  BY <1>3, <1>6, <1>11, <1>12, <1>14, <1>15, <1>16 DEF Files!Read, Files!Reply, Reply
<1>18. offset \in Files!Offsets
  BY DEF Files!Offsets
<1> QED BY <1>4, <1>10, <1>17, <1>18 DEF FilesStep, Files!Next

LEMMA WriteRefines ==
    ASSUME ContentsOK, ContentsOK', FInv, FInv', NEW p, NEW offset, NEW n, NEW r, NEW m \in 0 .. n,
           Wrote(p, offset, n, r, m), \E h \in Descriptors : handles[h] = p
    PROVE  FilesStep
<1>1. /\ LoopOK(r) /\ Effect(r, p, offset, n, m)
      /\ p \in Paths /\ Exists(p) /\ offset \in Nat /\ n \in Nat \ {0} /\ m \in Nat
      /\ offset + n <= MaxLength /\ WriteAllowed(p, offset, n) /\ SupportedUsage
      /\ writes \in 0 .. MaxWrites /\ writes < MaxWrites
  BY DEF Wrote, WriteOK, Effect, FInv, TypeOK
<1>2. /\ block' = r.block /\ used' = r.used
      /\ bigtempbuf' = r.buf /\ bigtempbuf_counter' = r.counter
      /\ owner' = IF r.counter = bigtempbuf_maxcount THEN NoPath ELSE p
      /\ meta' = [meta EXCEPT ![p] = [size |-> r.size, info |-> r.info]]
      /\ answer' = Reply("write", p, IF r.full THEN -1 ELSE n, <<>>)
      /\ disk_block_size' = disk_block_size /\ sysblocksize' = sysblocksize
  BY DEF Wrote, geometry
<1>3. /\ MaxLength \in Nat /\ NumBlocks \in Nat \ {0} /\ MaxWrites \in Nat
      /\ NoPath \notin Paths /\ used \in Nat /\ disk_block_size \in Nat \ {0}
  BY Geometry DEF FInv, TypeOK
<1>4. meta'[p] = [size |-> r.size, info |-> r.info] /\ \A o \in Paths \ {p} : meta'[o] = meta[o]
  BY <1>1, <1>2 DEF FInv, MetaOK
<1>5. Length(p)' = offset + m
  <2>1. TableInv'
    BY DEF FInv, TableInv
  <2> QED BY <2>1, WroteStep
<1>6. \A o \in Paths : Exists(o)' <=> Exists(o)
  <2>1. r.size # -2
    BY <1>1, <1>3 DEF LoopOK, LoopRecord, NoSize
  <2>2. meta'[p] # NoMeta
    BY <1>4, <2>1 DEF NoMeta
  <2> QED BY <1>1, <1>4, <2>2 DEF Exists
<1>7. ASSUME NEW o \in Paths \ {p} PROVE Contents'[o] = Contents[o]
  <2>1. CASE ~Exists(o)
    BY <1>6, <2>1 DEF ContentsOK
  <2>2. CASE Exists(o)
    <3>1. owner # o /\ owner' # o
      BY <1>1, <1>2, <1>3 DEF SupportedUsage, WriteAllowed, Allowed
    <3>2. Buffered(o) = <<>> /\ Buffered(o)' = <<>>
      BY <3>1 DEF Buffered
    <3>3. SizeOf(o)' = SizeOf(o) /\ Length(o)' = Length(o) /\ Length(o) = SizeOf(o)
          /\ SizeOf(o) \in 0 .. MaxLength
      <4>1. SizeOf(o) \in 0 .. MaxLength
        BY <1>3, <2>2, SMTT(30) DEF SizeOf, NoSize, FInv, TypeOK
      <4> QED BY <1>3, <1>4, <3>2, <4>1 DEF SizeOf, Length
    <3>4. ASSUME NEW j \in 0 .. Length(o) - 1 PROVE Was(o, j)' = Was(o, j)
      <4>1. j \in Nat /\ j < SizeOf(o)
        BY <1>3, <3>3
      <4>2. PICK D \in Nat \ {0} : D = disk_block_size
        BY <1>3
      <4>3. PICK x, u : x = j \div D /\ u = j % D
        OBVIOUS
      <4>4. x \in Nat /\ u \in 0 .. D - 1 /\ j = x * D + u /\ x * D \in Nat /\ x <= x * D
        <5>1. x \in Nat /\ u \in 0 .. D - 1 /\ j = x * D + u
          BY <4>1, <4>3, DivMod
        <5>2. x * 1 <= x * D
          BY <5>1
        <5> QED BY <5>1, <5>2
      <4>5. x \in Indexes /\ x * D < SizeOf(o)
        BY <1>3, <3>3, <4>1, <4>4 DEF Indexes
      <4>6. meta[o].info[x] \in 0 .. used - 1
        <5>1. meta[o].info[x] < used
          BY <2>2, <4>2, <4>5 DEF FInv, BlocksHeld
        <5>2. meta[o].info[x] \in 0 .. NumBlocks - 1
          BY <2>2, <4>5 DEF FInv, TypeOK
        <5> QED BY <1>3, <5>1, <5>2
      <4>7. block'[meta[o].info[x]] = block[meta[o].info[x]]
        BY <1>1, <1>2, <4>6 DEF LoopOK
      <4>8. Byte(meta[o], j)' = Byte(meta[o], j)
        BY <1>2, <1>4, <4>2, <4>3, <4>7 DEF Byte
      <4> QED BY <3>3, <4>1, <4>8 DEF Was
    <3> QED BY <1>6, <2>2, <3>3, <3>4, SameFile
  <2> QED BY <2>1, <2>2
<1>8. PICK s, t, w : s = Contents[p] /\ t = Contents'[p] /\ w = writes + 1
  OBVIOUS
<1>9. /\ s \in Seq(Bytes) /\ Len(s) = Length(p) /\ s # Files!NoFile
      /\ \A i \in 1 .. Length(p) : s[i] = Was(p, i - 1)
      /\ Length(p) \in 0 .. MaxLength
  BY <1>1, <1>8 DEF ContentsOK
<1>10. /\ t \in Seq(Bytes) /\ Len(t) = offset + m
       /\ \A i \in 1 .. offset + m : t[i] = Was(p, i - 1)'
  BY <1>1, <1>5, <1>6, <1>8 DEF ContentsOK, Bytes
<1>11. offset <= Length(p) /\ Length(p) <= offset + m /\ (r.full <=> m # n)
  BY <1>1 DEF Effect
<1>12. PICK d : d = Files!Data(w, offset, m)
  OBVIOUS
<1>13. Len(d) = m /\ \A i \in 1 .. m : d[i] = <<w, offset + i - 1>>
  BY <1>1, <1>12 DEF Files!Data
<1>14. ASSUME NEW i \in 1 .. offset + m
       PROVE  t[i] = CASE i > offset /\ i <= offset + m -> d[i - offset]
                       [] i <= offset /\ i > Len(s) -> Files!Zero
                       [] OTHER -> s[i]
  <2>1. i - 1 \in 0 .. offset + m - 1 /\ i \in Nat /\ i - 1 \in Nat
    BY <1>1
  <2>2. Was(p, i - 1)' = IF i - 1 < offset THEN Was(p, i - 1) ELSE <<w, i - 1>>
    <3>1. SizeOf(p)' = SSize(r)
      BY <1>4 DEF SizeOf, SSize
    <3>2. Byte(meta[p], i - 1)' = SByte(r, i - 1)
      BY <1>2, <1>4, SMTT(30) DEF Byte, SByte
    <3>3. Was(p, i - 1)' = IF i - 1 < SSize(r) THEN SByte(r, i - 1) ELSE r.buf[(i - 1) - SSize(r)]
      BY <1>2, <3>1, <3>2 DEF Was
    <3> QED BY <1>1, <1>8, <2>1, <3>3 DEF Effect
  <2>3. CASE i > offset
    <3>1. i - offset \in 1 .. m /\ offset + (i - offset) - 1 = i - 1 /\ ~(i - 1 < offset)
      BY <1>1, <2>1, <2>3
    <3>2. d[i - offset] = <<w, i - 1>>
      BY <1>13, <3>1
    <3>3. t[i] = d[i - offset]
      BY <1>10, <2>2, <3>1, <3>2
    <3> QED BY <1>1, <2>3, <3>3
  <2>4. CASE ~(i > offset)
    <3>1. i \in 1 .. Length(p) /\ i - 1 < offset /\ i <= offset /\ ~(i > Len(s))
      BY <1>1, <1>9, <1>11, <2>1, <2>4
    <3>2. t[i] = s[i]
      BY <1>9, <1>10, <2>2, <3>1
    <3> QED BY <2>4, <3>1, <3>2
  <2> QED BY <2>3, <2>4
<1>15. t = Files!Put(s, offset, d)
  <2>1. t = [i \in 1 .. offset + m |-> t[i]]
    BY <1>1, <1>10, LenProperties
  <2>2. (IF offset + Len(d) > Len(s) THEN offset + Len(d) ELSE Len(s)) = offset + m
    <3>1. PICK l, k : l = Len(s) /\ k = Len(d)
      OBVIOUS
    <3>2. l \in Nat /\ l <= offset + m /\ k = m /\ offset \in Nat /\ m \in Nat
      BY <1>1, <1>3, <1>9, <1>11, <1>13, <3>1
    <3> QED BY <3>1, <3>2
  <2>3. Files!Put(s, offset, d)
          = [i \in 1 .. offset + m |-> CASE i > offset /\ i <= offset + m -> d[i - offset]
                                         [] i <= offset /\ i > Len(s) -> Files!Zero
                                         [] OTHER -> s[i]]
    BY <1>13, <2>2 DEF Files!Put
  <2> QED BY <1>14, <2>1, <2>3
<1>16. Contents' = [Contents EXCEPT ![p] = Files!Put(@, offset, Files!Data(w, offset, m))]
  BY <1>1, <1>7, <1>8, <1>12, <1>15 DEF ContentsOK
<1>17. answer' = Files!Reply("write", p, IF m = n THEN n ELSE -1, <<>>)
  BY <1>2, <1>11 DEF Reply, Files!Reply
<1>18. Files!Write(p, offset, n, w, m)
  BY <1>8, <1>9, <1>16, <1>17 DEF Files!Write
<1>19. offset \in Files!Offsets /\ n \in 1 .. MaxLength /\ w \in 1 .. MaxWrites
  BY <1>1, <1>3, <1>8 DEF Files!Offsets
<1> QED BY <1>1, <1>18, <1>19 DEF FilesStep, Files!Next

LEMMA StepRefines ==
    ASSUME FInv, FInv', SupportedUsage, [Next]_vars
    PROVE  FilesStep
<1>0. ContentsOK /\ ContentsOK'
  BY ContentsAre, PTL
<1>1. ASSUME UNCHANGED <<geometry, store, meta, answer>> PROVE FilesStep
  BY <1>1, StoreUnchanged DEF FilesStep
<1>2. ASSUME Exit PROVE FilesStep
  BY <1>1, <1>2 DEF Exit
<1>3. ASSUME NEW p \in Paths, Create(p) PROVE FilesStep
  BY <1>0, <1>3, CreateRefines
<1>4. ASSUME NEW p \in Paths, Open(p) \/ StatStart(p) \/ UnlinkStart(p) PROVE FilesStep
  BY <1>1, <1>4 DEF Open, Opened, StatStart, UnlinkStart
<1>5. ASSUME NEW h \in Descriptors, Release(h) PROVE FilesStep
  BY <1>1, <1>5 DEF Release
<1>6. ASSUME NEW h \in Descriptors, NEW offset \in 0 .. MaxLength - 1, NEW n \in 1 .. MaxRequest,
             Write(h, offset, n)
      PROVE  FilesStep
  <2>1. CASE Exit
    BY <1>2, <2>1
  <2>2. CASE ~Exit
    <3>1. PICK r : \E m \in 0 .. n : Wrote(handles[h], offset, n, r, m)
      BY <1>6, <2>2, WriteIs
    <3>2. PICK m \in 0 .. n : Wrote(handles[h], offset, n, r, m)
      BY <3>1
    <3> QED BY <1>0, <3>2, WriteRefines
  <2> QED BY <2>1, <2>2
<1>7. ASSUME NEW h \in Descriptors, NEW offset \in 0 .. MaxLength - 1, NEW n \in 1 .. MaxRequest,
             Read(h, offset, n)
      PROVE  FilesStep
  <2>1. CASE Exit
    BY <1>2, <2>1
  <2>2. CASE ~Exit
    BY <1>0, <1>7, <2>2, ReadRefines
  <2> QED BY <2>1, <2>2
<1>8. ASSUME StatEnd PROVE FilesStep
  <2>1. CASE Exit
    BY <1>2, <2>1
  <2>2. CASE ~Exit
    BY <1>0, <1>8, <2>2, StatRefines
  <2> QED BY <2>1, <2>2
<1>9. ASSUME UnlinkClose PROVE FilesStep
  BY <1>1, <1>2, <1>9 DEF UnlinkClose
<1>10. ASSUME UnlinkEnd PROVE FilesStep
  BY <1>0, <1>10, RemoveRefines
<1>11. ASSUME Remount PROVE FilesStep
  <2>1. /\ owner = NoPath /\ owner' = NoPath
        /\ UNCHANGED <<disk_block_size, sysblocksize, block, meta, answer>>
    BY <1>11 DEF SupportedUsage, Remount, Allowed, geometry
  <2>2. \A o \in Paths : Buffered(o)' = Buffered(o)
    BY <2>1, FileIOAssumption DEF FileIOAssumption, Buffered
  <2> QED BY <2>1, <2>2, ContentsStay DEF FilesStep
<1>12. ASSUME UNCHANGED vars PROVE FilesStep
  BY <1>1, <1>12 DEF vars
<1> QED BY <1>3, <1>4, <1>5, <1>6, <1>7, <1>8, <1>9, <1>10, <1>11, <1>12 DEF Next

(* For users that keep to what the code supports the mounted directory is  *)
(* a file system: what ncfs_write cuts into blocks or collects in the      *)
(* buffer, ncfs_read puts together from them, getattr measures and unlink  *)
(* removes is, request by request, the sequence of bytes of FileStore, for *)
(* every block size, number of disks' blocks, files, descriptors, users'   *)
(* requests and interleavings.                                             *)
THEOREM FilesAreKept == SupportedUsage /\ Spec => ImplementsFileStore
<1> SUFFICES ASSUME SupportedUsage PROVE Spec => ImplementsFileStore
  OBVIOUS
<1>1. Init => Files!Init
  BY DEF Init, Files!Init, Contents, Exists, Files!NoFile, Reply, Files!NoReply, Files!Reply
<1>2. FInv /\ [Next]_vars => FInv'
  BY FStep
<1>3. FInv /\ FInv' /\ [Next]_vars => [Files!Next]_<<Contents, answer>>
  BY StepRefines DEF FilesStep
<1> QED BY <1>1, <1>2, <1>3, FInit, PTL DEF Spec, Files!Spec, ImplementsFileStore
=============================================================================
