--------------------------- MODULE RedundancyProofs ---------------------------
(***************************************************************************)
(* RAID 1, 4 and 5 keep every acknowledged write through the loss of any   *)
(* one disk, for every number of disks, rows, threads and writes.          *)
(***************************************************************************)
EXTENDS Redundancy, XorTheorems

(* One request at a time, the recovery tool not started under one, and one *)
(* device out of service at a time.                                        *)
OneFault == Serial /\ "busy" \notin Env /\ MaxBroken <= 1

-----------------------------------------------------------------------------
(* How far the write of thread t is, by the accesses it has made. *)

OldRead(t) == req[t].pc > 1
DataWritten(t) == req[t].pc > (IF raid_type = 4 THEN 2 ELSE 3)
ParityRead(t) == req[t].pc > (IF raid_type = 4 THEN 3 ELSE 2)
ParityWritten(t) == req[t].pc > 4

LastStep(rt) == IF rt = 1 THEN 3 ELSE 5

TypeInv == TypeOK /\ \A t \in Threads : req[t].pc <= LastStep(raid_type)

(* A write fills a block nothing refers to, of the one thread at work, and *)
(* not while a disk is being replaced.                                     *)
WriteInProgress ==
    /\ \A t, u \in Threads : req[t].pc # 0 /\ req[u].pc # 0 => t = u
    /\ \A t \in Threads : req[t].pc # 0 =>
          /\ mounted /\ rec.phase = "none"
          /\ IsData(raid_type, req[t].disk, req[t].row)
          /\ stored[<<req[t].disk, req[t].row>>] = None
          /\ req[t].w \in Writes
    /\ \A b \in Blocks : stored[b] # None => IsData(raid_type, b[1], b[2])

OneDiskOut ==
    /\ \E x \in Disks : OutOfService \subseteq {x}
    /\ mounted => operation_mode \in get_operation_mode(raid_type, disk_status)

(* The recovery tool has filled the rows before rec.row with what the disk *)
(* it replaces should hold.                                                *)
Replacement(x, r) ==
    IF raid_type = 1 THEN content[N - 1 - x][r]
    ELSE XorOver(Disks \ {x}, [e \in Disks |-> content[e][r]])
RecoveryInv ==
    rec.phase # "none" =>
       /\ Quiet
       /\ mounted => disk_status[rec.disk] = 1
       /\ rec.phase = "run" => rec.status = Only(rec.disk)
       /\ rec.phase = "done" => rec.row = Rows
       /\ \A r \in 0 .. rec.row - 1 :
             \/ raid_type = 1 /\ N - 1 - rec.disk = rec.disk
             \/ rec.new[r] = Replacement(rec.disk, r)

(***************************************************************************)
(* RAID 4 and 5.  Some row V with parity zero is what the disks hold or    *)
(* would hold: the working ones hold it, but for a block just written whose *)
(* parity is still to come, and the blocks that files refer to are theirs  *)
(* in it.  Its block on a broken disk is what decode() computes.           *)
(***************************************************************************)
Parity(t) == RedundancyDisk(raid_type, req[t].disk, req[t].row)
Block(t) == <<req[t].disk, req[t].row>>

(* delta is what the write is to add to the parity. *)
WriteInRow(t, V, delta) ==
    /\ ~OldRead(t) => req[t].buf = {req[t].w}
    /\ OldRead(t) /\ Block(t) \in blind => ~working[req[t].disk]
    /\ OldRead(t) /\ ~ParityWritten(t) /\ Block(t) \notin blind =>
          Xor(V[req[t].disk], delta) = {req[t].w}
    /\ OldRead(t) /\ ~ParityRead(t) => req[t].buf = delta
    /\ ParityRead(t) /\ ~ParityWritten(t) /\ working[Parity(t)] =>
          req[t].buf = Xor(V[Parity(t)], delta)
    /\ DataWritten(t) /\ ~ParityWritten(t) /\ working[req[t].disk] =>
          content[req[t].disk][req[t].row] = {req[t].w}
    /\ ParityWritten(t) /\ Block(t) \notin blind =>
          V[req[t].disk] = {req[t].w}

DataOnly(t) == req[t].pc # 0 /\ DataWritten(t) /\ ~ParityWritten(t)

RowIs(r, V, delta) ==
    /\ XorOver(Disks, V) = {}
    /\ \A e \in Disks :
          stored[<<e, r>>] # None /\ <<e, r>> \notin blind => V[e] = {stored[<<e, r>>]}
    /\ \A e \in Disks : working[e] =>
          \/ content[e][r] = V[e]
          \/ \E t \in Threads : DataOnly(t) /\ Block(t) = <<e, r>>
    /\ \A t \in Threads : req[t].pc # 0 /\ req[t].row = r => WriteInRow(t, V, delta)

ParityInv ==
    raid_type # 1 =>
       \A r \in Row \ torn :
          \E V \in [Disks -> Content], delta \in Content : RowIs(r, V, delta)

(* RAID 1: a block and its mirror hold the write a file refers to. *)
MirrorInv ==
    raid_type = 1 =>
       /\ \A b \in Blocks : stored[b] # None =>
             \A e \in {b[1], N - b[1] - 1} : working[e] => content[e][b[2]] = {stored[b]}
       /\ \A t \in Threads :
             /\ req[t].pc # 0 => req[t].buf = {req[t].w}
             /\ req[t].pc > 1 /\ working[req[t].disk] =>
                   content[req[t].disk][req[t].row] = {req[t].w}
             /\ req[t].pc > 2 /\ working[Parity(t)] =>
                   content[Parity(t)][req[t].row] = {req[t].w}

Inv ==
    /\ TypeInv /\ WriteInProgress /\ OneDiskOut
    /\ RecoveryInv /\ ParityInv /\ MirrorInv

USE DEF Row, Disks

-----------------------------------------------------------------------------
(* Arithmetic of the layout: a block's redundancy is on another disk, none *)
(* of whose blocks in that row is handed out, unless it is the mirror's.   *)
LEMMA Layout ==
    ASSUME NEW rt \in RaidTypes, NEW d \in Disks, NEW r \in Row
    PROVE  /\ RedundancyDisk(rt, d, r) \in Disks
           /\ IsData(rt, d, r) =>
                 /\ RedundancyDisk(rt, d, r) # d
                 /\ ~IsData(rt, RedundancyDisk(rt, d, r), r)
<1>1. N \in Nat /\ N >= 3 /\ r \in Nat /\ rt \in {1, 4, 5}
  BY DisksAssumption, RedundancyAssumption
<1>2. r % N \in 0 .. N - 1
  BY <1>1
<1>3. N \div 2 \in Nat /\ 2 * (N \div 2) <= N
  BY <1>1
<1>4. CASE rt = 1
  BY <1>1, <1>3, <1>4 DEF RedundancyDisk, IsData
<1>5. CASE rt = 4
  BY <1>1, <1>5 DEF RedundancyDisk, IsData
<1>6. CASE rt = 5
  BY <1>1, <1>2, <1>6 DEF RedundancyDisk, IsData
<1> QED BY <1>1, <1>4, <1>5, <1>6

(* The disks are finitely many. *)
LEMMA FiniteDisks ==
    ASSUME NEW S \in SUBSET Disks
    PROVE  IsFiniteSet(S) /\ Cardinality(S) \in Nat
<1>1. IsFiniteSet(Disks)
  BY FS_Interval, DisksAssumption
<1> QED BY <1>1, FS_Subset, FS_CardinalityType

(* A bounded set of numbers has a greatest element. *)
LEMMA Greatest ==
    ASSUME NEW n \in Nat, NEW S \in SUBSET (0 .. n), S # {}
    PROVE  \E j \in S : \A k \in S : k <= j
<1> DEFINE T == {n - k : k \in S}
           R == OpToRel(<, Nat)
<1>1. /\ \A k \in S : k \in 0 .. n /\ n - k \in Nat
      /\ T \subseteq Nat
      /\ T # {}
  <2>1. \A k \in S : k \in 0 .. n /\ n - k \in Nat
    OBVIOUS
  <2> QED BY <2>1
<1>2. IsWellFoundedOn(R, Nat)
  BY NatLessThanWellFounded
<1>3. \A x, y \in Nat : <<x, y>> \in R <=> x < y
  BY DEF OpToRel
<1> HIDE DEF R
<1>4. PICK m \in T : \A y \in T : ~ (<<y, m>> \in R)
  BY <1>1, <1>2, WFMin
<1>5. PICK j \in S : m = n - j
  OBVIOUS
<1>6. ASSUME NEW k \in S PROVE k <= j
  <2>1. n - k \in T /\ n - k \in Nat /\ m \in Nat
    BY <1>1
  <2>2. ~ (n - k < m)
    BY <1>3, <1>4, <2>1, Zenon
  <2> QED BY <2>2, <1>5, <1>1
<1> QED BY <1>6

(* Which access comes at which step of encode(). *)
LEMMA StepOrder ==
    ASSUME TypeInv, NEW t \in Threads
    PROVE  /\ At(t, "readOld") <=> raid_type # 1 /\ req[t].pc = 1
           /\ At(t, "readParity") <=>
                 raid_type # 1 /\ req[t].pc = IF raid_type = 4 THEN 3 ELSE 2
           /\ At(t, "writeData") <=>
                 req[t].pc = IF raid_type = 1 THEN 1
                             ELSE IF raid_type = 4 THEN 2 ELSE 3
           /\ At(t, "writeParity") <=> req[t].pc = IF raid_type = 1 THEN 2 ELSE 4
           /\ At(t, "save") <=> req[t].pc = LastStep(raid_type)
           /\ HalfWritten(t) <=> raid_type # 1 /\ DataOnly(t)
<1>1. raid_type \in {1, 4, 5} /\ req[t].pc \in 0 .. LastStep(raid_type)
  <2>1. raid_type \in {1, 4, 5} /\ LastStep(raid_type) \in Nat
    BY RedundancyAssumption DEF TypeInv, TypeOK, LastStep
  <2>2. req[t].pc \in 0 .. 5 /\ req[t].pc <= LastStep(raid_type)
    BY DEF TypeInv, TypeOK, Request
  <2> QED BY <2>1, <2>2
<1>2. CASE raid_type = 1
  BY <1>1, <1>2 DEF At, Steps, LastStep, HalfWritten
<1>3. CASE raid_type = 4
  BY <1>1, <1>3 DEF At, Steps, LastStep, HalfWritten, DataOnly, DataWritten, ParityWritten
<1>4. CASE raid_type = 5
  BY <1>1, <1>4 DEF At, Steps, LastStep, HalfWritten, DataOnly, DataWritten, ParityWritten
<1> QED BY <1>1, <1>2, <1>3, <1>4

-----------------------------------------------------------------------------
(* Types. *)

(* decode() returns a block. *)
LEMMA DecodeType ==
    ASSUME TypeOK, NEW status \in [Disks -> {0, 1}],
           NEW d \in Disks, NEW r \in Row,
           NEW a \in Decode(raid_type, status, d, r)
    PROVE  a.value \in Content
<1>2. ASSUME NEW v \in Garbage PROVE v \in Content
  BY DEF Garbage, Content, Junk
<1>b. \A e \in Disks : content[e][r] \in Content
  BY DEF TypeOK
<1>1. ASSUME NEW e \in Disks, NEW v \in ReadInto(e, r) PROVE v \in Content
  BY <1>b, <1>2 DEF ReadInto
<1>3. CASE status[d] = 0
  BY <1>1, <1>3 DEF Decode
<1>4. CASE status[d] # 0 /\ raid_type = 1
  <2>1. N - d - 1 \in Disks
    BY DisksAssumption
  <2> QED BY <1>1, <1>2, <1>4, <2>1 DEF Decode
<1>5. CASE status[d] # 0 /\ raid_type # 1
  <2> DEFINE read == [i \in Disks |-> TempBuf(d, r, i)]
  <2>1. ASSUME NEW i \in Disks PROVE TempBuf(d, r, i) \in Content
    <3> DEFINE good == {j \in 0 .. i : j # d /\ working[j]}
    <3>1. CASE good = {}
      BY <3>1 DEF TempBuf, Content
    <3>2. CASE good # {}
      <4>1. \E j \in good : \A k \in good : k <= j
        <5>1. i \in Nat /\ good \in SUBSET (0 .. i)
          OBVIOUS
        <5> HIDE DEF good
        <5> QED BY <5>1, <3>2, Greatest
      <4> DEFINE last == CHOOSE j \in good : \A k \in good : k <= j
      <4>2. last \in good
        BY <4>1
      <4>3. last \in Disks /\ TempBuf(d, r, i) = content[last][r]
        BY <3>2, <4>2, DisksAssumption DEF TempBuf
      <4> HIDE DEF last, good
      <4> QED BY <4>3, <1>b
    <3> QED BY <3>1, <3>2
  <2>2. a.value = XorOver(Visited(status, d), read)
    BY <1>5 DEF Decode
  <2>3. \A i \in Visited(status, d) : read[i] \subseteq Writes \cup {Junk}
    BY <2>1 DEF Visited, Content
  <2> HIDE DEF read
  <2>4. XorOver(Visited(status, d), read) \subseteq Writes \cup {Junk}
    BY <2>3, XorType
  <2> QED BY <2>2, <2>4 DEF Content
<1> QED BY <1>3, <1>4, <1>5

(* get_operation_mode() returns a mode. *)
LEMMA ModeTypes == \A rt, status : get_operation_mode(rt, status) \subseteq Mode
  BY DEF get_operation_mode, ModesFor, Mode

(* What Detect() does to the status and the mode. *)
LEMMA DetectType ==
    ASSUME TypeOK, NEW S, Detect(S)
    PROVE  disk_status' \in [Disks -> {0, 1}] /\ operation_mode' \in Mode
  BY ModeTypes DEF Detect, Marked, TypeOK

(* Types at the start ... *)
LEMMA TypeInit == Init => TypeInv
<1> SUFFICES ASSUME Init PROVE TypeInv
  OBVIOUS
<1>1. Idle \in Request /\ Idle.pc = 0
  BY DisksAssumption, RedundancyAssumption DEF Idle, Request, Content
<1>2. NoRecovery \in Recovery
  BY DisksAssumption, RedundancyAssumption DEF NoRecovery, Recovery, Content
<1>3. TypeOK
  <2>1. {} \in Content /\ 0 \in Mode /\ MaxWrites \in Nat
    BY RedundancyAssumption DEF Content, Mode
  <2>2. req \in [Threads -> Request] /\ rec \in Recovery
    BY <1>1, <1>2 DEF Init
  <2>3. content \in [Disks -> [Row -> Content]] /\ working \in [Disks -> BOOLEAN]
    BY <2>1 DEF Init
  <2>4. /\ stored \in [Blocks -> Writes \cup {None}]
        /\ disk_status \in [Disks -> {0, 1}]
        /\ operation_mode \in Mode /\ written \in 0 .. MaxWrites
    BY <2>1 DEF Init
  <2> QED BY <2>2, <2>3, <2>4 DEF Init, TypeOK
<1>4. \A t \in Threads : req[t].pc <= LastStep(raid_type)
  BY <1>1 DEF Init, LastStep
<1> QED BY <1>3, <1>4 DEF TypeInv

(* A write goes on to its next step. *)
LEMMA TypeStep ==
    ASSUME TypeInv, NEW t \in Threads, NEW b \in Content,
           req[t].pc # LastStep(raid_type), raid_type' = raid_type,
           \/ req' = [req EXCEPT ![t].pc = @ + 1, ![t].buf = b]
           \/ req' = [req EXCEPT ![t].pc = @ + 1]
    PROVE  /\ req' \in [Threads -> Request]
           /\ \A u \in Threads : req'[u].pc <= LastStep(raid_type)'
<1>1. req[t].pc \in 0 .. 5 /\ LastStep(raid_type) \in {3, 5}
      /\ req[t].pc <= LastStep(raid_type)
  BY DEF TypeInv, TypeOK, Request, LastStep
<1>2. req[t].pc + 1 \in 0 .. 5 /\ req[t].pc + 1 <= LastStep(raid_type)
  BY <1>1
<1>3. req \in [Threads -> Request]
  BY DEF TypeInv, TypeOK
<1>4. req' \in [Threads -> Request]
  BY <1>2, <1>3 DEF Request
<1>5. \A u \in Threads : req[u].pc <= LastStep(raid_type)
  BY DEF TypeInv
<1>6. req'[t].pc = req[t].pc + 1 /\ \A u \in Threads \ {t} : req'[u] = req[u]
  BY <1>3 DEF Request
<1>7. LastStep(raid_type)' = LastStep(raid_type)
  BY DEF LastStep
<1> QED BY <1>2, <1>4, <1>5, <1>6, <1>7

(* The XOR of two blocks is a block. *)
LEMMA XorContent == \A a, b \in Content : Xor(a, b) \in Content
  BY DEF Xor, Content

(* ... a buffer after a read ... *)
LEMMA ReadIntoType ==
    ASSUME TypeOK, NEW e \in Disks, NEW r \in Row, NEW v \in ReadInto(e, r)
    PROVE  v \in Content
<1>1. {} \in Content /\ {Junk} \in Content
  BY DEF Content
<1>2. content[e][r] \in Content
  BY DEF TypeOK
<1> QED BY <1>1, <1>2 DEF ReadInto, Garbage

(* ... the disks after a write ... *)
LEMMA WriteToType ==
    ASSUME TypeOK, NEW e \in Disks, NEW r \in Row, NEW v \in Content,
           WriteTo(e, r, v)
    PROVE  /\ content' \in [Disks -> [Row -> Content]]
           /\ working[e] => content'[e][r] = v
           /\ \A f \in Disks, q \in Row :
                 f # e \/ q # r \/ ~working[e] => content'[f][q] = content[f][q]
<1>1. content \in [Disks -> [Row -> Content]]
  BY DEF TypeOK
<1>2. CASE ~working[e]
  BY <1>1, <1>2 DEF WriteTo
<1>3. CASE working[e]
  <2>1. content' = [content EXCEPT ![e] = [@ EXCEPT ![r] = v]]
    BY <1>3 DEF WriteTo
  <2>2. [content[e] EXCEPT ![r] = v] \in [Row -> Content]
    BY <1>1
  <2> QED BY <1>1, <1>3, <2>1, <2>2
<1> QED BY <1>2, <1>3

(* ... the reads of a request ... *)
LEMMA TypeRead ==
    ASSUME TypeInv, NEW t \in Threads, ReadOld(t) \/ ReadParity(t)
    PROVE  TypeInv'
<1> DEFINE d == IF At(t, "readOld") THEN req[t].disk
                ELSE RedundancyDisk(raid_type, req[t].disk, req[t].row)
<1>1. req[t] \in Request /\ raid_type \in RaidTypes
  BY DEF TypeInv, TypeOK
<1>2. req[t].disk \in Disks /\ req[t].row \in Row /\ req[t].buf \in Content
  BY <1>1 DEF Request
<1>3. d \in Disks
  BY <1>1, <1>2, Layout
<1>4. PICK v \in ReadInto(d, req[t].row) :
         req' = [req EXCEPT ![t].pc = @ + 1, ![t].buf = Xor(@, v)]
  BY StepOrder DEF ReadOld, ReadParity
<1>5. Xor(req[t].buf, v) \in Content
  BY <1>2, <1>3, <1>4, XorContent, ReadIntoType DEF TypeInv
<1>6. req[t].pc # LastStep(raid_type)
  BY StepOrder, RedundancyAssumption, <1>1 DEF ReadOld, ReadParity, LastStep
<1>7. /\ req' \in [Threads -> Request]
      /\ raid_type' = raid_type
      /\ \A u \in Threads : req'[u].pc <= LastStep(raid_type)'
  <2> DEFINE b == Xor(req[t].buf, v)
  <2>1. req' = [req EXCEPT ![t].pc = @ + 1, ![t].buf = b]
    BY <1>4
  <2>2. raid_type' = raid_type /\ b \in Content
    BY <1>5 DEF ReadOld, ReadParity
  <2> HIDE DEF b
  <2> QED BY <2>1, <2>2, <1>6, TypeStep
<1>8. disk_status' \in [Disks -> {0, 1}] /\ operation_mode' \in Mode
  BY DetectType DEF ReadOld, ReadParity, TypeInv
<1>9. blind' \subseteq Blocks
  BY <1>2 DEF ReadOld, ReadParity, TypeInv, TypeOK, Blocks, history
<1> QED BY <1>7, <1>8, <1>9
        DEF TypeInv, TypeOK, ReadOld, ReadParity, history

(* ... its writes ... *)
LEMMA TypeWrite ==
    ASSUME TypeInv, NEW t \in Threads, WriteData(t) \/ WriteParity(t)
    PROVE  TypeInv'
<1>1. req[t] \in Request /\ raid_type \in RaidTypes /\ req \in [Threads -> Request]
  BY DEF TypeInv, TypeOK
<1>2. req[t].disk \in Disks /\ req[t].row \in Row /\ req[t].buf \in Content
      /\ {req[t].w} \in Content
  BY <1>1 DEF Request, Content, None, Junk
<1>3. RedundancyDisk(raid_type, req[t].disk, req[t].row) \in Disks
  BY <1>1, <1>2, Layout
<1>4. req[t].pc # LastStep(raid_type)
  BY StepOrder, RedundancyAssumption, <1>1 DEF WriteData, WriteParity, LastStep
<1>5. /\ req' = [req EXCEPT ![t].pc = @ + 1]
      /\ raid_type' = raid_type
  BY DEF WriteData, WriteParity
<1>6. /\ req' \in [Threads -> Request]
      /\ \A u \in Threads : req'[u].pc <= LastStep(raid_type)'
  BY <1>2, <1>4, <1>5, TypeStep
<1>7. disk_status' \in [Disks -> {0, 1}] /\ operation_mode' \in Mode
  BY DetectType DEF WriteData, WriteParity, TypeInv
<1>8. content' \in [Disks -> [Row -> Content]]
  BY <1>2, <1>3, WriteToType DEF WriteData, WriteParity, TypeInv
<1> QED BY <1>5, <1>6, <1>7, <1>8
        DEF TypeInv, TypeOK, WriteData, WriteParity, history

(* ... a thread and a recovery tool at rest ... *)
LEMMA IdleType == Idle \in Request /\ Idle.pc = 0 /\ NoRecovery \in Recovery
                  /\ NoRecovery.phase = "none"
<1>1. {} \in Content
  BY DEF Content
<1> QED BY <1>1, DisksAssumption, RedundancyAssumption
        DEF Idle, Request, NoRecovery, Recovery

(* ... the start of a write ... *)
LEMMA TypeWriteStart ==
    ASSUME TypeInv, NEW t \in Threads, NEW d \in Disks, NEW r \in Row,
           WriteStart(t, d, r)
    PROVE  TypeInv'
<1> DEFINE begun == [pc |-> 1, disk |-> d, row |-> r,
                     w |-> written + 1, buf |-> {written + 1}]
<1>1. written' = written + 1 /\ written + 1 \in Writes
  BY RedundancyAssumption DEF WriteStart, TypeInv, TypeOK, Writes
<1>2. begun \in Request /\ begun.pc = 1
  BY <1>1 DEF Request, Content
<1>3. req' = [req EXCEPT ![t] = begun] /\ req \in [Threads -> Request]
  BY DEF WriteStart, TypeInv, TypeOK
<1> HIDE DEF begun
<1>4. req' \in [Threads -> Request]
  BY <1>2, <1>3
<1>5. \A u \in Threads : req'[u].pc <= LastStep(raid_type)'
  <2>1. LastStep(raid_type)' = LastStep(raid_type) /\ 1 <= LastStep(raid_type)
    BY DEF WriteStart, LastStep
  <2> QED BY <2>1, <1>2, <1>3 DEF TypeInv
<1> QED BY <1>1, <1>4, <1>5 DEF TypeInv, TypeOK, WriteStart, Writes, statusVars

(* ... its acknowledgement ... *)
LEMMA TypeSave ==
    ASSUME TypeInv, NEW t \in Threads, Save(t)
    PROVE  TypeInv'
<1>1. /\ req' = [req EXCEPT ![t] = Idle]
      /\ req \in [Threads -> Request] /\ req[t] \in Request
  BY DEF Save, TypeInv, TypeOK
<1>2. req' \in [Threads -> Request]
  BY <1>1, IdleType
<1>3. \A u \in Threads : req'[u].pc <= LastStep(raid_type)'
  <2>1. LastStep(raid_type)' = LastStep(raid_type) /\ 0 <= LastStep(raid_type)
    BY DEF Save, LastStep
  <2> QED BY <2>1, <1>1, IdleType DEF TypeInv
<1>4. stored' \in [Blocks -> Writes \cup {None}]
  BY <1>1 DEF Save, TypeInv, TypeOK, Request, Blocks
<1> QED BY <1>2, <1>3, <1>4 DEF TypeInv, TypeOK, Save, history, statusVars

(* ... a crash ... *)
LEMMA TypeCrash == ASSUME TypeInv, Crash PROVE TypeInv'
<1>1. req' \in [Threads -> Request] /\ \A u \in Threads : req'[u].pc = 0
  BY IdleType DEF Crash
<1>2. torn' \subseteq Row
  BY DEF Crash, TypeInv, TypeOK, Request
<1>3. 0 <= LastStep(raid_type)'
  BY DEF LastStep
<1> QED BY <1>1, <1>2, <1>3 DEF TypeInv, TypeOK, Crash, statusVars

(* ... a restart ... *)
LEMMA TypeMount == ASSUME TypeInv, Mount PROVE TypeInv'
<1>1. rec \in Recovery /\ rec.disk \in Disks /\ rec.new \in [Row -> Content]
  BY DEF TypeInv, TypeOK, Recovery
<1>2. /\ working' \in [Disks -> BOOLEAN]
      /\ content' \in [Disks -> [Row -> Content]]
  BY <1>1 DEF TypeInv, TypeOK, Mount
<1>3. disk_status' \in [Disks -> {0, 1}] /\ operation_mode' \in Mode
  BY ModeTypes DEF Mount, Probe
<1> QED BY <1>2, <1>3, IdleType DEF TypeInv, TypeOK, Mount, history, LastStep

(* ... a step of ./recover ... *)
LEMMA TypeRecover ==
    ASSUME TypeInv,
           \/ \E d \in Disks : RecoverStart(d)
           \/ RecoverRow \/ RecoverEnd \/ RecoverAbort
    PROVE  TypeInv'
<1>1. rec \in Recovery /\ rec.disk \in Disks /\ rec.row \in 0 .. Rows
      /\ rec.new \in [Row -> Content] /\ rec.status \in [Disks -> {0, 1}]
  BY DEF TypeInv, TypeOK, Recovery
<1>2. SUFFICES rec' \in Recovery
  BY DEF TypeInv, TypeOK, RecoverStart, RecoverRow, RecoverEnd, RecoverAbort,
         statusVars, history, LastStep
<1>3. ASSUME NEW d \in Disks, RecoverStart(d) PROVE rec' \in Recovery
  <2> DEFINE status == [e \in Disks |-> IF working[e] /\ e # d THEN 0 ELSE 1]
  <2>1. rec' = [NoRecovery EXCEPT !.phase = "run", !.disk = d, !.status = status]
    BY <1>3 DEF RecoverStart
  <2>2. status \in [Disks -> {0, 1}]
    OBVIOUS
  <2> HIDE DEF status
  <2> QED BY <2>1, <2>2, IdleType DEF Recovery
<1>4. CASE RecoverRow
  <2>1. PICK a \in Decode(raid_type, rec.status, rec.disk, rec.row) :
           rec' = [rec EXCEPT
                    !.new[rec.row] = a.value,
                    !.row = @ + 1,
                    !.status = Marked(rec.status,
                        {e \in Accessed(raid_type, rec.status, rec.disk) :
                             ~working[e]})]
    BY <1>4 DEF RecoverRow
  <2>2. rec.row \in Row /\ rec.row + 1 \in 0 .. Rows
    <3>1. rec.row < Rows
      BY <1>4 DEF RecoverRow
    <3> QED BY <3>1, <1>1, RedundancyAssumption
  <2>3. a.value \in Content
    BY <1>1, <2>2, DecodeType DEF TypeInv
  <2> DEFINE status == Marked(rec.status,
                        {e \in Accessed(raid_type, rec.status, rec.disk) :
                             ~working[e]})
             new == [rec.new EXCEPT ![rec.row] = a.value]
  <2>4. status \in [Disks -> {0, 1}]
    BY <1>1 DEF Marked
  <2>5. new \in [Row -> Content]
    BY <1>1, <2>3
  <2>6. rec' = [rec EXCEPT !.new = new, !.row = @ + 1, !.status = status]
    BY <2>1
  <2> HIDE DEF status, new
  <2> QED BY <2>2, <2>4, <2>5, <2>6, <1>1 DEF Recovery
<1>5. CASE RecoverEnd
  <2>1. [rec.status EXCEPT ![rec.disk] = 0] \in [Disks -> {0, 1}]
    BY <1>1
  <2> QED BY <1>1, <2>1, <1>5 DEF RecoverEnd, Recovery
<1>6. CASE RecoverAbort
  BY <1>6, IdleType DEF RecoverAbort
<1> QED BY <1>3, <1>4, <1>5, <1>6

(* ... a failure, a command, a request ... *)
LEMMA TypeOthers ==
    ASSUME TypeInv,
           \/ Unmount \/ UNCHANGED vars
           \/ \E d \in Disks : Break(d) \/ \E status \in {0, 1} : Command(d, status)
           \/ \E d \in Disks, r \in Row : Remove(d, r) \/ Read(d, r)
    PROVE  TypeInv'
<1>1. CASE Unmount \/ UNCHANGED vars
  BY <1>1 DEF TypeInv, TypeOK, Unmount, vars, statusVars, history, LastStep
<1>2. ASSUME NEW d \in Disks, Break(d) PROVE TypeInv'
  BY <1>2 DEF TypeInv, TypeOK, Break, statusVars, history, LastStep
<1>3. ASSUME NEW d \in Disks, NEW status \in {0, 1}, Command(d, status)
      PROVE  TypeInv'
  BY <1>3, ModeTypes DEF TypeInv, TypeOK, Command, history, LastStep
<1>4. ASSUME NEW d \in Disks, NEW r \in Row, Remove(d, r) PROVE TypeInv'
  BY <1>4 DEF TypeInv, TypeOK, Remove, Blocks, statusVars, history, LastStep
<1>5. ASSUME NEW d \in Disks, NEW r \in Row, Read(d, r) PROVE TypeInv'
  BY <1>5, DetectType DEF TypeInv, TypeOK, Read, history, LastStep
<1> QED BY <1>1, <1>2, <1>3, <1>4, <1>5

(* ... and every step. *)
LEMMA TypeNext == TypeInv /\ [Next]_vars => TypeInv'
  BY TypeMount, TypeCrash, TypeRecover, TypeOthers, TypeWriteStart, TypeRead,
     TypeWrite, TypeSave
     DEF Next, Write

(* Whatever fails, and with any number of threads, the state keeps its type: *)
(* decode() and the in-flight writes leave blocks of acknowledged writes or *)
(* of junk on the devices, and nothing else.                               *)
THEOREM TypeCorrect == Spec => []TypeOK
<1>1. TypeInv => TypeOK
  BY DEF TypeInv
<1> QED BY <1>1, TypeInit, TypeNext, PTL DEF Spec

-----------------------------------------------------------------------------
(* Which disks are out of service. *)

LEMMA OutOfServiceType == OutOfService \subseteq Disks
  BY DEF OutOfService

(* Room for no more than one. *)
LEMMA AtMostOne ==
    ASSUME OneFault, NEW d \in Disks, Cardinality(OutOfService \cup {d}) <= MaxBroken
    PROVE  OutOfService \subseteq {d}
<1> DEFINE S == OutOfService \cup {d}
<1>1. S \in SUBSET Disks
  BY OutOfServiceType
<1>2. IsFiniteSet(S) /\ Cardinality(S) \in Nat /\ Cardinality(S) <= 1
  BY <1>1, FiniteDisks, RedundancyAssumption DEF OneFault
<1>3. {d} \in SUBSET S /\ Cardinality({d}) = 1
  BY FS_Singleton
<1>4. Cardinality({d}) <= Cardinality(S)
  BY <1>2, <1>3, FS_Subset
<1>5. S = {d}
  <2> HIDE DEF S
  <2>1. Cardinality(S) = Cardinality({d})
    BY <1>2, <1>3, <1>4
  <2> QED BY <1>2, <1>3, <2>1, FS_Subset
<1> QED BY <1>5

(* Every disk but one answers, and is known to. *)
LEMMA OthersWork ==
    ASSUME OneDiskOut, NEW x \in OutOfService, NEW e \in Disks \ {x}
    PROVE  working[e] /\ (mounted => disk_status[e] # 1)
  BY OutOfServiceType DEF OneDiskOut, OutOfService

(* set_device_status() on a read or a write adds no disk to those out of   *)
(* service: it marks one that does not answer.                             *)
LEMMA DetectOut ==
    ASSUME TypeOK, NEW S \in SUBSET Disks, Detect(S), OneDiskOut,
           working' = working, mounted' = mounted, raid_type' = raid_type,
           rec' = rec
    PROVE  /\ OneDiskOut'
           /\ \A e \in Disks : disk_status[e] = 1 => disk_status'[e] = 1
<1>1. /\ \A e \in Disks : disk_status'[e] = 1 => ~working[e] \/ disk_status[e] = 1
      /\ \A e \in Disks : disk_status[e] = 1 => disk_status'[e] = 1
  BY DEF Detect, Marked
<1>2. OutOfService' \subseteq OutOfService
  BY <1>1 DEF OutOfService
<1>3. \/ operation_mode' = operation_mode /\ disk_status' = disk_status
      \/ operation_mode' \in get_operation_mode(raid_type, disk_status')
  <2> DEFINE bad == {d \in S : ~working[d] /\ disk_status[d] = 0}
  <2>1. CASE bad = {}
    <3>1. disk_status' = Marked(disk_status, {}) /\ operation_mode' = operation_mode
      BY <2>1 DEF Detect
    <3>2. disk_status' = disk_status
      BY <3>1 DEF Marked, TypeOK
    <3> QED BY <3>1, <3>2
  <2>2. CASE bad # {}
    BY <2>2 DEF Detect
  <2> QED BY <2>1, <2>2
<1>4. get_operation_mode(raid_type, disk_status)'
         = get_operation_mode(raid_type, disk_status')
  BY DEF get_operation_mode, Failed
<1> QED BY <1>1, <1>2, <1>3, <1>4 DEF OneDiskOut

(* A restart: the disks are probed again. *)
LEMMA OneDiskOutMount == ASSUME Mount, OneDiskOut, TypeInv PROVE OneDiskOut'
<1>1. mounted' /\ rec' = NoRecovery /\ disk_status' = Probe(working')
      /\ operation_mode' \in get_operation_mode(raid_type, disk_status')
      /\ raid_type' = raid_type
  BY DEF Mount
<1>2. \A e \in Disks : working[e] => working'[e]
  BY DEF Mount, TypeInv, TypeOK
<1>3. OutOfService' \subseteq OutOfService
  BY <1>1, <1>2, IdleType DEF OutOfService, Probe
<1>4. get_operation_mode(raid_type, disk_status)'
         = get_operation_mode(raid_type, disk_status')
  BY <1>1 DEF get_operation_mode, Failed
<1> QED BY <1>1, <1>3, <1>4 DEF OneDiskOut

(* A disk breaks. *)
LEMMA OneDiskOutBreak ==
    ASSUME OneFault, OneDiskOut, TypeInv, NEW d \in Disks,
           Break(d) \/ \E status \in {0, 1} : Command(d, status)
    PROVE  OneDiskOut'
<1>1. ASSUME Break(d) PROVE OneDiskOut'
  <2>1. OutOfService \subseteq {d}
    BY <1>1, AtMostOne DEF Break
  <2>2. OutOfService' \subseteq OutOfService \cup {d}
    BY <1>1 DEF Break, OutOfService, TypeInv, TypeOK, statusVars
  <2> QED BY <2>1, <2>2, <1>1
          DEF OneDiskOut, Break, statusVars, get_operation_mode, Failed
<1>2. ASSUME NEW status \in {0, 1}, Command(d, status) PROVE OneDiskOut'
  <2>1. OutOfService' \subseteq OutOfService \cup (IF status = 1 THEN {d} ELSE {})
    BY <1>2 DEF Command, OutOfService, TypeInv, TypeOK
  <2>2. \E x \in Disks : OutOfService' \subseteq {x}
    <3>1. CASE status = 0
      BY <2>1, <3>1 DEF OneDiskOut
    <3>2. CASE status = 1
      <4>1. OutOfService \subseteq {d}
        BY <1>2, <3>2, AtMostOne DEF Command
      <4> QED BY <2>1, <4>1
    <3> QED BY <3>1, <3>2
  <2> QED BY <1>2, <2>2 DEF OneDiskOut, Command, get_operation_mode, Failed
<1> QED BY <1>1, <1>2

(* A step of ./recover. *)
LEMMA OneDiskOutRecover ==
    ASSUME OneDiskOut, TypeInv, NEW d \in Disks, RecoverStart(d)
    PROVE  OneDiskOut' /\ rec'.status = Only(d)
<1> DEFINE status == [e \in Disks |-> IF working[e] /\ e # d THEN 0 ELSE 1]
<1>1. /\ Failed(status) = {d}
      /\ rec' = [NoRecovery EXCEPT !.phase = "run", !.disk = d, !.status = status]
      /\ rec.phase = "none" /\ (~mounted \/ disk_status[d] = 1)
      /\ UNCHANGED <<raid_type, working, mounted, disk_status, operation_mode>>
  BY DEF RecoverStart, statusVars
<1>2. \A e \in Disks \ {d} : working[e]
  <2>1. ASSUME NEW e \in Disks \ {d}, ~working[e] PROVE FALSE
    <3>1. status[e] = 1
      BY <2>1
    <3> HIDE DEF status
    <3> QED BY <3>1, <1>1 DEF Failed
  <2> QED BY <2>1
<1>3. OutOfService' \subseteq {d}
  <2>1. rec'.disk = d
    BY <1>1 DEF NoRecovery
  <2>2. ASSUME NEW e \in OutOfService', e # d PROVE FALSE
    <3>1. e \in Disks /\ working[e] /\ mounted /\ disk_status[e] = 1
      BY <2>1, <2>2, <1>1, <1>2 DEF OutOfService
    <3>2. disk_status[d] = 1
      BY <3>1, <1>1
    <3> QED BY <3>1, <3>2, <2>2 DEF OneDiskOut, OutOfService
  <2> QED BY <2>2
<1>4. status = Only(d)
  BY <1>2 DEF Only
<1>5. rec'.status = Only(d)
  <2> HIDE DEF status
  <2> QED BY <1>1, <1>4 DEF NoRecovery
<1> QED BY <1>1, <1>3, <1>5 DEF OneDiskOut, get_operation_mode, Failed

(* The steps of a write reach two disks, the block's own and its parity's. *)
LEMMA StepDisks ==
    ASSUME TypeOK, NEW t \in Threads
    PROVE  /\ req[t].disk \in Disks /\ req[t].row \in Row /\ req[t].buf \in Content
           /\ Parity(t) \in Disks
           /\ req[t].pc \in 0 .. 5
<1>1. req[t].disk \in Disks /\ req[t].row \in Row /\ req[t].buf \in Content
      /\ req[t].pc \in 0 .. 5 /\ raid_type \in RaidTypes
  BY DEF TypeOK, Request
<1> QED BY <1>1, Layout DEF Parity

(* The recovery tool is a process of its own. *)
LEMMA RecoverFrame ==
    ASSUME \/ \E d \in Disks : RecoverStart(d)
           \/ RecoverRow \/ RecoverEnd \/ RecoverAbort
    PROVE  UNCHANGED <<raid_type, working, content, mounted, disk_status,
                       operation_mode, stored, blind, torn, req>>
<1>1. ASSUME NEW d \in Disks, RecoverStart(d)
      PROVE  UNCHANGED <<raid_type, working, content, mounted, statusVars, stored,
                         history, req>>
  BY <1>1 DEF RecoverStart
<1>2. CASE RecoverRow
  BY <1>2 DEF RecoverRow, statusVars, history
<1>3. CASE RecoverEnd
  BY <1>3 DEF RecoverEnd, statusVars, history
<1>4. CASE RecoverAbort
  BY <1>4 DEF RecoverAbort, statusVars, history
<1> QED BY <1>1, <1>2, <1>3, <1>4 DEF statusVars, history

(* Every step. *)
LEMMA OneDiskOutNext ==
    ASSUME OneFault, TypeInv, OneDiskOut, [Next]_vars
    PROVE  OneDiskOut'
<1>1. TypeOK
  BY DEF TypeInv
<1>2. CASE \/ Unmount \/ Crash \/ RecoverAbort \/ RecoverEnd \/ RecoverRow
           \/ UNCHANGED vars
           \/ \E t \in Threads :
                 Save(t) \/ \E d \in Disks, r \in Row : WriteStart(t, d, r)
           \/ \E d \in Disks, r \in Row : Remove(d, r)
  <2>1. UNCHANGED <<raid_type, working, disk_status, operation_mode>>
        /\ (mounted' => mounted)
    <3>1. CASE Unmount \/ Crash
      BY <3>1 DEF Unmount, Crash, statusVars
    <3>5. CASE RecoverAbort \/ RecoverEnd \/ RecoverRow
      BY <3>5, RecoverFrame
    <3>6. CASE UNCHANGED vars
      BY <3>6 DEF vars
    <3>2. ASSUME NEW t \in Threads, NEW d \in Disks, NEW r \in Row, WriteStart(t, d, r)
          PROVE  UNCHANGED <<raid_type, working, disk_status, operation_mode, mounted>>
      BY <3>2 DEF WriteStart, statusVars
    <3>3. ASSUME NEW t \in Threads, Save(t)
          PROVE  UNCHANGED <<raid_type, working, disk_status, operation_mode, mounted>>
      BY <3>3 DEF Save, statusVars
    <3>4. ASSUME NEW d \in Disks, NEW r \in Row, Remove(d, r)
          PROVE  UNCHANGED <<raid_type, working, disk_status, operation_mode, mounted>>
      BY <3>4 DEF Remove, statusVars
    <3> QED BY <1>2, <3>1, <3>2, <3>3, <3>4, <3>5, <3>6
  <2>2. rec'.phase # "none" => rec.phase # "none" /\ rec'.disk = rec.disk
    <3>1. CASE RecoverEnd \/ RecoverRow \/ RecoverAbort
      BY <1>1, <3>1, IdleType DEF RecoverEnd, RecoverRow, RecoverAbort, TypeOK, Recovery
    <3>2. CASE ~ (RecoverEnd \/ RecoverRow \/ RecoverAbort)
      BY <1>2, <3>2 DEF Unmount, Crash, vars, Save, WriteStart, Remove
    <3> QED BY <3>1, <3>2
  <2>3. OutOfService' \subseteq OutOfService
    BY <2>1, <2>2 DEF OutOfService
  <2> QED BY <2>1, <2>3 DEF OneDiskOut, get_operation_mode, Failed
<1>4. ASSUME NEW t \in Threads,
             ReadOld(t) \/ ReadParity(t) \/ WriteData(t) \/ WriteParity(t)
      PROVE  OneDiskOut'
  <2>1. \E S \in SUBSET Disks : Detect(S)
    <3>1. {req[t].disk} \in SUBSET Disks /\ {Parity(t)} \in SUBSET Disks
      BY <1>1, StepDisks
    <3> QED BY <1>4, <3>1 DEF ReadOld, ReadParity, WriteData, WriteParity, Parity
  <2> QED BY <2>1, <1>1, <1>4, DetectOut
          DEF ReadOld, ReadParity, WriteData, WriteParity
<1>5. ASSUME NEW d \in Disks, NEW r \in Row, Read(d, r) PROVE OneDiskOut'
  <2>1. Accessed(raid_type, disk_status, d) \in SUBSET Disks
    <3>1. N - d - 1 \in Disks
      BY DisksAssumption
    <3>2. Visited(disk_status, d) \subseteq Disks
      BY DEF Visited
    <3> QED BY <3>1, <3>2 DEF Accessed
  <2> QED BY <2>1, <1>1, <1>5, DetectOut DEF Read
<1> QED BY <1>2, <1>4, <1>5, OneDiskOutMount, OneDiskOutBreak, OneDiskOutRecover
        DEF Next, Write

-----------------------------------------------------------------------------
(* What decode() returns. *)

(* A disk that answers and is not marked failed is read. *)
LEMMA DecodeWorking ==
    ASSUME NEW rt, NEW status, NEW d \in Disks, NEW r, status[d] = 0, working[d],
           NEW a \in Decode(rt, status, d, r)
    PROVE  a = [ok |-> TRUE, value |-> content[d][r]]
  BY DEF Decode, ReadInto

(* The one lost disk of RAID 4 and 5 is the XOR of the others ... *)
LEMMA DecodeLost ==
    ASSUME NEW x \in Disks, NEW r \in Row, \A y \in Disks \ {x} : working[y],
           NEW rt, rt # 1, NEW a \in Decode(rt, Only(x), x, r)
    PROVE  a = [ok |-> TRUE,
                value |-> XorOver(Disks \ {x}, [e \in Disks |-> content[e][r]])]
<1>1. Visited(Only(x), x) = Disks \ {x}
  BY DisksAssumption DEF Visited, Only
<1> DEFINE read == [i \in Disks |-> TempBuf(x, r, i)]
           row == [e \in Disks |-> content[e][r]]
<1>2. a = [ok |-> Visited(Only(x), x) = Disks \ {x},
           value |-> XorOver(Visited(Only(x), x), read)]
  BY DEF Decode, Only
<1>3. ASSUME NEW i \in Disks \ {x} PROVE read[i] = row[i]
  <2> DEFINE good == {j \in 0 .. i : j # x /\ working[j]}
  <2>1. i \in good /\ \A k \in good : k <= i
    BY DisksAssumption
  <2>2. \A j \in good : (\A k \in good : k <= j) => j = i
    <3>1. \A j \in good : j \in Int /\ i \in Int
      OBVIOUS
    <3> HIDE DEF good
    <3> QED BY <2>1, <3>1
  <2>3. (CHOOSE j \in good : \A k \in good : k <= j) = i
    <3> HIDE DEF good
    <3> QED BY <2>1, <2>2
  <2>4. TempBuf(x, r, i) = content[i][r]
    BY <2>1, <2>3 DEF TempBuf
  <2> QED BY <2>4
<1>4. XorOver(Disks \ {x}, read) = XorOver(Disks \ {x}, row)
  <2> HIDE DEF read, row
  <2> QED BY <1>3, XorSame
<1> QED BY <1>1, <1>2, <1>4

(* ... and that of RAID 1 is its mirror. *)
LEMMA DecodeMirror ==
    ASSUME NEW x \in Disks, NEW r \in Row, \A y \in Disks \ {x} : working[y],
           N - 1 - x # x, NEW a \in Decode(1, Only(x), x, r)
    PROVE  a = [ok |-> TRUE, value |-> content[N - 1 - x][r]]
<1>1. N - x - 1 = N - 1 - x /\ N - 1 - x \in Disks
  BY DisksAssumption
<1>2. Only(x)[x] = 1 /\ Only(x)[N - x - 1] = 0 /\ working[N - x - 1]
  BY <1>1 DEF Only
<1> QED BY <1>1, <1>2 DEF Decode, ReadInto

-----------------------------------------------------------------------------
(* Writes. *)

(* While a disk is being replaced no write begins. *)
LEMMA NoWriteInRecovery ==
    ASSUME TypeInv, OneDiskOut, RecoveryInv, mounted, MayWrite(operation_mode)
    PROVE  rec.phase = "none"
<1> SUFFICES ASSUME rec.phase # "none" PROVE FALSE
  OBVIOUS
<1>1. rec.disk \in Disks /\ disk_status[rec.disk] = 1
  BY DEF RecoveryInv, TypeInv, TypeOK, Recovery
<1>2. Failed(disk_status) = {rec.disk}
  <2>1. rec.disk \in OutOfService
    BY <1>1 DEF OutOfService
  <2>2. \A e \in Disks \ {rec.disk} : disk_status[e] = 0
    BY <2>1, OthersWork DEF TypeInv, TypeOK
  <2> QED BY <1>1, <2>2 DEF Failed
<1>3. Cardinality(Failed(disk_status)) = 1
  BY <1>2, FS_Singleton
<1>4. raid_type \in {1, 4, 5}
  BY RedundancyAssumption DEF TypeInv, TypeOK
<1>5. get_operation_mode(raid_type, disk_status) = {1}
  BY <1>3, <1>4 DEF get_operation_mode, ModesFor, ReedSolomon, RegeneratingMBR
<1> QED BY <1>5 DEF OneDiskOut, MayWrite

(* Every step keeps what a write under way has read. *)
LEMMA WriteInProgressNext ==
    ASSUME OneFault, Inv, [Next]_vars
    PROVE  WriteInProgress'
<1> USE DEF Inv
<1>0. req \in [Threads -> Request] /\ stored \in [Blocks -> Writes \cup {None}]
  BY DEF TypeInv, TypeOK
<1>1. CASE \/ \E d \in Disks : Break(d) \/ \E status \in {0, 1} : Command(d, status)
           \/ \E d \in Disks, r \in Row : Read(d, r)
           \/ UNCHANGED vars
  <2>1. UNCHANGED <<raid_type, mounted, stored, req, rec>>
    BY <1>1 DEF Break, Command, Read, vars, history
  <2> QED BY <2>1 DEF WriteInProgress
<1>2. CASE Unmount \/ Crash \/ Mount \/ RecoverRow \/ RecoverEnd \/ RecoverAbort
           \/ \E d \in Disks : RecoverStart(d)
  <2>1. \A t \in Threads : req'[t].pc = 0
    <3>1. CASE Unmount
      BY <3>1 DEF Unmount, Quiet
    <3>2. CASE Crash
      BY <3>2, IdleType DEF Crash
    <3>3. CASE Mount
      BY <3>3 DEF Mount, WriteInProgress
    <3>4. CASE RecoverRow \/ RecoverEnd \/ RecoverAbort
      BY <3>4 DEF RecoverRow, RecoverEnd, RecoverAbort, RecoveryInv, Quiet
    <3>5. CASE \E d \in Disks : RecoverStart(d)
      BY <3>5 DEF RecoverStart, OneFault, Quiet
    <3> QED BY <1>2, <3>1, <3>2, <3>3, <3>4, <3>5
  <2>2. UNCHANGED <<raid_type, stored>>
    BY <1>2 DEF Unmount, Crash, Mount, RecoverStart, RecoverRow, RecoverEnd, RecoverAbort
  <2> QED BY <2>1, <2>2 DEF WriteInProgress
<1>3. ASSUME NEW t \in Threads, NEW d \in Disks, NEW r \in Row, WriteStart(t, d, r)
      PROVE  WriteInProgress'
  <2>1. \A u \in Threads : req[u].pc = 0
    BY <1>3 DEF WriteStart, OneFault, Quiet
  <2>2. rec.phase = "none"
    BY <1>3, NoWriteInRecovery DEF WriteStart
  <2>3. /\ req'[t] = [pc |-> 1, disk |-> d, row |-> r,
                      w |-> written + 1, buf |-> {written + 1}]
        /\ \A u \in Threads \ {t} : req'[u].pc = 0
    BY <1>0, <1>3, <2>1 DEF WriteStart
  <2>4. written + 1 \in Writes
    BY <1>3, RedundancyAssumption DEF WriteStart, TypeInv, TypeOK, Writes
  <2> QED BY <1>3, <2>2, <2>3, <2>4 DEF WriteStart, WriteInProgress
<1>4. ASSUME NEW t \in Threads,
             ReadOld(t) \/ ReadParity(t) \/ WriteData(t) \/ WriteParity(t)
      PROVE  WriteInProgress'
  <2>1. UNCHANGED <<raid_type, mounted, stored, rec>> /\ req[t].pc # 0
    BY <1>4 DEF ReadOld, ReadParity, WriteData, WriteParity, At, history
  <2>2. /\ req'[t].disk = req[t].disk /\ req'[t].row = req[t].row
        /\ req'[t].w = req[t].w
        /\ \A u \in Threads \ {t} : req'[u] = req[u]
    BY <1>0, <1>4 DEF ReadOld, ReadParity, WriteData, WriteParity, Request
  <2> QED BY <2>1, <2>2 DEF WriteInProgress
<1>5. ASSUME NEW t \in Threads, Save(t) PROVE WriteInProgress'
  <2>1. req[t].pc # 0 /\ UNCHANGED <<raid_type, mounted, rec>>
    BY <1>5 DEF Save, At
  <2>2. \A u \in Threads : req'[u].pc = 0
    BY <1>0, <1>5, <2>1, IdleType DEF Save, WriteInProgress
  <2>3. \A b \in Blocks : stored'[b] # None => stored[b] # None \/ b = Block(t)
    BY <1>0, <1>5 DEF Save, Block
  <2>4. IsData(raid_type, Block(t)[1], Block(t)[2])
    BY <2>1 DEF WriteInProgress, Block
  <2> QED BY <2>1, <2>2, <2>3, <2>4 DEF WriteInProgress
<1>6. ASSUME NEW d \in Disks, NEW r \in Row, Remove(d, r) PROVE WriteInProgress'
  <2>1. UNCHANGED <<raid_type, mounted, req, rec>> /\ Quiet
    BY <1>6 DEF Remove, OneFault
  <2>2. \A b \in Blocks : stored'[b] # None => stored[b] # None
    BY <1>0, <1>6 DEF Remove
  <2> QED BY <2>1, <2>2 DEF WriteInProgress, Quiet
<1> QED BY <1>1, <1>2, <1>3, <1>4, <1>5, <1>6 DEF Next, Write

-----------------------------------------------------------------------------
(* The recovery tool. *)

LEMMA RecoveryStep ==
    ASSUME Inv, RecoverRow
    PROVE  RecoveryInv'
<1> USE DEF Inv
<1> DEFINE x == rec.disk
           r == rec.row
<1>1. /\ rec \in Recovery /\ x \in Disks /\ r \in Row /\ r + 1 \in 1 .. Rows
      /\ rec.phase = "run" /\ rec.status = Only(x) /\ Quiet
      /\ raid_type \in {1, 4, 5}
  <2>1. rec \in Recovery /\ rec.phase = "run" /\ rec.row < Rows /\ Rows \in Nat
        /\ raid_type \in {1, 4, 5}
    BY RedundancyAssumption DEF TypeInv, TypeOK, RecoverRow
  <2> QED BY <2>1 DEF Recovery, RecoveryInv
<1>2. \A e \in Disks \ {x} : working[e]
  BY <1>1, OthersWork DEF OutOfService
<1>3. PICK a \in Decode(raid_type, Only(x), x, r) :
         rec' = [rec EXCEPT
                    !.new[r] = a.value,
                    !.row = @ + 1,
                    !.status = Marked(rec.status,
                        {e \in Accessed(raid_type, rec.status, x) : ~working[e]})]
  BY <1>1 DEF RecoverRow
<1>4. (raid_type = 1 /\ N - 1 - x = x) \/ a.value = Replacement(x, r)
  <2>1. CASE raid_type = 1 /\ N - 1 - x # x
    <3>1. a = [ok |-> TRUE, value |-> content[N - 1 - x][r]]
      BY <1>1, <1>2, <1>3, <2>1, DecodeMirror
    <3> QED BY <2>1, <3>1 DEF Replacement
  <2>2. CASE raid_type # 1
    <3>1. a = [ok |-> TRUE,
               value |-> XorOver(Disks \ {x}, [e \in Disks |-> content[e][r]])]
      BY <1>1, <1>2, <1>3, <2>2, DecodeLost
    <3> QED BY <2>2, <3>1 DEF Replacement
  <2> QED BY <2>1, <2>2
<1>5. Marked(rec.status, {e \in Accessed(raid_type, rec.status, x) : ~working[e]}) = Only(x)
  <2>1. \A e \in Accessed(raid_type, Only(x), x) : e # x /\ e \in Disks
    BY <1>1, DisksAssumption DEF Accessed, Only, Visited
  <2>2. {e \in Accessed(raid_type, rec.status, x) : ~working[e]} = {}
    BY <1>1, <1>2, <2>1
  <2> QED BY <1>1, <2>2 DEF Marked, Only
<1>6. /\ rec'.phase = "run" /\ rec'.disk = x /\ rec'.row = r + 1
      /\ rec'.status = Only(x)
      /\ rec'.new = [rec.new EXCEPT ![r] = a.value]
  BY <1>1, <1>3, <1>5 DEF Recovery
<1>7. ASSUME NEW q \in 0 .. r
      PROVE  (raid_type = 1 /\ N - 1 - x = x) \/ rec'.new[q] = Replacement(x, q)
  <2>1. rec.new \in [Row -> Content] /\ q \in Row
    <3>1. rec.new \in [Row -> Content] /\ r \in Row /\ Rows \in Nat
      BY <1>1, RedundancyAssumption DEF Recovery
    <3> QED BY <3>1
  <2>2. CASE q = r
    BY <1>1, <1>4, <1>6, <2>1, <2>2
  <2>3. CASE q # r
    <3>1. q \in 0 .. r - 1 /\ rec'.new[q] = rec.new[q]
      BY <1>1, <1>6, <2>1, <2>3
    <3> QED BY <1>1, <3>1 DEF RecoveryInv
  <2> QED BY <2>2, <2>3
<1>8. UNCHANGED <<raid_type, content, mounted, disk_status, req>>
  BY RecoverFrame
<1>9. \A e, q : Replacement(e, q)' = Replacement(e, q)
  BY <1>8 DEF Replacement
<1>10. (mounted' => disk_status'[rec'.disk] = 1) /\ Quiet'
  BY <1>1, <1>6, <1>8 DEF RecoveryInv, Quiet
<1>11. ASSUME NEW q \in 0 .. rec'.row - 1
       PROVE  \/ raid_type' = 1 /\ N - 1 - rec'.disk = rec'.disk
              \/ rec'.new[q] = Replacement(rec.disk, q)'
  <2>1. q \in 0 .. r
    BY <1>1, <1>6
  <2> QED BY <2>1, <1>6, <1>7, <1>8, <1>9
<1> QED BY <1>6, <1>10, <1>11, <1>8, Zenon DEF RecoveryInv

(* Every step keeps what ./recover has rebuilt. *)
LEMMA RecoveryInvNext ==
    ASSUME OneFault, Inv, [Next]_vars, WriteInProgress'
    PROVE  RecoveryInv'
<1> USE DEF Inv
<1>1. CASE \/ \E t \in Threads : Write(t)
           \/ Mount \/ RecoverAbort
  <2>1. rec'.phase = "none"
    <3>1. ASSUME NEW t \in Threads, Write(t) PROVE rec'.phase = "none"
      <4>1. CASE \E d \in Disks, r \in Row : WriteStart(t, d, r)
        <5>1. req'[t].pc # 0
          BY <4>1 DEF WriteStart, TypeInv, TypeOK
        <5> QED BY <5>1 DEF WriteInProgress
      <4>2. CASE ReadOld(t) \/ ReadParity(t) \/ WriteData(t) \/ WriteParity(t) \/ Save(t)
        <5>1. rec' = rec /\ req[t].pc # 0
          BY <4>2 DEF ReadOld, ReadParity, WriteData, WriteParity, Save, At
        <5> QED BY <5>1 DEF WriteInProgress
      <4> QED BY <3>1, <4>1, <4>2 DEF Write
    <3>2. CASE Mount \/ RecoverAbort
      BY <3>2, IdleType DEF Mount, RecoverAbort
    <3> QED BY <1>1, <3>1, <3>2
  <2> QED BY <2>1 DEF RecoveryInv
<1>2. CASE \/ Unmount \/ Crash \/ UNCHANGED vars
           \/ \E d \in Disks : Break(d) \/ \E status \in {0, 1} : Command(d, status)
           \/ \E d \in Disks, r \in Row : Remove(d, r) \/ Read(d, r)
  <2>1. UNCHANGED <<raid_type, content, rec>> /\ (Quiet => Quiet')
    <3>1. CASE Unmount \/ Crash \/ UNCHANGED vars
      BY <3>1, IdleType DEF Unmount, Crash, vars, Quiet
    <3>2. ASSUME NEW d \in Disks, Break(d) \/ \E status \in {0, 1} : Command(d, status)
          PROVE  UNCHANGED <<raid_type, content, rec, req>>
      BY <3>2 DEF Break, Command
    <3>3. ASSUME NEW d \in Disks, NEW r \in Row, Remove(d, r) \/ Read(d, r)
          PROVE  UNCHANGED <<raid_type, content, rec, req>>
      BY <3>3 DEF Remove, Read
    <3> QED BY <1>2, <3>1, <3>2, <3>3 DEF Quiet
  <2>2. rec.phase # "none" /\ (mounted => disk_status[rec.disk] = 1)
           => (mounted' => disk_status'[rec.disk] = 1)
    <3> SUFFICES ASSUME rec.phase # "none", mounted => disk_status[rec.disk] = 1, mounted'
                 PROVE  disk_status'[rec.disk] = 1
      OBVIOUS
    <3>0. TypeOK /\ rec.disk \in Disks
      BY DEF TypeInv, TypeOK, Recovery
    <3>1. CASE Unmount \/ Crash \/ UNCHANGED vars
      BY <3>1 DEF Unmount, Crash, vars
    <3>2. ASSUME NEW d \in Disks, Break(d) PROVE disk_status'[rec.disk] = 1
      BY <3>2 DEF Break, statusVars
    <3>3. ASSUME NEW d \in Disks, NEW status \in {0, 1}, Command(d, status)
          PROVE  disk_status'[rec.disk] = 1
      BY <3>0, <3>3 DEF Command, TypeOK
    <3>4. ASSUME NEW d \in Disks, NEW r \in Row, Remove(d, r)
          PROVE  disk_status'[rec.disk] = 1
      BY <3>4 DEF Remove, statusVars
    <3>5. ASSUME NEW d \in Disks, NEW r \in Row, Read(d, r)
          PROVE  disk_status'[rec.disk] = 1
      BY <3>0, <3>5 DEF Read, Detect, Marked
    <3> QED BY <1>2, <3>1, <3>2, <3>3, <3>4, <3>5
  <2>3. \A x, r : Replacement(x, r)' = Replacement(x, r)
    BY <2>1 DEF Replacement
  <2> QED BY <2>1, <2>2, <2>3 DEF RecoveryInv
<1>3. ASSUME NEW d \in Disks, RecoverStart(d) PROVE RecoveryInv'
  <2>1. /\ rec'.phase = "run" /\ rec'.disk = d /\ rec'.row = 0
        /\ UNCHANGED <<mounted, disk_status, req>>
        /\ mounted => disk_status[d] = 1
        /\ Quiet
    BY <1>3 DEF RecoverStart, NoRecovery, OneFault, statusVars
  <2>2. rec'.status = Only(d)
    BY <1>3, OneDiskOutRecover
  <2> QED BY <2>1, <2>2 DEF RecoveryInv, Quiet
<1>4. CASE RecoverEnd
  <2>1. /\ rec'.phase = "done" /\ rec'.disk = rec.disk /\ rec'.row = rec.row
        /\ rec'.new = rec.new /\ rec.row = Rows /\ rec.phase = "run"
    BY <1>4 DEF RecoverEnd, TypeInv, TypeOK, Recovery
  <2>2. \A x, r : Replacement(x, r)' = Replacement(x, r)
    BY <1>4, RecoverFrame DEF Replacement
  <2>3. UNCHANGED <<raid_type, mounted, disk_status, req>>
    BY <1>4, RecoverFrame
  <2> QED BY <2>1, <2>2, <2>3 DEF RecoveryInv, Quiet
<1> QED BY <1>1, <1>2, <1>3, <1>4, RecoveryStep DEF Next

-----------------------------------------------------------------------------
(* The rows of RAID 4 and 5. *)

(* A row stays what it is while nothing is written, removed or repaired. *)
LEMMA RowKept ==
    ASSUME UNCHANGED <<raid_type, content, stored, blind, req>>,
           \A e \in Disks : working'[e] => working[e],
           NEW r \in Row, NEW V, NEW delta, RowIs(r, V, delta), TypeOK
    PROVE  RowIs(r, V, delta)'
<1>1. \A t \in Threads : Parity(t)' = Parity(t) /\ Block(t)' = Block(t)
  BY DEF Parity, Block
<1>2. \A t \in Threads : DataOnly(t)' = DataOnly(t)
  BY DEF DataOnly, DataWritten, ParityWritten
<1>3. ASSUME NEW t \in Threads, req[t].row = r, WriteInRow(t, V, delta)
      PROVE  WriteInRow(t, V, delta)'
  <2>1. req[t].disk \in Disks /\ Parity(t) \in Disks
    BY StepDisks
  <2>2. /\ OldRead(t)' = OldRead(t) /\ DataWritten(t)' = DataWritten(t)
        /\ ParityRead(t)' = ParityRead(t) /\ ParityWritten(t)' = ParityWritten(t)
    BY DEF OldRead, DataWritten, ParityRead, ParityWritten
  <2> QED BY <1>1, <1>3, <2>1, <2>2 DEF WriteInRow
<1> QED BY <1>1, <1>2, <1>3 DEF RowIs

(* What a write finds: its two disks are different, no file refers to its  *)
(* blocks, and it is alone.                                                *)
LEMMA InWrite ==
    ASSUME Inv, NEW t \in Threads, req[t].pc # 0
    PROVE  /\ req[t].disk \in Disks /\ req[t].row \in Row /\ req[t].buf \in Content
           /\ req[t].w \in Writes /\ {req[t].w} \in Content
           /\ Parity(t) \in Disks /\ Parity(t) # req[t].disk
           /\ stored[Block(t)] = None
           /\ stored[<<Parity(t), req[t].row>>] = None
           /\ \A u \in Threads \ {t} : req[u].pc = 0
<1> USE DEF Inv
<1>1. req[t].disk \in Disks /\ req[t].row \in Row /\ req[t].buf \in Content
      /\ raid_type \in RaidTypes
  BY DEF TypeInv, TypeOK, Request
<1>2. /\ IsData(raid_type, req[t].disk, req[t].row)
      /\ stored[Block(t)] = None /\ req[t].w \in Writes
      /\ \A u \in Threads \ {t} : req[u].pc = 0
  BY DEF WriteInProgress, Block
<1>3. /\ Parity(t) \in Disks /\ Parity(t) # req[t].disk
      /\ ~IsData(raid_type, Parity(t), req[t].row)
  BY <1>1, <1>2, Layout DEF Parity
<1>4. stored[<<Parity(t), req[t].row>>] = None
  BY <1>1, <1>3 DEF WriteInProgress, Blocks
<1>5. {req[t].w} \in Content
  BY <1>2 DEF Content
<1> QED BY <1>1, <1>2, <1>3, <1>4, <1>5

(* A write leaves the other rows alone. *)
LEMMA OtherRow ==
    ASSUME Inv, NEW t \in Threads, req[t].pc # 0,
           NEW q \in Row, q # req[t].row,
           UNCHANGED <<raid_type, working>>,
           \A u \in Threads \ {t} : req'[u] = req[u],
           req'[t].pc # 0 => req'[t].row = req[t].row,
           \A e \in Disks :
              /\ content'[e][q] = content[e][q]
              /\ stored'[<<e, q>>] = stored[<<e, q>>]
              /\ <<e, q>> \in blind' => <<e, q>> \in blind
              /\ <<e, q>> \in blind => <<e, q>> \in blind',
           NEW V, NEW delta, RowIs(q, V, delta)
    PROVE  RowIs(q, V, delta)'
<1>1. \A u \in Threads : req'[u].pc # 0 => u = t /\ req'[u].row # q
  BY InWrite
<1>2. \A u \in Threads : DataOnly(u)' => req'[u].pc # 0
  BY DEF DataOnly
<1>3. \A e \in Disks : working[e] => content[e][q] = V[e]
  <2>1. \A u \in Threads, e \in Disks : DataOnly(u) /\ Block(u) = <<e, q>> => FALSE
    BY InWrite DEF DataOnly, Block
  <2> QED BY <2>1 DEF RowIs
<1>4. /\ XorOver(Disks, V) = {}
      /\ \A e \in Disks :
            stored'[<<e, q>>] # None /\ <<e, q>> \notin blind' => V[e] = {stored'[<<e, q>>]}
  BY DEF RowIs
<1>5. \A e \in Disks : working'[e] => content'[e][q] = V[e]
  BY <1>3
<1> QED BY <1>1, <1>4, <1>5 DEF RowIs

(* The block, the parity disk, the write and the buffer of a write.        *)
LEMMA WriteFields ==
    ASSUME Inv, NEW t \in Threads, req[t].pc # 0
    PROVE  \E d \in Disks, r \in Row, p \in Disks, w \in Writes, b \in Content :
              /\ d = req[t].disk /\ r = req[t].row /\ p = Parity(t)
              /\ w = req[t].w /\ b = req[t].buf
  BY InWrite

(* The old data is XORed into the buffer, or junk in its place. *)
LEMMA RowReadOld ==
    ASSUME Inv, TypeInv', NEW t \in Threads, ReadOld(t)
    PROVE  ParityInv'
<1>1. raid_type # 1 /\ req[t].pc = 1 /\ req[t].pc # 0
  BY StepOrder DEF ReadOld, Inv
<1>2. PICK d \in Disks, r \in Row, p \in Disks, w \in Writes, b \in Content :
         /\ d = req[t].disk /\ r = req[t].row /\ p = Parity(t)
         /\ w = req[t].w /\ b = req[t].buf
  BY <1>1, WriteFields
<1>3. PICK v \in ReadInto(d, r) :
         req' = [req EXCEPT ![t].pc = @ + 1, ![t].buf = Xor(@, v)]
  BY <1>2 DEF ReadOld
<1>4. PICK new \in Content : new = Xor(b, v)
  <2>1. v \in Content
    BY <1>3, ReadIntoType DEF Inv, TypeInv
  <2> QED BY <2>1, XorContent
<1>5. /\ req'[t].pc = 2 /\ req'[t].buf = new
      /\ req'[t].disk = d /\ req'[t].row = r /\ req'[t].w = w
      /\ \A u \in Threads \ {t} : req'[u] = req[u]
  BY <1>1, <1>2, <1>3, <1>4 DEF Inv, TypeInv, TypeOK, Request
<1>6. /\ UNCHANGED <<raid_type, working, content, stored, torn>>
      /\ blind' = IF working[d] THEN blind \ {<<d, r>>} ELSE blind \cup {<<d, r>>}
  BY <1>2 DEF ReadOld
<1>7. Block(t)' = <<d, r>> /\ Block(t) = <<d, r>> /\ Parity(t)' = p
  BY <1>2, <1>5, <1>6 DEF Block, Parity
<1>8. /\ ~DataWritten(t) /\ ~OldRead(t) /\ ~DataWritten(t)' /\ OldRead(t)'
      /\ ~ParityRead(t)' /\ ~ParityWritten(t)'
  BY <1>1, <1>5, <1>6 DEF DataWritten, OldRead, ParityRead, ParityWritten
<1>9. SUFFICES ASSUME NEW q \in Row \ torn
               PROVE  \E V \in [Disks -> Content], delta \in Content : RowIs(q, V, delta)'
  BY <1>6 DEF ParityInv
<1>10. PICK V \in [Disks -> Content], delta \in Content : RowIs(q, V, delta)
  BY <1>1 DEF ParityInv, Inv
<1>11. CASE q # r
  <2>1. RowIs(q, V, delta)'
    BY <1>1, <1>2, <1>5, <1>6, <1>10, <1>11, OtherRow
  <2> QED BY <2>1
<1>12. CASE q = r
  <2>1. b = {w}
    BY <1>1, <1>2, <1>8, <1>10, <1>12 DEF RowIs, WriteInRow
  <2>2. \A u \in Threads : ~DataOnly(u) /\ ~DataOnly(u)'
    BY <1>1, <1>5, <1>8, InWrite DEF DataOnly
  <2>3. \A e \in Disks : working[e] => content[e][r] = V[e]
    BY <1>10, <1>12, <2>2 DEF RowIs
  <2>4. working[d] => Xor(V[d], new) = {w}
    <3> SUFFICES ASSUME working[d] PROVE Xor(V[d], new) = {w}
      OBVIOUS
    <3>1. v = V[d]
      BY <1>3, <2>3 DEF ReadInto
    <3>2. new = Xor({w}, V[d])
      BY <1>4, <2>1, <3>1
    <3>3. \A x, y : Xor(x, Xor(y, x)) = y
      BY Zenon DEF Xor
    <3> QED BY <3>2, <3>3
  <2>5. WriteInRow(t, V, new)'
    BY <1>2, <1>5, <1>6, <1>7, <1>8, <2>4 DEF WriteInRow
  <2>6. \A e \in Disks : stored[<<e, r>>] # None /\ <<e, r>> \notin blind'
           => V[e] = {stored[<<e, r>>]}
    <3>1. stored[<<d, r>>] = None
      BY <1>1, <1>7, InWrite
    <3> QED BY <1>6, <1>10, <1>12, <3>1 DEF RowIs
  <2>7. \A u \in Threads : req'[u].pc # 0 => u = t
    BY <1>1, <1>5, InWrite
  <2>8. RowIs(r, V, new)'
    BY <1>6, <1>5, <1>10, <1>12, <2>3, <2>5, <2>6, <2>7 DEF RowIs
  <2> QED BY <1>12, <2>8
<1> QED BY <1>11, <1>12

(* The old parity is XORed into the buffer. *)
LEMMA RowReadParity ==
    ASSUME Inv, TypeInv', NEW t \in Threads, ReadParity(t)
    PROVE  ParityInv'
<1>1. raid_type # 1 /\ req[t].pc = (IF raid_type = 4 THEN 3 ELSE 2) /\ req[t].pc # 0
  BY StepOrder DEF ReadParity, Inv
<1>2. PICK d \in Disks, r \in Row, p \in Disks, w \in Writes, b \in Content :
         /\ d = req[t].disk /\ r = req[t].row /\ p = Parity(t)
         /\ w = req[t].w /\ b = req[t].buf
  BY <1>1, WriteFields
<1>a. p # d /\ \A u \in Threads \ {t} : req[u].pc = 0
  BY <1>1, <1>2, InWrite
<1>3. PICK v \in ReadInto(p, r) :
         req' = [req EXCEPT ![t].pc = @ + 1, ![t].buf = Xor(@, v)]
  BY <1>2 DEF ReadParity, Parity
<1>4. PICK new \in Content : new = Xor(b, v)
  <2>1. v \in Content
    BY <1>3, ReadIntoType DEF Inv, TypeInv
  <2> QED BY <2>1, XorContent
<1>5. /\ UNCHANGED <<raid_type, working, content, stored, torn, blind>>
      /\ req'[t].pc = req[t].pc + 1 /\ req'[t].buf = new
      /\ req'[t].disk = d /\ req'[t].row = r /\ req'[t].w = w
      /\ \A u \in Threads \ {t} : req'[u] = req[u]
  BY <1>1, <1>2, <1>3, <1>4 DEF Inv, TypeInv, TypeOK, Request, ReadParity, history
<1>6. Block(t)' = <<d, r>> /\ Block(t) = <<d, r>> /\ Parity(t)' = p
  BY <1>2, <1>5 DEF Block, Parity
<1>7. /\ OldRead(t) /\ OldRead(t)' /\ ~ParityRead(t) /\ ParityRead(t)'
      /\ ~ParityWritten(t) /\ ~ParityWritten(t)'
      /\ DataWritten(t)' = DataWritten(t)
  BY <1>1, <1>5 DEF DataWritten, OldRead, ParityRead, ParityWritten
<1>8. SUFFICES ASSUME NEW q \in Row \ torn
               PROVE  \E V \in [Disks -> Content], delta \in Content : RowIs(q, V, delta)'
  BY <1>5 DEF ParityInv
<1>9. PICK V \in [Disks -> Content], delta \in Content : RowIs(q, V, delta)
  BY <1>1 DEF ParityInv, Inv
<1>10. CASE q # r
  <2>1. RowIs(q, V, delta)'
    BY <1>1, <1>2, <1>5, <1>9, <1>10, OtherRow
  <2> QED BY <2>1
<1>11. CASE q = r
  <2>1. WriteInRow(t, V, delta)
    BY <1>1, <1>2, <1>9, <1>11 DEF RowIs
  <2>2. working[p] => new = Xor(V[p], delta)
    <3> SUFFICES ASSUME working[p] PROVE new = Xor(V[p], delta)
      OBVIOUS
    <3>1. \A u \in Threads : DataOnly(u) => Block(u) # <<p, r>>
      BY <1>a, <1>6 DEF DataOnly
    <3>2. v = V[p]
      BY <1>3, <1>9, <1>11, <3>1 DEF ReadInto, RowIs
    <3>3. b = delta
      BY <2>1, <1>2, <1>7 DEF WriteInRow
    <3> QED BY <3>2, <3>3, <1>4, XorAlgebra
  <2>3. WriteInRow(t, V, delta)'
    BY <1>2, <1>5, <1>6, <1>7, <2>1, <2>2 DEF WriteInRow
  <2>4. \A u \in Threads : DataOnly(u) => DataOnly(u)' /\ Block(u)' = Block(u)
    BY <1>1, <1>a, <1>5, <1>6, <1>7 DEF DataOnly
  <2>5. \A u \in Threads : req'[u].pc # 0 => u = t
    BY <1>a, <1>5
  <2>6. RowIs(r, V, delta)'
    BY <1>5, <1>9, <1>11, <2>3, <2>4, <2>5 DEF RowIs
  <2> QED BY <1>11, <2>6
<1> QED BY <1>10, <1>11

(* The data is written: the disk holds the new block, the row in which the *)
(* parity is zero still has the old one.                                   *)
LEMMA RowWriteData ==
    ASSUME Inv, TypeInv', NEW t \in Threads, WriteData(t), raid_type # 1
    PROVE  ParityInv'
<1>1. req[t].pc = (IF raid_type = 4 THEN 2 ELSE 3) /\ req[t].pc # 0
  BY StepOrder DEF WriteData, Inv
<1>2. PICK d \in Disks, r \in Row, p \in Disks, w \in Writes, b \in Content :
         /\ d = req[t].disk /\ r = req[t].row /\ p = Parity(t)
         /\ w = req[t].w /\ b = req[t].buf
  BY <1>1, WriteFields
<1>a. p # d /\ \A u \in Threads \ {t} : req[u].pc = 0
  BY <1>1, <1>2, InWrite
<1>5. /\ UNCHANGED <<raid_type, working, stored, torn, blind>>
      /\ req'[t].pc = req[t].pc + 1 /\ req'[t].buf = b
      /\ req'[t].disk = d /\ req'[t].row = r /\ req'[t].w = w
      /\ \A u \in Threads \ {t} : req'[u] = req[u]
  BY <1>1, <1>2 DEF Inv, TypeInv, TypeOK, Request, WriteData, history
<1>6. Block(t)' = <<d, r>> /\ Block(t) = <<d, r>> /\ Parity(t)' = p
  BY <1>2, <1>5 DEF Block, Parity
<1>7. /\ OldRead(t) /\ OldRead(t)' /\ ParityRead(t)' = ParityRead(t)
      /\ ~ParityWritten(t) /\ ~ParityWritten(t)'
      /\ ~DataWritten(t) /\ DataWritten(t)'
  BY <1>1, <1>5 DEF DataWritten, OldRead, ParityRead, ParityWritten
<1>3. /\ working[d] => content'[d][r] = {w}
      /\ \A e \in Disks, q \in Row : e # d \/ q # r => content'[e][q] = content[e][q]
  <2>1. {w} \in Content /\ WriteTo(d, r, {w}) /\ TypeOK
    BY <1>1, <1>2, InWrite DEF WriteData, Inv, TypeInv
  <2> QED BY <2>1, WriteToType
<1>8. SUFFICES ASSUME NEW q \in Row \ torn
               PROVE  \E V \in [Disks -> Content], delta \in Content : RowIs(q, V, delta)'
  BY <1>5 DEF ParityInv
<1>9. PICK V \in [Disks -> Content], delta \in Content : RowIs(q, V, delta)
  BY <1>1 DEF ParityInv, Inv
<1>10. CASE q # r
  <2>1. RowIs(q, V, delta)'
    BY <1>1, <1>2, <1>3, <1>5, <1>9, <1>10, OtherRow
  <2> QED BY <2>1
<1>11. CASE q = r
  <2>1. WriteInRow(t, V, delta)
    BY <1>1, <1>2, <1>9, <1>11 DEF RowIs
  <2>2. WriteInRow(t, V, delta)'
    BY <1>2, <1>3, <1>5, <1>6, <1>7, <2>1, SMTT(30) DEF WriteInRow
  <2>3. DataOnly(t)' /\ \A u \in Threads : ~DataOnly(u)
    BY <1>1, <1>a, <1>5, <1>7 DEF DataOnly
  <2>4. \A u \in Threads : req'[u].pc # 0 => u = t
    BY <1>a, <1>5
  <2>5. \A e \in Disks : working[e] =>
           \/ content'[e][r] = V[e]
           \/ DataOnly(t)' /\ Block(t)' = <<e, r>>
    BY <1>3, <1>6, <1>9, <1>11, <2>3 DEF RowIs
  <2>6. RowIs(r, V, delta)'
    BY <1>5, <1>9, <1>11, <2>2, <2>4, <2>5 DEF RowIs
  <2> QED BY <1>11, <2>6
<1> QED BY <1>10, <1>11

(* The parity is written: the row in which the parity is zero moves on. *)
LEMMA RowWriteParity ==
    ASSUME Inv, TypeInv', NEW t \in Threads, WriteParity(t), raid_type # 1
    PROVE  ParityInv'
<1>1. req[t].pc = 4 /\ req[t].pc # 0
  BY StepOrder DEF WriteParity, Inv
<1>2. PICK d \in Disks, r \in Row, p \in Disks, w \in Writes, b \in Content :
         /\ d = req[t].disk /\ r = req[t].row /\ p = Parity(t)
         /\ w = req[t].w /\ b = req[t].buf
  BY <1>1, WriteFields
<1>3. p # d /\ \A u \in Threads \ {t} : req[u].pc = 0
  BY <1>1, <1>2, InWrite
<1>4. /\ UNCHANGED <<raid_type, working, stored, torn, blind>>
      /\ req'[t].pc = 5 /\ req'[t].disk = d /\ req'[t].row = r /\ req'[t].w = w
      /\ \A u \in Threads \ {t} : req'[u] = req[u]
  BY <1>1, <1>2 DEF Inv, TypeInv, TypeOK, Request, WriteParity, history
<1>5. Block(t)' = <<d, r>> /\ Block(t) = <<d, r>> /\ Parity(t)' = p
  BY <1>2, <1>4 DEF Block, Parity
<1>6. /\ OldRead(t) /\ OldRead(t)' /\ ParityRead(t) /\ ParityRead(t)'
      /\ ~ParityWritten(t) /\ ParityWritten(t)'
      /\ DataWritten(t) /\ DataWritten(t)'
  BY <1>1, <1>4 DEF DataWritten, OldRead, ParityRead, ParityWritten
<1>7. /\ working[p] => content'[p][r] = b
      /\ \A e \in Disks, q \in Row : e # p \/ q # r => content'[e][q] = content[e][q]
  <2>1. WriteTo(p, r, b) /\ TypeOK
    BY <1>2 DEF WriteParity, Inv, TypeInv, Parity
  <2> QED BY <2>1, WriteToType
<1>8. SUFFICES ASSUME NEW q \in Row \ torn
               PROVE  \E V \in [Disks -> Content], delta \in Content : RowIs(q, V, delta)'
  BY <1>4 DEF ParityInv
<1>9. PICK V \in [Disks -> Content], delta \in Content : RowIs(q, V, delta)
  BY DEF ParityInv, Inv
<1>10. CASE q # r
  <2>1. RowIs(q, V, delta)'
    BY <1>1, <1>2, <1>4, <1>7, <1>9, <1>10, OtherRow
  <2> QED BY <2>1
<1>11. CASE q = r
  <2>1. WriteInRow(t, V, delta)
    BY <1>1, <1>2, <1>9, <1>11 DEF RowIs
  <2>2. PICK U \in [Disks -> Content] :
           /\ U[d] = Xor(V[d], delta) /\ U[p] = Xor(V[p], delta)
           /\ \A e \in Disks \ {d, p} : V[e] = U[e]
    <3> DEFINE W == [e \in Disks |-> IF e \in {d, p} THEN Xor(V[e], delta) ELSE V[e]]
    <3>1. W \in [Disks -> Content]
      BY XorContent
    <3> QED BY <3>1
  <2>3. XorOver(Disks, U) = {}
    <3>1. IsFiniteSet(Disks) /\ XorOver(Disks, V) = {}
      BY <1>9, FiniteDisks DEF RowIs
    <3> HIDE DEF Disks
    <3> QED BY <1>3, <2>2, <3>1, XorTwice
  <2>4. Block(t) \notin blind => U[d] = {w}
    BY <1>2, <1>6, <2>1, <2>2 DEF WriteInRow
  <2>5. \A e \in Disks : stored[<<e, r>>] # None /\ <<e, r>> \notin blind
           => U[e] = {stored[<<e, r>>]}
    <3>1. stored[<<d, r>>] = None /\ stored[<<p, r>>] = None
      BY <1>1, <1>2, <1>5, InWrite
    <3> QED BY <1>9, <1>11, <2>2, <3>1 DEF RowIs
  <2>6. ASSUME NEW e \in Disks, working[e] PROVE content'[e][r] = U[e]
    <3>1. CASE e = p
      BY <1>2, <1>6, <1>7, <2>1, <2>2, <2>6, <3>1 DEF WriteInRow
    <3>2. CASE e = d
      <4>1. content[d][r] = {w}
        BY <1>2, <1>6, <2>1, <2>6, <3>2 DEF WriteInRow
      <4>2. Block(t) \notin blind
        BY <1>2, <1>6, <2>1, <2>6, <3>2 DEF WriteInRow
      <4> QED BY <1>3, <1>7, <2>4, <3>2, <4>1, <4>2
    <3>3. CASE e # p /\ e # d
      <4>1. \A u \in Threads : DataOnly(u) => Block(u) # <<e, r>>
        BY <1>3, <1>5, <3>3 DEF DataOnly
      <4>2. content[e][r] = V[e]
        BY <1>9, <1>11, <2>6, <4>1 DEF RowIs
      <4> QED BY <1>7, <2>2, <3>3, <4>2
    <3> QED BY <3>1, <3>2, <3>3
  <2>7. WriteInRow(t, U, delta)'
    BY <1>2, <1>4, <1>5, <1>6, <2>1, <2>4 DEF WriteInRow
  <2>8. \A u \in Threads : req'[u].pc # 0 => u = t
    BY <1>3, <1>4
  <2>9. RowIs(r, U, delta)'
    BY <1>4, <2>3, <2>5, <2>6, <2>7, <2>8 DEF RowIs
  <2> QED BY <1>11, <2>9
<1> QED BY <1>10, <1>11

(* The address is recorded: the file refers to the block. *)
LEMMA RowSave ==
    ASSUME Inv, NEW t \in Threads, Save(t), raid_type # 1
    PROVE  ParityInv'
<1>1. req[t].pc = 5 /\ req[t].pc # 0
  BY StepOrder DEF Save, Inv, LastStep
<1>2. PICK d \in Disks, r \in Row, p \in Disks, w \in Writes, b \in Content :
         /\ d = req[t].disk /\ r = req[t].row /\ p = Parity(t)
         /\ w = req[t].w /\ b = req[t].buf
  BY <1>1, WriteFields
<1>3. \A u \in Threads \ {t} : req[u].pc = 0
  BY <1>1, InWrite
<1>4. /\ UNCHANGED <<raid_type, working, content, torn, blind>>
      /\ \A u \in Threads : req'[u].pc = 0
      /\ \A u \in Threads \ {t} : req'[u] = req[u]
  BY <1>3, IdleType DEF Inv, TypeInv, TypeOK, Save, history
<1>5. stored'[<<d, r>>] = w
      /\ \A e \in Disks, q \in Row : e # d \/ q # r => stored'[<<e, q>>] = stored[<<e, q>>]
  BY <1>2 DEF Save, Inv, TypeInv, TypeOK, Blocks
<1>6. SUFFICES ASSUME NEW q \in Row \ torn
               PROVE  \E V \in [Disks -> Content], delta \in Content : RowIs(q, V, delta)'
  BY <1>4 DEF ParityInv
<1>7. PICK V \in [Disks -> Content], delta \in Content : RowIs(q, V, delta)
  BY DEF ParityInv, Inv
<1>8. CASE q # r
  <2>1. RowIs(q, V, delta)'
    BY <1>1, <1>2, <1>4, <1>5, <1>7, <1>8, OtherRow
  <2> QED BY <2>1
<1>9. CASE q = r
  <2>1. ParityWritten(t) /\ ~DataOnly(t)
    BY <1>1 DEF ParityWritten, DataOnly
  <2>2. <<d, r>> \notin blind => V[d] = {w}
    BY <1>1, <1>2, <1>7, <1>9, <2>1 DEF RowIs, WriteInRow, Block
  <2>3. \A e \in Disks : working[e] => content[e][r] = V[e]
    BY <1>3, <1>7, <1>9, <2>1 DEF RowIs, DataOnly
  <2>4. RowIs(r, V, delta)'
    BY <1>4, <1>5, <1>7, <1>9, <2>2, <2>3 DEF RowIs
  <2> QED BY <1>9, <2>4
<1> QED BY <1>8, <1>9

(* A write begins, in a row that no other is changing. *)
LEMMA RowWriteStart ==
    ASSUME OneFault, Inv, NEW t \in Threads, NEW d \in Disks, NEW r \in Row,
           WriteStart(t, d, r), raid_type # 1
    PROVE  ParityInv'
<1>1. /\ UNCHANGED <<raid_type, working, content, stored, torn, blind>>
      /\ \A u \in Threads : req[u].pc = 0
  BY DEF WriteStart, OneFault, Quiet
<1>2. /\ req'[t].pc = 1 /\ req'[t].buf = {req'[t].w}
      /\ \A u \in Threads \ {t} : req'[u].pc = 0
  BY <1>1 DEF WriteStart, Inv, TypeInv, TypeOK
<1>3. ~OldRead(t)' /\ ~DataWritten(t)' /\ ~ParityRead(t)' /\ ~ParityWritten(t)'
  BY <1>2 DEF OldRead, DataWritten, ParityRead, ParityWritten
<1>4. ASSUME NEW q \in Row, NEW V, NEW delta, RowIs(q, V, delta)
      PROVE  RowIs(q, V, delta)'
  <2>1. WriteInRow(t, V, delta)'
    BY <1>2, <1>3 DEF WriteInRow
  <2>2. \A e \in Disks : working[e] => content[e][q] = V[e]
    BY <1>1, <1>4 DEF RowIs, DataOnly
  <2> QED BY <1>1, <1>2, <1>4, <2>1, <2>2 DEF RowIs
<1>5. \A q \in Row \ torn : \E V \in [Disks -> Content], delta \in Content :
         RowIs(q, V, delta)
  BY DEF ParityInv, Inv
<1> QED BY <1>1, <1>4, <1>5 DEF ParityInv

(* A file gives its block up. *)
LEMMA RowRemove ==
    ASSUME OneFault, Inv, NEW d \in Disks, NEW r \in Row, Remove(d, r)
    PROVE  ParityInv'
<1>1. /\ UNCHANGED <<raid_type, working, content, torn, blind, req>>
      /\ \A u \in Threads : req[u].pc = 0
      /\ \A b \in Blocks : stored'[b] # None => stored'[b] = stored[b]
  BY DEF Remove, OneFault, Quiet, history, Inv, TypeInv, TypeOK
<1>2. ASSUME NEW q \in Row, NEW V, NEW delta, RowIs(q, V, delta)
      PROVE  RowIs(q, V, delta)'
  <2>1. \A e \in Disks : <<e, q>> \in Blocks
    BY DEF Blocks
  <2>2. \A e \in Disks : working[e] => content[e][q] = V[e]
    BY <1>1, <1>2 DEF RowIs, DataOnly
  <2> QED BY <1>1, <1>2, <2>1, <2>2 DEF RowIs
<1> QED BY <1>1, <1>2 DEF ParityInv, Inv

(* The process is killed: the rows it leaves half written are torn. *)
LEMMA RowCrash ==
    ASSUME Inv, Crash
    PROVE  ParityInv'
<1>1. /\ UNCHANGED <<raid_type, working, content, stored, blind>>
      /\ \A u \in Threads : req'[u].pc = 0
      /\ torn' = torn \cup {req[t].row : t \in {u \in Threads : HalfWritten(u)}}
  BY IdleType DEF Crash
<1>2. ASSUME NEW q \in Row \ torn', raid_type # 1, NEW V, NEW delta, RowIs(q, V, delta)
      PROVE  RowIs(q, V, delta)'
  <2>1. \A u \in Threads, e \in Disks : DataOnly(u) => Block(u) # <<e, q>>
    BY <1>1, <1>2, StepOrder DEF Inv, Block
  <2>2. \A e \in Disks : working[e] => content[e][q] = V[e]
    BY <1>2, <2>1 DEF RowIs
  <2> QED BY <1>1, <1>2, <2>2 DEF RowIs
<1>3. Row \ torn' \subseteq Row \ torn
  BY <1>1
<1> QED BY <1>1, <1>2, <1>3 DEF ParityInv, Inv

(* The replacement takes its place with what the lost disk should hold. *)
LEMMA RowMount ==
    ASSUME Inv, Mount, raid_type # 1
    PROVE  ParityInv'
<1> USE DEF Inv
<1>1. /\ UNCHANGED <<raid_type, stored, blind, torn, req>>
      /\ ~mounted
      /\ \A u \in Threads : req[u].pc = 0
  BY DEF Mount, WriteInProgress, history
<1>2. CASE rec.phase = "done"
  <2> DEFINE x == rec.disk
  <2>1. /\ x \in Disks /\ x \in OutOfService /\ rec.row = Rows
        /\ content \in [Disks -> [Row -> Content]]
    BY <1>2 DEF TypeInv, TypeOK, Recovery, OutOfService, RecoveryInv
  <2>2. \A e \in Disks \ {x} : working[e]
    BY <2>1, OthersWork
  <2>3. content' = [content EXCEPT ![x] = rec.new]
    BY <1>2 DEF Mount
  <2>4. \A q \in Row : rec.new[q] = Replacement(x, q)
    BY <1>2, <2>1, RedundancyAssumption DEF RecoveryInv
  <2>5. ASSUME NEW q \in Row, NEW V, NEW delta, RowIs(q, V, delta)
        PROVE  RowIs(q, V, delta)'
    <3>1. \A e \in Disks \ {x} : content[e][q] = V[e]
      BY <1>1, <2>2, <2>5 DEF RowIs, DataOnly
    <3> DEFINE row == [e \in Disks |-> content[e][q]]
    <3>2. XorOver(Disks \ {x}, row) = XorOver(Disks \ {x}, V)
      <4>1. \A e \in Disks \ {x} : row[e] = V[e]
        BY <3>1
      <4> HIDE DEF row, Disks
      <4> QED BY <4>1, XorSame
    <3>3. XorOver(Disks \ {x}, V) = V[x]
      <4>1. IsFiniteSet(Disks) /\ XorOver(Disks, V) = {}
        BY <2>5, FiniteDisks DEF RowIs
      <4>2. XorOver(Disks \ {x}, V) = Xor(XorOver(Disks, V), V[x])
        <5> HIDE DEF Disks
        <5> QED BY <2>1, <4>1, XorRemove
      <4> QED BY <4>1, <4>2, XorAlgebra
    <3>4. rec.new[q] = V[x]
      BY <2>4, <3>2, <3>3 DEF Replacement
    <3>5. \A e \in Disks : content'[e][q] = V[e]
      BY <2>1, <2>3, <3>1, <3>4
    <3> QED BY <1>1, <2>5, <3>5 DEF RowIs
  <2> QED BY <1>1, <2>5 DEF ParityInv
<1>3. CASE rec.phase # "done"
  <2>1. UNCHANGED <<working, content>>
    BY <1>3 DEF Mount
  <2>2. ASSUME NEW q \in Row, NEW V, NEW delta, RowIs(q, V, delta)
        PROVE  RowIs(q, V, delta)'
    BY <1>1, <2>1, <2>2, RowKept DEF TypeInv
  <2> QED BY <1>1, <2>2 DEF ParityInv
<1> QED BY <1>2, <1>3

(* Nothing changes the type of the array. *)
LEMMA SameType == ASSUME [Next]_vars PROVE raid_type' = raid_type
<1>1. ASSUME NEW t \in Threads, Write(t) PROVE raid_type' = raid_type
  BY <1>1 DEF Write, WriteStart, ReadOld, ReadParity, WriteData, WriteParity, Save
<1>2. CASE \/ \E d \in Disks : RecoverStart(d)
           \/ RecoverRow \/ RecoverEnd \/ RecoverAbort
  BY <1>2, RecoverFrame
<1>3. CASE Mount \/ Unmount \/ Crash
  BY <1>3 DEF Mount, Unmount, Crash
<1>4. ASSUME NEW d \in Disks, Break(d) \/ \E status \in {0, 1} : Command(d, status)
      PROVE  raid_type' = raid_type
  BY <1>4 DEF Break, Command
<1>5. ASSUME NEW d \in Disks, NEW r \in Row, Remove(d, r) \/ Read(d, r)
      PROVE  raid_type' = raid_type
  BY <1>5 DEF Remove, Read
<1>6. CASE UNCHANGED vars
  BY <1>6 DEF vars
<1> QED BY <1>1, <1>2, <1>3, <1>4, <1>5, <1>6 DEF Next

(* The actions that change no block, no file and no write. *)
LEMMA NothingWritten ==
    ASSUME TypeInv,
           \/ \E d \in Disks : RecoverStart(d)
           \/ RecoverRow \/ RecoverEnd \/ RecoverAbort
           \/ Unmount \/ UNCHANGED vars
           \/ \E d \in Disks : Break(d) \/ \E status \in {0, 1} : Command(d, status)
           \/ \E d \in Disks, r \in Row : Read(d, r)
    PROVE  /\ UNCHANGED <<raid_type, content, stored, blind, torn, req>>
           /\ \A e \in Disks : working'[e] => working[e]
<1>1. CASE \/ \E d \in Disks : RecoverStart(d)
           \/ RecoverRow \/ RecoverEnd \/ RecoverAbort
  BY <1>1, RecoverFrame
<1>2. CASE Unmount \/ UNCHANGED vars
  BY <1>2 DEF Unmount, vars, history
<1>3. ASSUME NEW d \in Disks, Break(d)
      PROVE  /\ UNCHANGED <<raid_type, content, stored, blind, torn, req>>
             /\ \A e \in Disks : working'[e] => working[e]
  BY <1>3 DEF Break, history, TypeInv, TypeOK
<1>4. ASSUME NEW d \in Disks, NEW status \in {0, 1}, Command(d, status)
      PROVE  UNCHANGED <<raid_type, working, content, stored, blind, torn, req>>
  BY <1>4 DEF Command, history
<1>5. ASSUME NEW d \in Disks, NEW r \in Row, Read(d, r)
      PROVE  UNCHANGED <<raid_type, working, content, stored, blind, torn, req>>
  BY <1>5 DEF Read, history
<1> QED BY <1>1, <1>2, <1>3, <1>4, <1>5

(* Every step keeps the XOR of the rows of RAID 4 and 5. *)
LEMMA ParityInvNext ==
    ASSUME OneFault, Inv, TypeInv', [Next]_vars
    PROVE  ParityInv'
<1> SUFFICES ASSUME raid_type # 1 PROVE ParityInv'
  BY SameType DEF ParityInv
<1>1. ASSUME NEW t \in Threads, Write(t) PROVE ParityInv'
  BY <1>1, RowWriteStart, RowReadOld, RowReadParity, RowWriteData, RowWriteParity,
     RowSave DEF Write
<1>2. CASE \/ \E d \in Disks : RecoverStart(d)
           \/ RecoverRow \/ RecoverEnd \/ RecoverAbort
           \/ Unmount \/ UNCHANGED vars
           \/ \E d \in Disks : Break(d) \/ \E status \in {0, 1} : Command(d, status)
           \/ \E d \in Disks, r \in Row : Read(d, r)
  <2>1. /\ UNCHANGED <<raid_type, content, stored, blind, torn, req>>
        /\ \A e \in Disks : working'[e] => working[e]
    BY <1>2, NothingWritten DEF Inv
  <2>2. ASSUME NEW q \in Row, NEW V, NEW delta, RowIs(q, V, delta)
        PROVE  RowIs(q, V, delta)'
    BY <2>1, <2>2, RowKept DEF Inv, TypeInv
  <2> QED BY <2>1, <2>2 DEF ParityInv, Inv
<1> QED BY <1>1, <1>2, RowRemove, RowCrash, RowMount DEF Next

-----------------------------------------------------------------------------
(* The mirrors of RAID 1. *)

MirrorOf(d) == N - d - 1

(* Blocks of files are on the first half of the disks, mirrors on the other. *)
LEMMA MirrorLayout ==
    ASSUME Inv, raid_type = 1
    PROVE  /\ \A d, r : RedundancyDisk(raid_type, d, r) = MirrorOf(d)
           /\ \A b \in Blocks : stored[b] # None =>
                 b[1] \in Disks /\ b[2] \in Row /\ IsData(1, b[1], b[2])
           /\ \A d, e \in Disks : \A r, q : IsData(1, d, r) /\ IsData(1, e, q) =>
                 MirrorOf(d) # e /\ MirrorOf(d) \in Disks /\ (MirrorOf(d) = MirrorOf(e) => d = e)
<1>1. \A d, r : RedundancyDisk(raid_type, d, r) = MirrorOf(d)
  BY DEF RedundancyDisk, MirrorOf
<1>2. \A b \in Blocks : stored[b] # None =>
         b[1] \in Disks /\ b[2] \in Row /\ IsData(1, b[1], b[2])
  BY DEF Inv, WriteInProgress, Blocks
<1>3. N \in Nat /\ N \div 2 \in Nat /\ 2 * (N \div 2) <= N
  BY DisksAssumption
<1>4. ASSUME NEW d \in Disks, NEW e \in Disks, d < N \div 2, e < N \div 2
      PROVE  MirrorOf(d) # e /\ MirrorOf(d) \in Disks /\ (MirrorOf(d) = MirrorOf(e) => d = e)
  BY <1>3, <1>4 DEF MirrorOf
<1> QED BY <1>1, <1>2, <1>4 DEF IsData

(* A write to one copy, then to the other. *)
LEMMA MirrorWrite ==
    ASSUME Inv, TypeInv', NEW t \in Threads, WriteData(t) \/ WriteParity(t), raid_type = 1
    PROVE  MirrorInv'
<1>1. req[t].pc = (IF WriteData(t) THEN 1 ELSE 2) /\ req[t].pc # 0
  BY StepOrder DEF WriteData, WriteParity, Inv
<1>2. PICK d \in Disks, r \in Row, p \in Disks, w \in Writes, b \in Content :
         /\ d = req[t].disk /\ r = req[t].row /\ p = Parity(t)
         /\ w = req[t].w /\ b = req[t].buf
  BY <1>1, WriteFields
<1>3. /\ p # d /\ p = MirrorOf(d) /\ IsData(1, d, r)
      /\ \A u \in Threads \ {t} : req[u].pc = 0
      /\ stored[<<d, r>>] = None
  BY <1>1, <1>2, InWrite, MirrorLayout DEF Block, Parity, Inv, WriteInProgress
<1>4. /\ b = {w}
      /\ req[t].pc > 1 /\ working[d] => content[d][r] = {w}
  BY <1>1, <1>2 DEF Inv, MirrorInv
<1>5. /\ UNCHANGED <<raid_type, working, stored>>
      /\ req'[t].pc = req[t].pc + 1 /\ req'[t].buf = b
      /\ req'[t].disk = d /\ req'[t].row = r /\ req'[t].w = w
      /\ \A u \in Threads \ {t} : req'[u] = req[u]
  BY <1>1, <1>2 DEF Inv, TypeInv, TypeOK, Request, WriteData, WriteParity
<1>6. Parity(t)' = p
  BY <1>2, <1>5 DEF Parity
<1>7. PICK e \in Disks :
         /\ e = IF WriteData(t) THEN d ELSE p
         /\ working[e] => content'[e][r] = {w}
         /\ \A f \in Disks, q \in Row : f # e \/ q # r => content'[f][q] = content[f][q]
  <2>1. \E e \in Disks : e = (IF WriteData(t) THEN d ELSE p) /\ WriteTo(e, r, {w})
    BY <1>2, <1>4 DEF WriteData, WriteParity, Parity
  <2>2. TypeOK /\ {w} \in Content
    BY <1>1, <1>2, InWrite DEF Inv, TypeInv
  <2> QED BY <2>1, <2>2, WriteToType
<1>8. ASSUME NEW c \in Blocks, stored[c] # None,
             NEW f \in {c[1], N - c[1] - 1}, working[f]
      PROVE  content'[f][c[2]] = {stored[c]}
  <2>1. c[1] \in Disks /\ c[2] \in Row /\ IsData(1, c[1], c[2])
        /\ c = <<c[1], c[2]>>
    BY <1>8, MirrorLayout DEF Blocks
  <2>2. f \in Disks /\ (f # e \/ c[2] # r)
    <3>1. \A x, y \in Disks : \A q, z : IsData(1, x, q) /\ IsData(1, y, z) =>
                 MirrorOf(x) # y /\ MirrorOf(x) \in Disks /\ (MirrorOf(x) = MirrorOf(y) => x = y)
      BY MirrorLayout
    <3>2. c[1] # d \/ c[2] # r
      BY <1>3, <1>8, <2>1
    <3>3. MirrorOf(c[1]) # d /\ MirrorOf(c[1]) \in Disks
          /\ MirrorOf(d) # c[1] /\ (MirrorOf(c[1]) = MirrorOf(d) => c[1] = d)
      BY <1>3, <2>1, <3>1
    <3>4. f = c[1] \/ f = MirrorOf(c[1])
      BY DEF MirrorOf
    <3> QED BY <1>3, <1>7, <2>1, <3>2, <3>3, <3>4
  <2>3. content[f][c[2]] = {stored[c]}
    BY <1>8 DEF Inv, MirrorInv
  <2> QED BY <1>7, <2>1, <2>2, <2>3
<1>9. /\ working[d] => content'[d][r] = {w}
      /\ req'[t].pc > 2 /\ working[p] => content'[p][r] = {w}
  BY <1>1, <1>3, <1>4, <1>5, <1>7
<1>10. \A u \in Threads : req'[u].pc # 0 => u = t
  BY <1>3, <1>5
<1>11. req'[t].pc \in Nat /\ \A u \in Threads : req'[u].pc > 0 => req'[u].pc # 0
  BY <1>1, <1>5
<1> QED BY <1>4, <1>5, <1>6, <1>8, <1>9, <1>10, <1>11 DEF MirrorInv

(* The acknowledgement of a write to both copies. *)
LEMMA MirrorSave ==
    ASSUME Inv, NEW t \in Threads, Save(t), raid_type = 1
    PROVE  MirrorInv'
<1>1. req[t].pc = 3 /\ req[t].pc # 0
  BY StepOrder DEF Save, Inv, LastStep
<1>2. PICK d \in Disks, r \in Row, p \in Disks, w \in Writes, b \in Content :
         /\ d = req[t].disk /\ r = req[t].row /\ p = Parity(t)
         /\ w = req[t].w /\ b = req[t].buf
  BY <1>1, WriteFields
<1>3. p = N - d - 1 /\ \A u \in Threads \ {t} : req[u].pc = 0
  BY <1>1, <1>2, InWrite, MirrorLayout DEF Parity, MirrorOf
<1>4. /\ UNCHANGED <<raid_type, working, content>>
      /\ \A u \in Threads : req'[u].pc = 0
      /\ stored' = [stored EXCEPT ![<<d, r>>] = w]
      /\ stored \in [Blocks -> Writes \cup {None}]
  BY <1>2, <1>3, IdleType DEF Inv, TypeInv, TypeOK, Save
<1>5. (working[d] => content[d][r] = {w}) /\ (working[p] => content[p][r] = {w})
  BY <1>1, <1>2 DEF Inv, MirrorInv
<1>6. ASSUME NEW c \in Blocks, stored'[c] # None,
             NEW f \in {c[1], N - c[1] - 1}, working[f]
      PROVE  content[f][c[2]] = {stored'[c]}
  <2>1. CASE c = <<d, r>>
    BY <1>3, <1>4, <1>5, <1>6, <2>1
  <2>2. CASE c # <<d, r>>
    <3>1. stored'[c] = stored[c]
      BY <1>4, <2>2
    <3> QED BY <1>6, <3>1 DEF Inv, MirrorInv
  <2> QED BY <2>1, <2>2
<1>7. \A u \in Threads : ~(req'[u].pc > 1) /\ ~(req'[u].pc > 2)
  BY <1>4
<1> QED BY <1>4, <1>6, <1>7 DEF MirrorInv

(* A restart with the two copies. *)
LEMMA MirrorMount ==
    ASSUME Inv, Mount, raid_type = 1
    PROVE  MirrorInv'
<1> USE DEF Inv
<1>1. UNCHANGED <<raid_type, stored, req>> /\ ~mounted
  BY DEF Mount
<1>2. \A u \in Threads : req[u].pc = 0 /\ ~(req[u].pc > 1) /\ ~(req[u].pc > 2)
  <2>1. \A u \in Threads : req[u].pc = 0
    BY <1>1 DEF WriteInProgress
  <2> QED BY <2>1
<1>3. CASE rec.phase # "done"
  <2>1. UNCHANGED <<working, content>>
    BY <1>3 DEF Mount
  <2> QED BY <1>1, <1>2, <2>1 DEF MirrorInv
<1>4. CASE rec.phase = "done"
  <2> DEFINE x == rec.disk
  <2>1. /\ x \in Disks /\ x \in OutOfService /\ rec.row = Rows
        /\ content \in [Disks -> [Row -> Content]]
    BY <1>4 DEF TypeInv, TypeOK, Recovery, OutOfService, RecoveryInv
  <2>2. \A e \in Disks \ {x} : working[e]
    BY <2>1, OthersWork
  <2>3. content' = [content EXCEPT ![x] = rec.new]
    BY <1>4 DEF Mount
  <2>4. \A q \in Row : N - 1 - x = x \/ rec.new[q] = content[N - 1 - x][q]
    BY <1>4, <2>1, RedundancyAssumption DEF RecoveryInv, Replacement
  <2>5. ASSUME NEW c \in Blocks, stored[c] # None, NEW f \in {c[1], N - c[1] - 1}
        PROVE  content'[f][c[2]] = {stored[c]}
    <3>1. c[1] \in Disks /\ c[2] \in Row /\ IsData(1, c[1], c[2])
      BY <2>5, MirrorLayout
    <3>2. MirrorOf(c[1]) # c[1] /\ MirrorOf(c[1]) \in Disks
      BY <3>1, MirrorLayout
    <3>3. f \in Disks /\ N - 1 - f \in {c[1], N - c[1] - 1} /\ N - 1 - f # f
          /\ N - 1 - f \in Disks
      BY <3>1, <3>2, DisksAssumption DEF MirrorOf
    <3>4. \A g \in {c[1], N - c[1] - 1} : working[g] => content[g][c[2]] = {stored[c]}
      BY <2>5 DEF MirrorInv
    <3>5. CASE f = x
      <4>1. content[N - 1 - x][c[2]] = {stored[c]}
        BY <2>2, <3>3, <3>4, <3>5
      <4> QED BY <2>1, <2>3, <2>4, <3>1, <3>3, <3>5, <4>1
    <3>6. CASE f # x
      BY <2>1, <2>2, <2>3, <3>3, <3>4, <3>6
    <3> QED BY <3>5, <3>6
  <2> QED BY <1>1, <1>2, <2>5 DEF MirrorInv
<1> QED BY <1>3, <1>4

(* Every step keeps the copies of RAID 1. *)
LEMMA MirrorInvNext ==
    ASSUME OneFault, Inv, TypeInv', [Next]_vars
    PROVE  MirrorInv'
<1> SUFFICES ASSUME raid_type = 1 PROVE MirrorInv'
  BY SameType DEF MirrorInv
<1>1. CASE \/ \E d \in Disks : RecoverStart(d)
           \/ RecoverRow \/ RecoverEnd \/ RecoverAbort
           \/ Unmount \/ UNCHANGED vars
           \/ \E d \in Disks : Break(d) \/ \E status \in {0, 1} : Command(d, status)
           \/ \E d \in Disks, r \in Row : Read(d, r)
  <2>1. /\ UNCHANGED <<raid_type, content, stored, blind, torn, req>>
        /\ \A e \in Disks : working'[e] => working[e]
    BY <1>1, NothingWritten DEF Inv
  <2>2. \A t \in Threads : Parity(t)' = Parity(t) /\ req[t].disk \in Disks
                           /\ Parity(t) \in Disks
    BY <2>1, StepDisks DEF Parity, Inv, TypeInv
  <2>3. \A c \in Blocks : stored[c] # None => c[1] \in Disks /\ N - c[1] - 1 \in Disks
    BY MirrorLayout DEF MirrorOf
  <2> QED BY <2>1, <2>2, <2>3 DEF MirrorInv, Inv
<1>2. ASSUME NEW t \in Threads, NEW d \in Disks, NEW r \in Row, WriteStart(t, d, r)
      PROVE  MirrorInv'
  <2>1. /\ UNCHANGED <<raid_type, working, content, stored>>
        /\ \A u \in Threads : req'[u].pc \in {0, 1}
        /\ \A u \in Threads : req'[u].pc # 0 => req'[u].buf = {req'[u].w}
    BY <1>2 DEF WriteStart, OneFault, Quiet, Inv, TypeInv, TypeOK
  <2>2. \A u \in Threads : ~(req'[u].pc > 1) /\ ~(req'[u].pc > 2)
    BY <2>1
  <2> QED BY <2>1, <2>2 DEF MirrorInv, Inv
<1>3. ASSUME NEW t \in Threads, ReadOld(t) \/ ReadParity(t) PROVE FALSE
  BY <1>3, StepOrder DEF ReadOld, ReadParity, Inv
<1>4. CASE Crash
  <2>1. UNCHANGED <<raid_type, working, content, stored>>
        /\ \A u \in Threads : req'[u].pc = 0
    BY <1>4, IdleType DEF Crash
  <2>2. \A u \in Threads : ~(req'[u].pc > 1) /\ ~(req'[u].pc > 2)
    BY <2>1
  <2> QED BY <2>1, <2>2 DEF MirrorInv, Inv
<1>5. ASSUME NEW d \in Disks, NEW r \in Row, Remove(d, r) PROVE MirrorInv'
  <2>1. /\ UNCHANGED <<raid_type, working, content, req>>
        /\ \A c \in Blocks : stored'[c] # None => stored'[c] = stored[c]
    BY <1>5 DEF Remove, Inv, TypeInv, TypeOK
  <2>2. \A t \in Threads : Parity(t)' = Parity(t)
    BY <2>1 DEF Parity
  <2> QED BY <2>1, <2>2 DEF MirrorInv, Inv
<1> QED BY <1>1, <1>2, <1>3, <1>4, <1>5, MirrorMount, MirrorWrite, MirrorSave
        DEF Next, Write

-----------------------------------------------------------------------------
(* The invariant, and what it says of decode(). *)

LEMMA InvInit == ASSUME Init PROVE Inv
<1>1. TypeInv /\ \A t \in Threads : req[t].pc = 0
  BY TypeInit, IdleType DEF Init
<1>2. WriteInProgress
  BY <1>1 DEF Init, WriteInProgress
<1>3. OneDiskOut
  <2>1. OutOfService = {}
    BY IdleType DEF Init, OutOfService
  <2>2. 0 \in Disks
    BY DisksAssumption
  <2> QED BY <2>1, <2>2 DEF Init, OneDiskOut
<1>4. RecoveryInv
  BY IdleType DEF Init, RecoveryInv
<1>5. ParityInv
  <2>1. PICK V \in [Disks -> Content] : \A e \in Disks : V[e] = {}
    <3>1. [e \in Disks |-> {}] \in [Disks -> Content]
      BY DEF Content
    <3> QED BY <3>1
  <2>2. XorOver(Disks, V) = {} /\ {} \in Content
    BY <2>1, XorFresh DEF Content
  <2>3. ASSUME NEW r \in Row PROVE RowIs(r, V, {})
    BY <1>1, <2>1, <2>2 DEF Init, RowIs, Blocks
  <2> QED BY <2>2, <2>3 DEF ParityInv
<1>6. MirrorInv
  <2>1. \A t \in Threads : ~(req[t].pc > 1) /\ ~(req[t].pc > 2)
    BY <1>1
  <2> QED BY <1>1, <2>1 DEF Init, MirrorInv
<1> QED BY <1>1, <1>2, <1>3, <1>4, <1>5, <1>6 DEF Inv

(* Every step keeps the invariant. *)
LEMMA InvNext ==
    ASSUME OneFault, Inv, [Next]_vars
    PROVE  Inv'
<1>1. TypeInv'
  BY TypeNext DEF Inv
<1>2. OneDiskOut'
  BY OneDiskOutNext DEF Inv
<1>3. WriteInProgress'
  BY WriteInProgressNext
<1>4. RecoveryInv'
  BY <1>3, RecoveryInvNext
<1>5. ParityInv' /\ MirrorInv'
  BY <1>1, ParityInvNext, MirrorInvNext
<1> QED BY <1>1, <1>2, <1>3, <1>4, <1>5 DEF Inv

(* The block of an intact file, on any disk that answers and from the      *)
(* others if its own does not.                                             *)
LEMMA IntactBlock ==
    ASSUME Inv, NEW b \in Live, Intact(b)
    PROVE  /\ working[b[1]] => content[b[1]][b[2]] = {stored[b]}
           /\ (\A y \in Disks \ {b[1]} : working[y]) =>
                 \A a \in Decode(raid_type, Only(b[1]), b[1], b[2]) :
                    a = [ok |-> TRUE, value |-> {stored[b]}]
<1> USE DEF Inv
<1>1. PICK d \in Disks, r \in Row :
         b = <<d, r>> /\ d = b[1] /\ r = b[2] /\ stored[b] # None /\ ~InFlight(r)
         /\ b \notin blind /\ r \notin torn /\ b \in Blocks
  BY DEF Live, Blocks, Intact
<1>2. CASE raid_type # 1
  <2>1. PICK V \in [Disks -> Content], delta \in Content : RowIs(r, V, delta)
    BY <1>1, <1>2 DEF ParityInv
  <2>2. V[d] = {stored[b]}
    BY <1>1, <2>1 DEF RowIs
  <2>3. \A e \in Disks : working[e] => content[e][r] = V[e]
    <3>1. \A t \in Threads, e \in Disks : DataOnly(t) => Block(t) # <<e, r>>
      BY <1>1 DEF InFlight, DataOnly, Block
    <3> QED BY <2>1, <3>1 DEF RowIs
  <2>4. ASSUME \A y \in Disks \ {d} : working[y],
               NEW a \in Decode(raid_type, Only(d), d, r)
        PROVE  a = [ok |-> TRUE, value |-> {stored[b]}]
    <3> DEFINE row == [e \in Disks |-> content[e][r]]
    <3>1. a = [ok |-> TRUE, value |-> XorOver(Disks \ {d}, row)]
      BY <1>2, <2>4, DecodeLost
    <3>2. XorOver(Disks \ {d}, row) = XorOver(Disks \ {d}, V)
      <4>1. \A e \in Disks \ {d} : row[e] = V[e]
        BY <2>3, <2>4
      <4> HIDE DEF row, Disks
      <4> QED BY <4>1, XorSame
    <3>3. IsFiniteSet(Disks) /\ XorOver(Disks, V) = {}
      BY <2>1, FiniteDisks DEF RowIs
    <3>4. XorOver(Disks \ {d}, V) = Xor({}, V[d])
      <4> HIDE DEF Disks
      <4> QED BY <3>3, XorRemove
    <3> QED BY <2>2, <3>1, <3>2, <3>4, XorAlgebra
  <2> QED BY <1>1, <2>2, <2>3, <2>4
<1>3. CASE raid_type = 1
  <2>1. \A e \in {d, N - d - 1} : working[e] => content[e][r] = {stored[b]}
    BY <1>1, <1>3 DEF MirrorInv
  <2>2. N - 1 - d # d /\ N - 1 - d \in Disks /\ N - 1 - d = N - d - 1
    <3>1. IsData(1, d, r)
      BY <1>1, <1>3 DEF WriteInProgress
    <3>2. MirrorOf(d) # d /\ MirrorOf(d) \in Disks
      BY <1>3, <3>1, MirrorLayout
    <3> QED BY <3>2, DisksAssumption DEF MirrorOf
  <2>3. ASSUME \A y \in Disks \ {d} : working[y],
               NEW a \in Decode(raid_type, Only(d), d, r)
        PROVE  a = [ok |-> TRUE, value |-> {stored[b]}]
    <3>1. a = [ok |-> TRUE, value |-> content[N - 1 - d][r]]
      BY <1>3, <2>2, <2>3, DecodeMirror
    <3> QED BY <2>1, <2>2, <2>3, <3>1
  <2> QED BY <1>1, <2>1, <2>3
<1> QED BY <1>2, <1>3

(* The invariant: each block can be had back without any one disk ... *)
LEMMA InvTolerated == ASSUME Inv PROVE OneFailureTolerated
<1> SUFFICES ASSUME NEW b \in Live, Intact(b), NEW x \in Disks,
                    \A y \in Disks \ {x} : working[y],
                    NEW a \in Decode(raid_type, Only(x), b[1], b[2])
             PROVE  a = [ok |-> TRUE, value |-> {stored[b]}]
  BY DEF OneFailureTolerated, Survives
<1>1. b[1] \in Disks
  BY DEF Live, Blocks
<1>2. CASE x = b[1]
  BY <1>2, IntactBlock
<1>3. CASE x # b[1]
  <2>1. Only(x)[b[1]] = 0 /\ working[b[1]]
    BY <1>1, <1>3 DEF Only
  <2>2. a = [ok |-> TRUE, value |-> content[b[1]][b[2]]]
    BY <1>1, <2>1, DecodeWorking
  <2> QED BY <2>1, <2>2, IntactBlock
<1> QED BY <1>2, <1>3

(* ... and is what a read returns. *)
LEMMA InvReadsBack == ASSUME Inv PROVE ReadsBack
<1> SUFFICES ASSUME mounted, NEW b \in Live, Intact(b),
                    NEW a \in Decode(raid_type, disk_status, b[1], b[2]), a.ok
             PROVE  a.value = {stored[b]}
  BY DEF ReadsBack
<1>1. b[1] \in Disks /\ disk_status \in [Disks -> {0, 1}]
  BY DEF Live, Blocks, Inv, TypeInv, TypeOK
<1>2. CASE disk_status[b[1]] = 0
  <2>1. working[b[1]]
    BY <1>2 DEF Decode
  <2>2. a = [ok |-> TRUE, value |-> content[b[1]][b[2]]]
    BY <1>1, <1>2, <2>1, DecodeWorking
  <2> QED BY <2>1, <2>2, IntactBlock
<1>3. CASE disk_status[b[1]] = 1
  <2>1. b[1] \in OutOfService
    BY <1>1, <1>3 DEF OutOfService
  <2>2. \A y \in Disks \ {b[1]} : working[y] /\ disk_status[y] = 0
    BY <1>1, <2>1, OthersWork DEF Inv
  <2>3. disk_status = Only(b[1])
    BY <1>1, <1>3, <2>2 DEF Only
  <2>4. a = [ok |-> TRUE, value |-> {stored[b]}]
    BY <2>2, <2>3, IntactBlock
  <2> QED BY <2>4
<1> QED BY <1>1, <1>2, <1>3

(* Any one disk may be lost: decode() gives back the last acknowledged     *)
(* write of every block, but for those sent to a disk that had failed      *)
(* unnoticed and the rows a crash of encode() tore, whatever requests,     *)
(* failures, crashes, commands and runs of the recovery tool came before.  *)
THEOREM OneFailureToleratedHolds ==
    ASSUME OneFault PROVE Spec => []OneFailureTolerated
<1>1. Inv /\ [Next]_vars => Inv'
  BY InvNext
<1>2. Inv => OneFailureTolerated
  BY InvTolerated
<1> QED BY <1>1, <1>2, InvInit, PTL DEF Spec

(* Reads never lie: decode(), given the status NCFS has at that moment,    *)
(* returns the last acknowledged write or an error.                        *)
THEOREM ReadsBackHolds ==
    ASSUME OneFault PROVE Spec => []ReadsBack
<1>1. Inv /\ [Next]_vars => Inv'
  BY InvNext
<1>2. Inv => ReadsBack
  BY InvReadsBack
<1> QED BY <1>1, <1>2, InvInit, PTL DEF Spec
=============================================================================
