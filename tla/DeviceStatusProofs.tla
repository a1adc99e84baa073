------------------------- MODULE DeviceStatusProofs --------------------------
(***************************************************************************)
(* The mode NCFS serves requests in agrees with the disks it has marked    *)
(* failed, when calls of set_device_status() do not overlap.               *)
(***************************************************************************)
EXTENDS DeviceStatus, FiniteSetTheorems, TLAPS

(* What get_operation_mode() leaves undefined does not happen: two failed  *)
(* disks with a type for which it assigns no mode then.                    *)
ModeDefined ==
    \A rt \in RaidTypes \ ({6, RegeneratingMBR} \cup ReedSolomon) : MaxFailed[rt] <= 1

(* The two data disks that get_operation_mode() takes Reed-Solomon to have *)
(* are those of the configuration, or fewer disks fail than it could tell. *)
CodeAsConfigured ==
    \A rt \in RaidTypes \cap ReedSolomon : K = 2 \/ MaxFailed[rt] <= N - K

(* Types 61 to 64 have no degraded mode. *)
DegradedModeExists ==
    /\ \A rt \in RaidTypes \cap {61, 62, 63, 64} : MaxFailed[rt] = 0
    /\ \A rt \in RaidTypes \cap ReedSolomon : K >= 2 \/ MaxFailed[rt] <= N - 2

OutOfService == Failed(disk_status) \cup {e \in Disks : ~working[e]}

(* The mode is, or is about to be, the one for the status array. *)
ModeUpToDate ==
    /\ Settled => operation_mode \in get_operation_mode(raid_type, disk_status)
    /\ \A t \in Threads : setter[t].pc = "store" =>
          setter[t].mode \in get_operation_mode(raid_type, disk_status)

OneSetter ==
    \A t, u \in Threads : setter[t].pc # "idle" /\ setter[u].pc # "idle" => t = u

Inv ==
    /\ TypeOK
    /\ OneSetter
    /\ Cardinality(OutOfService) <= MaxFailed[raid_type]
    /\ ModeUpToDate

-----------------------------------------------------------------------------
(* Sets of disks are finite, with at most N members. *)
LEMMA FiniteDisks ==
    ASSUME NEW S \in SUBSET Disks
    PROVE  /\ IsFiniteSet(S)
           /\ Cardinality(S) \in 0 .. N
<1>1. IsFiniteSet(Disks) /\ Cardinality(Disks) = N /\ N \in Nat
  BY FS_Interval, DisksAssumption DEF Disks
<1> QED BY <1>1, FS_Subset, FS_CardinalityType

(* get_operation_mode() returns a mode. *)
LEMMA ModeTypes == \A rt, status : get_operation_mode(rt, status) \subseteq Mode
  BY DEF get_operation_mode, ModesFor, Mode

(* Types at the start ... *)
LEMMA TypeInit == Init => TypeOK
  BY ModeTypes DEF Init, TypeOK, Probe, Setter, Idle, Mode

(* ... after set_device_status() has written the status ... *)
LEMMA TypeSetStatus ==
    ASSUME TypeOK, NEW t \in Threads, NEW d \in Disks, NEW status \in {0, 1},
           SetStatus(t, d, status)
    PROVE  TypeOK'
  BY DEF TypeOK, SetStatus, Setter, Mode

(* ... and after every step. *)
LEMMA TypeNext == TypeOK /\ [Next]_vars => TypeOK'
<1> SUFFICES ASSUME TypeOK, [Next]_vars PROVE TypeOK'
  OBVIOUS
<1>1. CASE Restart
  BY <1>1, ModeTypes DEF TypeOK, Restart, Probe
<1>2. ASSUME NEW d \in Disks, Break(d) PROVE TypeOK'
  BY <1>2 DEF TypeOK, Break
<1>3. ASSUME NEW t \in Threads, NEW d \in Disks, IOError(t, d) PROVE TypeOK'
  BY <1>3, TypeSetStatus DEF IOError
<1>4. ASSUME NEW t \in Threads, NEW d \in Disks, NEW status \in {0, 1},
             Command(t, d, status)
      PROVE  TypeOK'
  BY <1>4, TypeSetStatus DEF Command
<1>5. ASSUME NEW t \in Threads, Count(t) PROVE TypeOK'
  BY <1>5, ModeTypes DEF TypeOK, Count, Setter
<1>6. ASSUME NEW t \in Threads, StoreMode(t) PROVE TypeOK'
  BY <1>6 DEF TypeOK, StoreMode, Setter, Idle, Mode
<1>7. CASE UNCHANGED vars
  BY <1>7 DEF TypeOK, vars
<1> QED BY <1>1, <1>2, <1>3, <1>4, <1>5, <1>6, <1>7 DEF Next

(* Every reachable state of disk_status and operation_mode is well formed, *)
(* also when calls of set_device_status() overlap.                         *)
THEOREM TypeCorrect == Spec => []TypeOK
  BY TypeInit, TypeNext, PTL DEF Spec

-----------------------------------------------------------------------------
(* What the probe at start-up marks failed. *)
LEMMA Probed ==
    ASSUME NEW w \in [Disks -> BOOLEAN]
    PROVE  Failed(Probe(w)) = {e \in Disks : ~w[e]}
  BY DEF Failed, Probe

(* The mode is right at the start ... *)
LEMMA InvInit == Init => Inv
<1> SUFFICES ASSUME Init PROVE Inv
  OBVIOUS
<1>1. TypeOK
  BY TypeInit
<1>2. OutOfService = {}
  BY DEF Init, OutOfService, Failed, Probe
<1>3. Cardinality(OutOfService) <= MaxFailed[raid_type]
  BY <1>1, <1>2, FS_EmptySet, StatusAssumption DEF StatusAssumption, TypeOK
<1>4. OneSetter /\ ModeUpToDate
  BY DEF Init, OneSetter, ModeUpToDate, Idle
<1> QED BY <1>1, <1>3, <1>4 DEF Inv

(* set_device_status() begins: the status changes, the mode is stale. *)
LEMMA InvSetStatus ==
    ASSUME Serial, Inv, NEW t \in Threads, NEW d \in Disks, NEW status \in {0, 1},
           SetStatus(t, d, status),
           Cardinality(OutOfService') <= MaxFailed[raid_type]
    PROVE  Inv'
<1>1. TypeOK'
  BY TypeSetStatus DEF Inv
<1>2. \A u \in Threads : setter[u].pc = "idle"
  BY DEF SetStatus, Settled
<1>3. \A u \in Threads \ {t} : setter'[u] = setter[u]
  BY DEF SetStatus, Inv, TypeOK
<1>4. setter'[t].pc = "count"
  BY DEF SetStatus, Inv, TypeOK, Setter
<1>5. OneSetter' /\ ModeUpToDate'
  BY <1>2, <1>3, <1>4 DEF OneSetter, ModeUpToDate, Settled
<1>6. raid_type' = raid_type
  BY DEF SetStatus
<1> QED BY <1>1, <1>5, <1>6 DEF Inv

(* ... and stays right, with one setter at a time. *)
LEMMA InvNext == ASSUME Serial, Inv, [Next]_vars PROVE Inv'
<1>0. TypeOK /\ TypeOK'
  BY TypeNext DEF Inv
<1>1. CASE Restart
  <2>1. PICK w \in {working, [d \in Disks |-> TRUE]} :
            working' = w /\ disk_status' = Probe(w)
    BY <1>1 DEF Restart
  <2>2. w \in [Disks -> BOOLEAN] /\ OutOfService' = {e \in Disks : ~w[e]}
    BY <1>0, <2>1, Probed DEF OutOfService, TypeOK
  <2>3. OutOfService' \subseteq OutOfService /\ OutOfService \subseteq Disks
    BY <2>1, <2>2 DEF OutOfService, Failed
  <2>4. Cardinality(OutOfService') <= Cardinality(OutOfService)
    BY <2>3, FiniteDisks, FS_Subset
  <2>5. raid_type' = raid_type /\ setter' = setter /\ raid_type \in RaidTypes
    BY <1>0, <1>1 DEF Restart, TypeOK
  <2>6. Cardinality(OutOfService') <= MaxFailed[raid_type]
    <3>1. /\ Cardinality(OutOfService) \in Nat /\ Cardinality(OutOfService') \in Nat
          /\ MaxFailed[raid_type] \in Nat
      BY <2>3, <2>5, FiniteDisks, StatusAssumption DEF StatusAssumption
    <3> QED BY <2>4, <3>1 DEF Inv
  <2>7. Settled /\ operation_mode' \in get_operation_mode(raid_type, disk_status')
    BY <1>1 DEF Restart
  <2>8. OneSetter' /\ ModeUpToDate'
    BY <2>5, <2>7 DEF OneSetter, ModeUpToDate, Settled
  <2> QED BY <1>0, <2>5, <2>6, <2>8 DEF Inv
<1>2. ASSUME NEW d \in Disks, Break(d) PROVE Inv'
  <2>1. OutOfService' = Failed(disk_status) \cup {e \in Disks : ~working[e]} \cup {d}
    BY <1>0, <1>2 DEF Break, OutOfService, TypeOK
  <2>2. Cardinality(OutOfService') <= MaxFailed[raid_type]
    BY <1>2, <2>1 DEF Break, MayFail
  <2>3. OneSetter' /\ ModeUpToDate' /\ raid_type' = raid_type
    BY <1>2 DEF Break, Inv, OneSetter, ModeUpToDate, Settled
  <2> QED BY <1>0, <2>2, <2>3 DEF Inv
<1>3. ASSUME NEW t \in Threads, NEW d \in Disks, IOError(t, d) PROVE Inv'
  <2>1. OutOfService' = OutOfService
    BY <1>0, <1>3 DEF IOError, SetStatus, OutOfService, Failed, TypeOK
  <2> QED BY <1>3, <2>1, InvSetStatus DEF IOError, Inv
<1>4. ASSUME NEW t \in Threads, NEW d \in Disks, NEW status \in {0, 1},
             Command(t, d, status)
      PROVE  Inv'
  <2>1. CASE status = 0
    <3>1. OutOfService' \subseteq OutOfService /\ OutOfService \subseteq Disks
      BY <1>0, <1>4, <2>1 DEF Command, SetStatus, OutOfService, Failed, TypeOK
    <3>2. Cardinality(OutOfService') <= Cardinality(OutOfService)
      BY <3>1, FiniteDisks, FS_Subset
    <3>3. /\ Cardinality(OutOfService) \in Nat /\ Cardinality(OutOfService') \in Nat
          /\ MaxFailed[raid_type] \in Nat
      BY <1>0, <3>1, FiniteDisks, StatusAssumption DEF StatusAssumption, TypeOK
    <3>4. Cardinality(OutOfService') <= MaxFailed[raid_type]
      BY <3>2, <3>3 DEF Inv
    <3> QED BY <1>4, <3>4, InvSetStatus DEF Command
  <2>2. CASE status = 1
    <3>1. OutOfService' = Failed(disk_status) \cup {e \in Disks : ~working[e]} \cup {d}
      BY <1>0, <1>4, <2>2 DEF Command, SetStatus, OutOfService, Failed, TypeOK
    <3>2. Cardinality(OutOfService') <= MaxFailed[raid_type]
      BY <1>4, <2>2, <3>1 DEF Command, MayFail
    <3> QED BY <1>4, <3>2, InvSetStatus DEF Command
  <2> QED BY <2>1, <2>2
<1>5. ASSUME NEW t \in Threads, Count(t) PROVE Inv'
  <2>1. \A u \in Threads \ {t} : setter'[u] = setter[u]
    BY <1>0, <1>5 DEF Count, TypeOK
  <2>2. /\ setter'[t].pc = "store" /\ setter[t].pc = "count"
        /\ setter'[t].mode \in get_operation_mode(raid_type, disk_status)
    BY <1>0, <1>5 DEF Count, TypeOK
  <2>3. UNCHANGED <<raid_type, working, disk_status, operation_mode>>
    BY <1>5 DEF Count
  <2>4. OneSetter'
    BY <2>1, <2>2 DEF Inv, OneSetter
  <2>5. ModeUpToDate'
    BY <2>1, <2>2, <2>3 DEF Inv, ModeUpToDate, Settled
  <2>6. OutOfService' = OutOfService
    BY <2>3 DEF OutOfService
  <2> QED BY <1>0, <2>3, <2>4, <2>5, <2>6 DEF Inv
<1>6. ASSUME NEW t \in Threads, StoreMode(t) PROVE Inv'
  <2>1. \A u \in Threads \ {t} : setter'[u] = setter[u]
    BY <1>0, <1>6 DEF StoreMode, TypeOK
  <2>2. /\ setter'[t].pc = "idle" /\ setter[t].pc = "store"
        /\ operation_mode' = setter[t].mode
    BY <1>0, <1>6 DEF StoreMode, TypeOK, Idle
  <2>3. UNCHANGED <<raid_type, working, disk_status>>
    BY <1>6 DEF StoreMode
  <2>4. OneSetter'
    BY <2>1, <2>2 DEF Inv, OneSetter
  <2>5. ModeUpToDate'
    BY <2>1, <2>2, <2>3 DEF Inv, ModeUpToDate, Settled
  <2>6. OutOfService' = OutOfService
    BY <2>3 DEF OutOfService
  <2> QED BY <1>0, <2>3, <2>4, <2>5, <2>6 DEF Inv
<1>7. CASE UNCHANGED vars
  BY <1>0, <1>7 DEF vars, Inv, OneSetter, ModeUpToDate, Settled, OutOfService
<1> QED BY <1>1, <1>2, <1>3, <1>4, <1>5, <1>6, <1>7 DEF Next

(* The invariant. *)
LEMMA InvHolds == ASSUME Serial PROVE Spec => []Inv
<1>1. Inv /\ [Next]_vars => Inv'
  BY InvNext
<1> QED BY <1>1, InvInit, PTL DEF Spec

-----------------------------------------------------------------------------
(* What is known of the failed disks when no call is under way. *)
LEMMA SettledFacts ==
    ASSUME Inv, Settled
    PROVE  LET n == Cardinality(Failed(disk_status))
           IN  /\ n \in 0 .. MaxFailed[raid_type]
               /\ MaxFailed[raid_type] \in 0 .. N
               /\ n = 0 <=> Failed(disk_status) = {}
               /\ raid_type \in RaidTypes
               /\ operation_mode \in ModesFor(raid_type, n)
<1>1. Failed(disk_status) \subseteq OutOfService /\ OutOfService \subseteq Disks
  BY DEF OutOfService, Failed
<1>2. /\ Cardinality(Failed(disk_status)) \in Nat /\ Cardinality(OutOfService) \in Nat
      /\ IsFiniteSet(Failed(disk_status))
      /\ Cardinality(Failed(disk_status)) <= Cardinality(OutOfService)
  BY <1>1, FiniteDisks, FS_Subset
<1>3. raid_type \in RaidTypes /\ MaxFailed[raid_type] \in 0 .. N
  BY StatusAssumption DEF Inv, TypeOK, StatusAssumption
<1>4. operation_mode \in ModesFor(raid_type, Cardinality(Failed(disk_status)))
  BY DEF Inv, ModeUpToDate, get_operation_mode
<1> QED BY <1>2, <1>3, <1>4, FS_EmptySet, DisksAssumption DEF Inv

(* Writes are admitted exactly while no disk is marked failed, once the    *)
(* calls of set_device_status() have returned.                             *)
THEOREM WritesOnlyWhenHealthyHolds ==
    ASSUME Serial, ModeDefined PROVE Spec => []WritesOnlyWhenHealthy
<1>1. ASSUME Inv PROVE WritesOnlyWhenHealthy
  <2> SUFFICES ASSUME Settled
               PROVE  MayWrite(operation_mode) <=> Failed(disk_status) = {}
    BY DEF WritesOnlyWhenHealthy
  <2> DEFINE n == Cardinality(Failed(disk_status))
  <2>1. /\ n \in 0 .. MaxFailed[raid_type] /\ MaxFailed[raid_type] \in 0 .. N
        /\ n = 0 <=> Failed(disk_status) = {}
        /\ raid_type \in RaidTypes /\ operation_mode \in ModesFor(raid_type, n)
    BY <1>1, SettledFacts
  <2>2. raid_type \notin {6, RegeneratingMBR} \cup ReedSolomon => n <= 1
    BY <2>1, DisksAssumption DEF ModeDefined
  <2> HIDE DEF n
  <2>3. MayWrite(operation_mode) <=> n = 0
    BY <2>1, <2>2, DisksAssumption DEF MayWrite, ModesFor, ReedSolomon, RegeneratingMBR
  <2> QED BY <2>1, <2>3
<1> QED BY <1>1, InvHolds, PTL

(* With one disk failed, the mirror of it is not. *)
LEMMA OneOfMirror ==
    ASSUME NEW S \in SUBSET Disks, Cardinality(S) = 1
    PROVE  \A d \in S : N - 1 - d \notin S \ {d}
  BY FS_Singleton, FiniteDisks

(* In degraded mode decode() has a branch for the disks marked failed. *)
THEOREM DegradedIsReadableHolds ==
    ASSUME Serial, ModeDefined, CodeAsConfigured
    PROVE  Spec => []DegradedIsReadable
<1>1. ASSUME Inv PROVE DegradedIsReadable
  <2> SUFFICES ASSUME Settled, operation_mode = 1
               PROVE  Tolerates(raid_type, Failed(disk_status))
    BY DEF DegradedIsReadable
  <2> DEFINE n == Cardinality(Failed(disk_status))
  <2>1. /\ n \in 0 .. MaxFailed[raid_type] /\ MaxFailed[raid_type] \in 0 .. N
        /\ n = 0 <=> Failed(disk_status) = {}
        /\ raid_type \in RaidTypes /\ operation_mode \in ModesFor(raid_type, n)
    BY <1>1, SettledFacts
  <2>2. raid_type \notin {6, RegeneratingMBR} \cup ReedSolomon => n <= 1
    BY <2>1, DisksAssumption DEF ModeDefined
  <2>3. raid_type \in ReedSolomon => K = 2 \/ n <= N - K
    BY <2>1, DisksAssumption DEF CodeAsConfigured
  <2>4. Failed(disk_status) \subseteq Disks
    BY DEF Failed
  <2>5. n = 1 => \A d \in Failed(disk_status) : N - 1 - d \notin Failed(disk_status) \ {d}
    BY <2>4, OneOfMirror
  <2>6. n # 0
    BY <2>1 DEF ModesFor
  <2>7. CASE raid_type = 1
    BY <2>1, <2>2, <2>5, <2>6, <2>7 DEF Tolerates, ReedSolomon, RegeneratingMBR
  <2>8. CASE raid_type # 1
    <3> HIDE DEF n
    <3>1. /\ raid_type \in {4, 5, 6, RegeneratingMBR} \cup ReedSolomon
          /\ raid_type \in {4, 5} => n <= 1
          /\ raid_type = 6 => n <= 2
          /\ raid_type \in ReedSolomon \cup {RegeneratingMBR} => n <= N - K
      BY <2>1, <2>2, <2>3, <2>6, <2>8, DisksAssumption
         DEF ModesFor, ReedSolomon, RegeneratingMBR, data_disk_num
    <3> QED BY <3>1 DEF Tolerates, ReedSolomon, RegeneratingMBR, n
  <2> QED BY <2>7, <2>8
<1> QED BY <1>1, InvHolds, PTL

(* Reads are refused only for failures decode() could not serve. *)
THEOREM IncapableOnlyBeyondCodeHolds ==
    ASSUME Serial, ModeDefined, DegradedModeExists
    PROVE  Spec => []IncapableOnlyBeyondCode
<1>1. ASSUME Inv PROVE IncapableOnlyBeyondCode
  <2> SUFFICES ASSUME Settled, operation_mode = 2
               PROVE  ~Tolerates(raid_type, Failed(disk_status))
    BY DEF IncapableOnlyBeyondCode, MayRead
  <2> DEFINE n == Cardinality(Failed(disk_status))
  <2>1. /\ n \in 0 .. MaxFailed[raid_type] /\ MaxFailed[raid_type] \in 0 .. N
        /\ n = 0 <=> Failed(disk_status) = {}
        /\ raid_type \in RaidTypes /\ operation_mode \in ModesFor(raid_type, n)
    BY <1>1, SettledFacts
  <2>2. raid_type \notin {6, RegeneratingMBR} \cup ReedSolomon => n <= 1
    BY <2>1, DisksAssumption DEF ModeDefined
  <2>3. /\ raid_type \in {61, 62, 63, 64} => n = 0
        /\ raid_type \in ReedSolomon => K >= 2 \/ n <= N - 2
    BY <2>1, DisksAssumption DEF DegradedModeExists
  <2>4. n # 0
    BY <2>1 DEF ModesFor
  <2> HIDE DEF n
  <2>5. /\ raid_type \notin {1, 4, 5, 61, 62, 63, 64}
        /\ raid_type = 6 => n > 2
        /\ raid_type \in ReedSolomon \cup {RegeneratingMBR} => n > N - K
    BY <2>1, <2>2, <2>3, <2>4, DisksAssumption
       DEF ModesFor, ReedSolomon, RegeneratingMBR, data_disk_num
  <2>6. n \in Nat /\ N \in Nat /\ K \in Nat /\ Failed(disk_status) # {}
    BY <2>1, <2>4, DisksAssumption
  <2> QED BY <2>5, <2>6 DEF Tolerates, ReedSolomon, RegeneratingMBR, n
<1> QED BY <1>1, InvHolds, PTL
=============================================================================
