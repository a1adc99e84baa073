---------------------------- MODULE OperationMode ----------------------------
(***************************************************************************)
(* The operation mode NCFS derives from the status of its disks: 0 normal, *)
(* 1 degraded (read only), 2 incapable.  ncfs_write refuses in modes 1 and *)
(* 2, ncfs_read in mode 2.                                                 *)
(***************************************************************************)
EXTENDS Integers, FiniteSets

CONSTANTS
    N,   \* disk_total_num
    K    \* data_disk_num, from the configuration

ASSUME DisksAssumption == N \in Nat /\ N >= 3 /\ K \in 1 .. N

Disks == 0 .. N - 1
Mode == 0 .. 2

RegeneratingMBR == 1000
ReedSolomon == {13, 130}

(* The disks a status array calls failed. *)
Failed(status) == {d \in Disks : status[d] # 0}

(* get_disk_status(): can the device be opened? *)
ProbeFd(w) == [d \in Disks |-> IF w[d] THEN 0 ELSE -1] \* mutant: the fd
Probe(w) == [d \in Disks |-> IF w[d] THEN 0 ELSE 1]

(***************************************************************************)
(* In get_operation_mode() the bare name data_disk_num is not the          *)
(* configured number but the enumerator of enum param_type, whose value is *)
(* 2: illegal_param = 0, disk_total_num = 1, data_disk_num = 2.            *)
(***************************************************************************)
data_disk_num == 2

(***************************************************************************)
(* The modes get_operation_mode() can compute for n failed disks.  With    *)
(* two failures and a type other than 6 it assigns none: the mode stored   *)
(* is an indeterminate int, and any int but 1 and 2 acts like 0.           *)
(***************************************************************************)
SingleFailureModes(rt, n) == \* mutant: no branch for two failures of RAID 6
    IF n = 0 THEN {0} ELSE IF n = 1 THEN {1} ELSE {2}
OneTooMany(rt, n) == \* mutant: off by one
    IF n = 0 THEN {0} ELSE IF n <= N - K + 1 THEN {1} ELSE {2}
ModesFor(rt, n) ==
    CASE n = 0 -> {0}
      [] n > 0 /\ rt = RegeneratingMBR -> IF n <= N - K THEN {1} ELSE {2}
      [] n > 0 /\ rt \in ReedSolomon ->
             IF n <= N - data_disk_num THEN {1} ELSE {2}
      [] n = 1 /\ rt \notin ReedSolomon \cup {RegeneratingMBR} ->
             IF rt \in {1, 4, 5, 6} THEN {1} ELSE {2}
      [] n = 2 /\ rt \notin ReedSolomon \cup {RegeneratingMBR} ->
             IF rt = 6 THEN {1} ELSE Mode
      [] OTHER -> {2}

get_operation_mode(rt, status) == ModesFor(rt, Cardinality(Failed(status)))

(* What the two request handlers admit. *)
MayWrite(mode) == mode \notin {1, 2}
MayRead(mode) == mode # 2
=============================================================================
