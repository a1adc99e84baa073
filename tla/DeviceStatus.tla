---------------------------- MODULE DeviceStatus ----------------------------
(***************************************************************************)
(* How disk_status and operation_mode are kept up to date.                 *)
(*                                                                         *)
(* main() probes every device once; from then on set_device_status() is    *)
(* called by whichever FUSE worker meets an I/O error, and by the report   *)
(* thread for the operator's command "set <disk> <status>".  It writes     *)
(* disk_status, counts the failed disks again and stores the mode, with no *)
(* lock around the three.                                                  *)
(***************************************************************************)
EXTENDS OperationMode

CONSTANTS
    RaidTypes,   \* the RaidType values the configuration may hold
    Threads,     \* FUSE workers and the report thread
    Serial,      \* TRUE: calls of set_device_status() do not overlap
    MaxFailed    \* bound, by type: disks out of service at the same time

ASSUME StatusAssumption ==
    /\ RaidTypes \subseteq {0, 1, 4, 5, 6, 13, 61, 62, 63, 64, 100, 130, 1000}
    /\ Serial \in BOOLEAN
    /\ MaxFailed \in [RaidTypes -> 0 .. N]

VARIABLES
    raid_type,       \* NCFS_DATA->disk_raid_type
    working,         \* the devices that answer (the world outside)
    disk_status,     \* NCFS_DATA->disk_status
    operation_mode,  \* NCFS_DATA->operation_mode
    setter           \* the calls of set_device_status() under way

vars == <<raid_type, working, disk_status, operation_mode, setter>>

Idle == [pc |-> "idle", mode |-> 0]
Setter == [pc : {"idle", "count", "store"}, mode : Mode]

TypeOK ==
    /\ raid_type \in RaidTypes
    /\ working \in [Disks -> BOOLEAN]
    /\ disk_status \in [Disks -> {0, 1}]
    /\ operation_mode \in Mode
    /\ setter \in [Threads -> Setter]

Settled == \A t \in Threads : setter[t].pc = "idle"

Init ==
    /\ raid_type \in RaidTypes
    /\ working = [d \in Disks |-> TRUE]
    /\ disk_status = Probe(working)
    /\ operation_mode \in get_operation_mode(raid_type, disk_status)
    /\ setter = [t \in Threads |-> Idle]

(* The bound: disk d may go out of service too. *)
MayFail(d) ==
    Cardinality(Failed(disk_status) \cup {e \in Disks : ~working[e]} \cup {d})
        <= MaxFailed[raid_type]

(* A device stops answering; nobody is told. *)
Break(d) ==
    /\ working[d] /\ MayFail(d)
    /\ working' = [working EXCEPT ![d] = FALSE]
    /\ UNCHANGED <<raid_type, disk_status, operation_mode, setter>>

(***************************************************************************)
(* The first half of set_device_status(): return if the status is what it  *)
(* should be, else write it.                                               *)
(***************************************************************************)
SetStatus(t, d, status) ==
    /\ setter[t].pc = "idle"
    /\ Serial => Settled
    /\ disk_status[d] # status
    /\ disk_status' = [disk_status EXCEPT ![d] = status]
    /\ setter' = [setter EXCEPT ![t].pc = "count"]
    /\ UNCHANGED <<raid_type, working, operation_mode>>

(* DiskRead() or DiskWrite() on a device that does not answer. *)
IOError(t, d) == ~working[d] /\ SetStatus(t, d, 1)

(* The operator's "set d status"; a disk put back is one that answers. *)
Command(t, d, status) ==
    /\ IF status = 0 THEN working[d] ELSE MayFail(d)
    /\ SetStatus(t, d, status)

(* get_operation_mode() counts the failed disks ... *)
Count(t) ==
    /\ setter[t].pc = "count"
    /\ \E mode \in get_operation_mode(raid_type, disk_status) :
          setter' = [setter EXCEPT ![t] = [pc |-> "store", mode |-> mode]]
    /\ UNCHANGED <<raid_type, working, disk_status, operation_mode>>

(* ... and stores the mode. *)
KeepMode(t) == \* mutant: the mode is only ever raised
    /\ setter[t].pc = "store"
    /\ operation_mode' = IF setter[t].mode > operation_mode
                         THEN setter[t].mode ELSE operation_mode
    /\ setter' = [setter EXCEPT ![t] = Idle]
    /\ UNCHANGED <<raid_type, working, disk_status>>
StoreMode(t) ==
    /\ setter[t].pc = "store"
    /\ operation_mode' = setter[t].mode
    /\ setter' = [setter EXCEPT ![t] = Idle]
    /\ UNCHANGED <<raid_type, working, disk_status>>

(* The process ends and main() runs again, over repaired devices or not. *)
Restart ==
    /\ Settled
    /\ \E w \in {working, [d \in Disks |-> TRUE]} :
          /\ working' = w
          /\ disk_status' = Probe(w)
    /\ operation_mode' \in get_operation_mode(raid_type, disk_status')
    /\ UNCHANGED <<raid_type, setter>>

Next ==
    \/ Restart
    \/ \E d \in Disks : Break(d)
    \/ \E t \in Threads, d \in Disks :
          \/ IOError(t, d)
          \/ \E status \in {0, 1} : Command(t, d, status)
    \/ \E t \in Threads : Count(t) \/ StoreMode(t)

Spec == Init /\ [][Next]_vars

-----------------------------------------------------------------------------
(***************************************************************************)
(* The failures a coder's decode() has a branch for: mirror pairs under    *)
(* RAID 1, else a number of disks.                                         *)
(***************************************************************************)
Tolerates(rt, failed) ==
    CASE rt = 1 -> \A d \in failed : N - 1 - d \notin failed \ {d}
      [] rt \in {4, 5, 61, 63, 64} -> Cardinality(failed) <= 1
      [] rt \in {6, 62} -> Cardinality(failed) <= 2
      [] rt \in ReedSolomon \cup {RegeneratingMBR} ->
             Cardinality(failed) <= N - K
      [] OTHER -> failed = {}

(***************************************************************************)
(* Once the calls of set_device_status() have returned, the cached mode is *)
(* what the status array says: writes are admitted exactly while no disk   *)
(* is marked failed.  The hazard is a mode computed from an older count    *)
(* and stored last (filesystem_utils.cc:572-574).                          *)
(***************************************************************************)
WritesOnlyWhenHealthy ==
    Settled => (MayWrite(operation_mode) <=> Failed(disk_status) = {})

(***************************************************************************)
(* Degraded mode promises reads (doc/README.txt: "1 := degraded (read      *)
(* only)"): in mode 1 the coder's decode() can rebuild a failed disk.      *)
(***************************************************************************)
DegradedIsReadable ==
    Settled /\ operation_mode = 1 => Tolerates(raid_type, Failed(disk_status))

(***************************************************************************)
(* Reads are refused ("2 := incapable (cannot read and write)") only when  *)
(* decode() could not serve them.                                          *)
(***************************************************************************)
IncapableOnlyBeyondCode ==
    Settled /\ ~MayRead(operation_mode)
        => ~Tolerates(raid_type, Failed(disk_status))
=============================================================================
