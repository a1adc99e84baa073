----------------------------- MODULE Redundancy -----------------------------
(***************************************************************************)
(* What RAID 1, 4 and 5 keep on the disks while requests, device failures, *)
(* process crashes and the recovery tool interleave.                       *)
(*                                                                         *)
(* Which free block encode() picks is the business of SpaceAlloc: here a   *)
(* write goes to any block that holds no live data (SpaceAlloc's           *)
(* NoSharedBlock), one disk access per step.                               *)
(***************************************************************************)
EXTENDS OperationMode, XorSets, Sequences

CONSTANTS
    Rows,        \* blocks of a disk
    RaidTypes,   \* subset of {1, 4, 5}
    MaxWrites,   \* bound: writes of a behaviour
    MaxBroken,   \* bound: devices broken at the same time
    Threads,     \* FUSE worker threads
    Serial,      \* TRUE: one request at a time (fuse option -s)
    Env          \* what may happen, see EnvEvents

(***************************************************************************)
(* "break": a device stops answering; "command": the operator's "set";     *)
(* "crash": a process is killed; "recover": the recovery tool; "busy": it  *)
(* starts while a write is still running in ncfs.                          *)
(***************************************************************************)
EnvEvents == {"break", "command", "crash", "recover", "busy"}

ASSUME RedundancyAssumption ==
    /\ Rows \in Nat \ {0}
    /\ RaidTypes \subseteq {1, 4, 5}
    /\ MaxWrites \in Nat /\ MaxBroken \in 0 .. N
    /\ Serial \in BOOLEAN
    /\ Env \subseteq EnvEvents

Row == 0 .. Rows - 1
Writes == 1 .. MaxWrites
Junk == 0                 \* what an uninitialised buffer holds, if not zeros
Content == SUBSET (Writes \cup {Junk})
Garbage == {{}, {Junk}}
None == 0                 \* a block without live data

VARIABLES
    raid_type,       \* NCFS_DATA->disk_raid_type
    working,         \* the devices that answer
    content,         \* what is on the devices
    mounted,         \* the ncfs process runs
    disk_status,     \* NCFS_DATA->disk_status of the ncfs process
    operation_mode,  \* NCFS_DATA->operation_mode
    stored,          \* block -> the acknowledged write its file refers to
    blind,           \* history: blocks whose last RMW read junk for old data
    torn,            \* history: rows a crash left with data but not parity
    written,         \* number of writes begun
    req,             \* the write each worker thread is executing
    rec              \* the process ./recover and the new device it fills

vars == <<raid_type, working, content, mounted, disk_status, operation_mode,
          stored, blind, torn, written, req, rec>>
statusVars == <<disk_status, operation_mode>>
history == <<blind, torn, written>>

Blocks == Disks \X Row
Idle == [pc |-> 0, disk |-> 0, row |-> 0, w |-> None, buf |-> {}]
Request == [pc : 0 .. 5, disk : Disks, row : Row,
            w : Writes \cup {None}, buf : Content]
NoRecovery == [phase |-> "none", disk |-> 0, row |-> 0,
               status |-> [d \in Disks |-> 0], new |-> [r \in Row |-> {}]]
Recovery == [phase : {"none", "run", "done"}, disk : Disks, row : 0 .. Rows,
             status : [Disks -> {0, 1}], new : [Row -> Content]]

TypeOK ==
    /\ raid_type \in RaidTypes
    /\ working \in [Disks -> BOOLEAN]
    /\ content \in [Disks -> [Row -> Content]]
    /\ mounted \in BOOLEAN
    /\ disk_status \in [Disks -> {0, 1}]
    /\ operation_mode \in Mode
    /\ stored \in [Blocks -> Writes \cup {None}]
    /\ blind \subseteq Blocks /\ torn \subseteq Row
    /\ written \in 0 .. MaxWrites
    /\ req \in [Threads -> Request]
    /\ rec \in Recovery

-----------------------------------------------------------------------------
(* Layout. *)

(* Where the redundancy of the data block on disk d in row r is kept. *)
RedundancyDisk(rt, d, r) ==
    CASE rt = 1 -> N - d - 1
      [] rt = 4 -> N - 1
      [] rt = 5 -> N - 1 - (r % N)

(* The blocks encode() hands out. *)
IsData(rt, d, r) ==
    CASE rt = 1 -> d < N \div 2
      [] rt = 4 -> d < N - 1
      [] rt = 5 -> d # N - 1 - (r % N)

(* The disk accesses of encode(), in order, and the save of the address. *)
Steps(rt) ==
    CASE rt = 1 -> <<"writeData", "writeParity", "save">>
      [] rt = 4 -> <<"readOld", "writeData", "readParity", "writeParity",
                     "save">>
      [] rt = 5 -> <<"readOld", "readParity", "writeData", "writeParity",
                     "save">>

-----------------------------------------------------------------------------
(* Disk access: a device that does not answer is marked failed by          *)
(* set_device_status(), and the buffer of a read is left as it was.        *)

Marked(status, S) == [d \in Disks |-> IF d \in S THEN 1 ELSE status[d]]

Detect(S) ==
    LET bad == {d \in S : ~working[d] /\ disk_status[d] = 0}
    IN  /\ disk_status' = Marked(disk_status, bad)
        /\ IF bad = {} THEN UNCHANGED operation_mode
           ELSE operation_mode' \in get_operation_mode(raid_type, disk_status')

(* The values readDisk() can leave in an uninitialised buffer. *)
ReadInto(d, r) == IF working[d] THEN {content[d][r]} ELSE Garbage

WriteTo(d, r, value) ==
    content' = IF working[d] THEN [content EXCEPT ![d][r] = value] ELSE content

-----------------------------------------------------------------------------
(* decode(): the value left in the caller's buffer and whether it returns  *)
(* an error, given the status array it consults.                           *)

(* The disks the XOR loop visits: it stops at the first one marked failed. *)
Visited(status, d) ==
    {i \in Disks \ {d} : \A j \in 0 .. i : j # d => status[j] = 0}

(* temp_buf after the loop's read of disk i: a failed read leaves in it    *)
(* what the last successful read put there, or the zeros of memset.        *)
TempBuf(d, r, i) ==
    LET good == {j \in 0 .. i : j # d /\ working[j]}
    IN  IF good = {} THEN {}
        ELSE content[CHOOSE j \in good : \A k \in good : k <= j][r]

Decode(rt, status, d, r) ==
    LET mirror == N - d - 1
        rebuilt == XorOver(Visited(status, d),
                           [i \in Disks |-> TempBuf(d, r, i)])
    IN  CASE status[d] = 0 ->
               {[ok |-> working[d], value |-> v] : v \in ReadInto(d, r)}
          [] status[d] # 0 /\ rt = 1 ->
               IF status[mirror] = 0
               THEN {[ok |-> working[mirror], value |-> v] :
                        v \in ReadInto(mirror, r)}
               ELSE {[ok |-> FALSE, value |-> v] : v \in Garbage}
          [] status[d] # 0 /\ rt # 1 ->
               {[ok |-> Visited(status, d) = Disks \ {d}, value |-> rebuilt]}

(* The disks that decode() reads. *)
Accessed(rt, status, d) ==
    CASE status[d] = 0 -> {d}
      [] status[d] # 0 /\ rt = 1 -> {i \in {N - d - 1} : status[i] = 0}
      [] status[d] # 0 /\ rt # 1 -> Visited(status, d)

-----------------------------------------------------------------------------
Init ==
    /\ raid_type \in RaidTypes
    /\ working = [d \in Disks |-> TRUE]
    /\ content = [d \in Disks |-> [r \in Row |-> {}]] \* setup.sh: /dev/zero
    /\ mounted = FALSE
    /\ disk_status = [d \in Disks |-> 0]
    /\ operation_mode = 0
    /\ stored = [b \in Blocks |-> None]
    /\ blind = {} /\ torn = {}
    /\ written = 0
    /\ req = [t \in Threads |-> Idle]
    /\ rec = NoRecovery

Quiet == \A t \in Threads : req[t].pc = 0
InFlight(r) == \E t \in Threads : req[t].pc # 0 /\ req[t].row = r

(* main(): the operator has put a rebuilt device in place of the old one. *)
Mount ==
    /\ ~mounted
    /\ rec.phase # "run"
    /\ mounted' = TRUE
    /\ IF rec.phase = "done"
       THEN /\ working' = [working EXCEPT ![rec.disk] = TRUE]
            /\ content' = [content EXCEPT ![rec.disk] = rec.new]
       ELSE UNCHANGED <<working, content>>
    /\ disk_status' = Probe(working')
    /\ operation_mode' \in get_operation_mode(raid_type, disk_status')
    /\ rec' = NoRecovery
    /\ UNCHANGED <<raid_type, stored, history, req>>

Unmount ==
    /\ mounted /\ Quiet
    /\ mounted' = FALSE
    /\ UNCHANGED <<raid_type, working, content, statusVars, stored,
                   history, req, rec>>

(* The write of thread t has reached the data and not yet the parity. *)
HalfWritten(t) ==
    /\ raid_type # 1 /\ req[t].pc # 0
    /\ \E i \in 1 .. req[t].pc - 1 : Steps(raid_type)[i] = "writeData"
    /\ \E i \in req[t].pc .. 5 : Steps(raid_type)[i] = "writeParity"

(* The process is killed: a write stops between two of its steps. *)
Crash ==
    /\ mounted /\ "crash" \in Env
    /\ mounted' = FALSE
    /\ torn' = torn \cup {req[t].row : t \in {u \in Threads : HalfWritten(u)}}
    /\ req' = [t \in Threads |-> Idle]
    /\ UNCHANGED <<raid_type, working, content, statusVars, stored, blind,
                   written, rec>>

(* Disks that do not answer, are marked failed or are being replaced. *)
OutOfService ==
    {e \in Disks : ~working[e] \/ (mounted /\ disk_status[e] = 1)
                   \/ (rec.phase # "none" /\ rec.disk = e)}

Break(d) ==
    /\ "break" \in Env
    /\ working[d]
    /\ Cardinality(OutOfService \cup {d}) <= MaxBroken
    /\ working' = [working EXCEPT ![d] = FALSE]
    /\ UNCHANGED <<raid_type, content, mounted, statusVars, stored,
                   history, req, rec>>

(* "set d status", by the report thread; a disk is not put back once its   *)
(* replacement is being filled.                                            *)
Command(d, status) ==
    /\ mounted /\ "command" \in Env
    /\ disk_status[d] # status
    /\ IF status = 0 THEN working[d] /\ rec.phase = "none"
       ELSE Cardinality(OutOfService \cup {d}) <= MaxBroken
    /\ disk_status' = [disk_status EXCEPT ![d] = status]
    /\ operation_mode' \in get_operation_mode(raid_type, disk_status')
    /\ UNCHANGED <<raid_type, working, content, mounted, stored, history,
                   req, rec>>

-----------------------------------------------------------------------------
(* ncfs_write: the mode is checked once, then encode() runs.               *)

WriteStart(t, d, r) ==
    /\ mounted
    /\ req[t].pc = 0
    /\ Serial => Quiet
    /\ MayWrite(operation_mode)
    /\ written < MaxWrites
    /\ IsData(raid_type, d, r) /\ stored[<<d, r>>] = None
    /\ \A u \in Threads :
          req[u].pc # 0 => <<req[u].disk, req[u].row>> # <<d, r>>
    /\ written' = written + 1
    /\ req' = [req EXCEPT ![t] = [pc |-> 1, disk |-> d, row |-> r,
                                  w |-> written + 1, buf |-> {written + 1}]]
    /\ UNCHANGED <<raid_type, working, content, mounted, statusVars, stored,
                   blind, torn, rec>>

At(t, step) == req[t].pc # 0 /\ Steps(raid_type)[req[t].pc] = step

KeepOld(t) == \* mutant: the old data is not XORed out of the parity
    /\ At(t, "readOld")
    /\ Detect({req[t].disk})
    /\ blind' = blind \ {<<req[t].disk, req[t].row>>}
    /\ req' = [req EXCEPT ![t].pc = @ + 1]
    /\ UNCHANGED <<raid_type, working, content, mounted, stored, torn, written,
                   rec>>
ReadOld(t) ==
    LET d == req[t].disk
        r == req[t].row
    IN  /\ At(t, "readOld")
        /\ \E v \in ReadInto(d, r) :
              req' = [req EXCEPT ![t].pc = @ + 1, ![t].buf = Xor(@, v)]
        /\ Detect({d})
        /\ blind' = IF working[d] THEN blind \ {<<d, r>>}
                    ELSE blind \cup {<<d, r>>}
        /\ UNCHANGED <<raid_type, working, content, mounted, stored, torn,
                       written, rec>>

ReadParity(t) ==
    LET p == RedundancyDisk(raid_type, req[t].disk, req[t].row)
    IN  /\ At(t, "readParity")
        /\ \E v \in ReadInto(p, req[t].row) :
              req' = [req EXCEPT ![t].pc = @ + 1, ![t].buf = Xor(@, v)]
        /\ Detect({p})
        /\ UNCHANGED <<raid_type, working, content, mounted, stored, history,
                       rec>>

WriteData(t) ==
    /\ At(t, "writeData")
    /\ WriteTo(req[t].disk, req[t].row, {req[t].w})
    /\ Detect({req[t].disk})
    /\ req' = [req EXCEPT ![t].pc = @ + 1]
    /\ UNCHANGED <<raid_type, working, mounted, stored, history, rec>>

WriteParity(t) ==
    LET p == RedundancyDisk(raid_type, req[t].disk, req[t].row)
    IN  /\ At(t, "writeParity")
        /\ WriteTo(p, req[t].row, req[t].buf)
        /\ Detect({p})
        /\ req' = [req EXCEPT ![t].pc = @ + 1]
        /\ UNCHANGED <<raid_type, working, mounted, stored, history, rec>>

(* writeFileInfo() records the block; the request returns success, whatever *)
(* the disk accesses returned.                                             *)
Save(t) ==
    /\ At(t, "save")
    /\ stored' = [stored EXCEPT ![<<req[t].disk, req[t].row>>] = req[t].w]
    /\ req' = [req EXCEPT ![t] = Idle]
    /\ UNCHANGED <<raid_type, working, content, mounted, statusVars, history,
                   rec>>

(* ncfs_unlink of the file: the block may be handed out again. *)
Remove(d, r) ==
    /\ mounted
    /\ Serial => Quiet
    /\ stored[<<d, r>>] # None
    /\ stored' = [stored EXCEPT ![<<d, r>>] = None]
    /\ UNCHANGED <<raid_type, working, content, mounted, statusVars, history,
                   req, rec>>

(* ncfs_read: besides its answer it marks the failed disks it runs into. *)
Read(d, r) ==
    /\ mounted
    /\ Serial => Quiet
    /\ MayRead(operation_mode)
    /\ stored[<<d, r>>] # None
    /\ Detect(Accessed(raid_type, disk_status, d))
    /\ UNCHANGED <<raid_type, working, content, mounted, stored, history,
                   req, rec>>

-----------------------------------------------------------------------------
(***************************************************************************)
(* ./recover <new device> d 0: a process with status array of its own,     *)
(* started once ncfs is unmounted or has been told "set d 1" (README, "How *)
(* to use").  It goes on only if d is the one failed disk.  "busy" lets it *)
(* start while a write is still running in ncfs.                           *)
(***************************************************************************)
RecoverFromRow1(d) == \* mutant: the loop starts at 1
    /\ "recover" \in Env /\ Quiet
    /\ rec.phase = "none"
    /\ ~mounted \/ disk_status[d] = 1
    /\ \A e \in Disks \ {d} : working[e]
    /\ rec' = [NoRecovery EXCEPT !.phase = "run", !.disk = d, !.row = 1,
                                 !.status[d] = 1]
    /\ UNCHANGED <<raid_type, working, content, mounted, statusVars, stored,
                   history, req>>
RecoverStart(d) ==
    /\ "recover" \in Env
    /\ rec.phase = "none"
    /\ ~mounted \/ disk_status[d] = 1
    /\ "busy" \in Env \/ Quiet
    /\ LET status == [e \in Disks |-> IF working[e] /\ e # d THEN 0 ELSE 1]
       IN  /\ Failed(status) = {d}
           /\ rec' = [NoRecovery EXCEPT !.phase = "run", !.disk = d,
                                        !.status = status]
    /\ UNCHANGED <<raid_type, working, content, mounted, statusVars, stored,
                   history, req>>

(* One row: decode the failed disk's block and write it to the new device. *)
RecoverRow ==
    /\ rec.phase = "run" /\ rec.row < Rows
    /\ \E a \in Decode(raid_type, rec.status, rec.disk, rec.row) :
          rec' = [rec EXCEPT
                    !.new[rec.row] = a.value,
                    !.row = @ + 1,
                    !.status = Marked(rec.status,
                        {e \in Accessed(raid_type, rec.status, rec.disk) :
                             ~working[e]})]
    /\ UNCHANGED <<raid_type, working, content, mounted, statusVars, stored,
                   history, req>>

RecoverEnd ==
    /\ rec.phase = "run" /\ rec.row = Rows
    /\ rec' = [rec EXCEPT !.phase = "done", !.status[rec.disk] = 0]
    /\ UNCHANGED <<raid_type, working, content, mounted, statusVars, stored,
                   history, req>>

(* The tool is killed, or its device is not taken into service. *)
RecoverAbort ==
    /\ rec.phase # "none" /\ "crash" \in Env
    /\ rec' = NoRecovery
    /\ UNCHANGED <<raid_type, working, content, mounted, statusVars, stored,
                   history, req>>

Write(t) ==
    \/ \E d \in Disks, r \in Row : WriteStart(t, d, r)
    \/ ReadOld(t) \/ ReadParity(t) \/ WriteData(t) \/ WriteParity(t) \/ Save(t)

Next ==
    \/ Mount \/ Unmount \/ Crash
    \/ \E d \in Disks : Break(d) \/ \E status \in {0, 1} : Command(d, status)
    \/ \E t \in Threads : Write(t)
    \/ \E d \in Disks, r \in Row : Remove(d, r) \/ Read(d, r)
    \/ \E d \in Disks : RecoverStart(d)
    \/ RecoverRow \/ RecoverEnd \/ RecoverAbort

Spec == Init /\ [][Next]_vars

-----------------------------------------------------------------------------
Live == {b \in Blocks : stored[b] # None /\ ~InFlight(b[2])}

(* The status array once disk x, and no other, is known to have failed. *)
Only(x) == [d \in Disks |-> IF d = x THEN 1 ELSE 0]

(***************************************************************************)
(* Any one disk may be lost: whichever disk x fails while the others work, *)
(* decode() gives back the last acknowledged write of every block in a row *)
(* no write is changing.                                                   *)
(***************************************************************************)
Survives(b) ==
    \A x \in Disks :
       (\A y \in Disks \ {x} : working[y]) =>
          \A a \in Decode(raid_type, Only(x), b[1], b[2]) :
             a = [ok |-> TRUE, value |-> {stored[b]}]

(***************************************************************************)
(* The promise of the encoders' comments ("fault tolerance by stripped     *)
(* parity", "by mirror"), for every acknowledged write.                    *)
(***************************************************************************)
EveryWriteSurvives == \A b \in Live : Survives(b)

(***************************************************************************)
(* The same, but for the writes sent to a disk that had already failed     *)
(* unnoticed (parity is XORed with an uninitialised buffer then) and the   *)
(* rows a crash of encode() left with new data and old parity.             *)
(***************************************************************************)
Intact(b) == b \notin blind /\ b[2] \notin torn
OneFailureTolerated == \A b \in Live : Intact(b) => Survives(b)

(***************************************************************************)
(* Reads never lie: what decode() would return now is the last             *)
(* acknowledged write of the block, or an error, with the same exceptions. *)
(***************************************************************************)
ReadsBack ==
    mounted /\ MayRead(operation_mode) =>
       \A b \in Live : Intact(b) =>
          \A a \in Decode(raid_type, disk_status, b[1], b[2]) :
             a.ok => a.value = {stored[b]}
=============================================================================
