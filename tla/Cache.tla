------------------------------- MODULE Cache ---------------------------------
(***************************************************************************)
(* The cache of src/cache: a CacheTemplate with its buffers, shared by     *)
(* the threads of the file system under cacheLock_, and the workers of     *)
(* CacheThreadPool that write back and prefetch.  A thread that wants      *)
(* something done to a buffer locks it and queues a job; the worker that   *)
(* has done the job unlocks it.                                            *)
(***************************************************************************)
EXTENDS Integers, Sequences, FiniteSets

CONSTANTS
    Clients,      \* threads that read and write
    Workers,      \* the threads of the pool: NumOfThread
    numOfBuffer,  \* buffers of the cache
    bufferSize, pageSize, blockSize,   \* in units of content
    Paths,        \* files that the cache may be opened for
    Last,         \* highest address of a file
    First,        \* what the files hold at first
    Values,       \* what may be written
    Ranges,       \* the offsets and sizes of the calls
    MaxCalls,     \* bound: read and write calls
    MaxOpens,     \* bound: open calls
    NoRequest, NoJob

ASSUME CacheAssumption ==
    /\ numOfBuffer \in Nat \ {0, 1}
    /\ {blockSize, pageSize, bufferSize} \subseteq Nat \ {0}
    /\ pageSize % blockSize = 0 /\ bufferSize % pageSize = 0
    /\ Last \in Nat /\ (Last + 1) % bufferSize = 0
    /\ {First} \cup Values \subseteq Nat
    /\ Ranges \subseteq Nat \X (Nat \ {0})
    /\ \A r \in Ranges : r[1] + r[2] - 1 <= Last
    /\ MaxCalls \in Nat /\ MaxOpens \in Nat \ {0}

Addresses == 0 .. Last
Buffers == 0 .. numOfBuffer - 1
Pages == 0 .. (bufferSize \div pageSize) - 1

(* JobItem *)
Jobs == [buf : Buffers, type : {"WRITEBACK", "FETCH", "PREFETCH"}, offset : Nat]

ASSUME NoJobAssumption == NoJob \notin Jobs

(* A read or write: a val of 0 for a read. *)
CallRecords == [op : {"read", "write"}, path : Paths, offset : Nat, size : Nat, val : Nat]

ASSUME NoRequestAssumption == NoRequest \notin Clients /\ NoRequest \notin CallRecords

VARIABLES
    disk,      \* by path and address: the file or the device below
    path,      \* path_
    users,     \* numOfUser_
    buffer,    \* buffer_
    locked,    \* bufferLock_: held for a job
    cur,       \* currentPos_
    holder,    \* the holder of cacheLock_, or NoRequest
    pc,        \* where the holder is
    at,        \* its loop over the buffers, or the argument of its flush()
    done,      \* readSize, writtenSize
    req, out,  \* by client: its request, and what the last one returned
    queue,     \* jobQueue_
    worker,    \* by worker: where it is and its JobItem
    ended,     \* ended_
    calls, opens   \* numbers of calls so far

client == <<path, users, cur, holder, pc, at, done, req, out, calls, opens>>
pool == <<queue, worker, ended>>
vars == <<disk, buffer, locked, client, pool>>

-----------------------------------------------------------------------------
(* cache_buffer.cc *)
clearContent ==
    [startAddress |-> -1, contentSize |-> 0, dirtyBit |-> FALSE, dirtyBlock |-> {},
     fetched |-> {}, content |-> [i \in 0 .. bufferSize - 1 |-> 0]]

(* The addresses of a buffer, the page and the block of one of them. *)
Extent(B) == B.startAddress .. B.startAddress + B.contentSize - 1
containOffset(B, o) == o \in Extent(B)
PageOf(B, a) == (a - B.startAddress) \div pageSize
BlockOf(B, a) == (a - B.startAddress) \div blockSize
InPage(B, p) == {a \in Extent(B) : PageOf(B, a) = p}

(* What an access of size s at o to B transfers. *)
Part(B, s, o) == {a \in o .. o + s - 1 : a \in Extent(B)}

(* The program that never reads before it writes. *)
PagesToReadNever(B, op, s, o) ==
    LET part == Part(B, s, o)
    IN  IF op = "read" THEN {PageOf(B, a) : a \in part} \ B.fetched ELSE {}

(* checkAvailability(): the pages to read before an access: all of them    *)
(* before a read, those a write covers only in part before a write.        *)
PagesToRead(B, op, s, o) ==
    LET part == Part(B, s, o)
    IN  {p \in {PageOf(B, a) : a \in part} \ B.fetched :
            op = "read" \/ ~ InPage(B, p) \subseteq part}

fetchPages(B, op, s, o) ==
    LET new == PagesToRead(B, op, s, o)
    IN  [B EXCEPT !.fetched = @ \cup {PageOf(B, a) : a \in Part(B, s, o)},
                  !.content = [i \in DOMAIN @ |->
                      IF \E p \in new : B.startAddress + i \in InPage(B, p)
                      THEN disk[path][B.startAddress + i] ELSE @[i]]]

(* The program that marks the blocks only. *)
writeToBufferUnmarked(B, s, o, v) ==
    LET F == fetchPages(B, "write", s, o)
        part == Part(B, s, o)
    IN  [F EXCEPT !.content = [i \in DOMAIN @ |->
                      IF B.startAddress + i \in part THEN v ELSE @[i]],
                  !.dirtyBlock = @ \cup {BlockOf(B, a) : a \in part}]

writeToBuffer(B, s, o, v) ==
    LET F == fetchPages(B, "write", s, o)
        part == Part(B, s, o)
    IN  [F EXCEPT !.content = [i \in DOMAIN @ |->
                      IF B.startAddress + i \in part THEN v ELSE @[i]],
                  !.dirtyBlock = @ \cup {BlockOf(B, a) : a \in part},
                  !.dirtyBit = TRUE]

(* A job other than a write back of b is being processed: the others see   *)
(* startAddress_ and contentSize_ half changed.                            *)
Changing(b) ==
    \E w \in Workers : worker[w].pc = "busy" /\ worker[w].job.buf = b
                       /\ worker[w].job.type # "WRITEBACK"

(* What containOffset() may return without the lock. *)
SeenToContain(b, o) == IF Changing(b) THEN BOOLEAN ELSE {containOffset(buffer[b], o)}

(* addThreadJob(): the queue and the signal, which wakes one worker. *)
addJob(job) ==
    /\ \A w \in Workers : worker[w].pc # "blocking"
    /\ queue' = Append(queue, job)
    /\ LET waiting == {w \in Workers : worker[w].pc = "waiting"}
       IN  IF waiting = {} THEN UNCHANGED worker
           ELSE \E w \in waiting : worker' = [worker EXCEPT ![w].pc = "woken"]
    /\ UNCHANGED ended

(* The program that queues a job without the lock. *)
PostUnlocked(b, type, o) ==
    /\ locked' = [locked EXCEPT ![b] = TRUE]
    /\ addJob([buf |-> b, type |-> type, offset |-> o])

(* writeBack(), fetch() and prefetch() of buffer b. *)
Post(b, type, o) ==
    /\ ~ locked[b]
    /\ locked' = [locked EXCEPT ![b] = TRUE]
    /\ addJob([buf |-> b, type |-> type, offset |-> o])

-----------------------------------------------------------------------------
(* cache_template.cc: read() and write(). *)
Call(c, op, o, s, v) ==
    /\ users > 0 /\ pc \notin {"flushDestroy", "waitDestroy", "join"}
    /\ req[c] = NoRequest
    /\ calls < MaxCalls
    /\ req' = [req EXCEPT ![c] = [op |-> op, path |-> path, offset |-> o, size |-> s, val |-> v]]
    /\ out' = [out EXCEPT ![c] = <<>>]
    /\ calls' = calls + 1
    /\ UNCHANGED <<disk, buffer, locked, path, users, cur, holder, pc, at, done, opens, pool>>

lockMutex(c) ==
    /\ pc = "free"
    /\ req[c] # NoRequest
    /\ holder' = c
    /\ pc' = "access"
    /\ done' = 0
    /\ UNCHANGED <<disk, buffer, locked, path, users, cur, at, req, out, calls, opens, pool>>

(* One turn of the loop: what the working buffer has of the range is       *)
(* transferred; with more to do, flush() for the next address.             *)
Access ==
    /\ pc = "access"
    /\ ~ locked[cur]
    /\ LET r == req[holder]
           o == r.offset + done
           left == r.size - done
           B == buffer[cur]
           part == IF containOffset(B, o) THEN Part(B, left, o) ELSE {}
           F == fetchPages(B, "read", left, o)
           read == [a \in part |-> F.content[a - B.startAddress]]
       IN  /\ buffer' = [buffer EXCEPT ![cur] =
                  IF part = {} THEN B
                  ELSE IF r.op = "read" THEN F ELSE writeToBuffer(B, left, o, r.val)]
           /\ out' = [out EXCEPT ![holder] =
                  [a \in (DOMAIN @) \cup part |->
                      IF a \notin part THEN @[a]
                      ELSE IF r.op = "read" THEN read[a] ELSE r.val]]
           /\ done' = done + Cardinality(part)
           /\ at' = r.offset + done'
           /\ IF done' = r.size
              THEN /\ req' = [req EXCEPT ![holder] = NoRequest]
                   /\ holder' = NoRequest
                   /\ pc' = "free"
              ELSE /\ pc' = "writeBack"
                   /\ UNCHANGED <<req, holder>>
    /\ UNCHANGED <<disk, locked, path, users, cur, calls, opens, pool>>

(* flush(at): the working buffer is written back ... *)
FlushWriteBack ==
    /\ pc = "writeBack"
    /\ IF buffer[cur].dirtyBit
       THEN Post(cur, "WRITEBACK", 0)
       ELSE UNCHANGED <<locked, pool>>
    /\ pc' = "search"
    /\ UNCHANGED <<disk, buffer, path, users, cur, holder, at, done, req, out, calls, opens>>

(* ... another one that has the address is looked for ... *)
FlushSearch ==
    /\ pc = "search"
    /\ \E seen \in [Buffers -> BOOLEAN] :
          /\ \A b \in Buffers : seen[b] \in SeenToContain(b, at)
          /\ LET others == [i \in 1 .. numOfBuffer - 1 |-> (cur + i) % numOfBuffer]
                 hits == {i \in DOMAIN others : seen[others[i]]}
             IN  IF hits = {}
                 THEN cur' = others[1] /\ pc' = "fetch"
                 ELSE /\ cur' = others[CHOOSE i \in hits : \A j \in hits : i <= j]
                      /\ pc' = "wait"
    /\ UNCHANGED <<disk, buffer, locked, path, users, holder, at, done, req, out, calls, opens, pool>>

FlushFetch ==
    /\ pc = "fetch"
    /\ Post(cur, "FETCH", at)
    /\ pc' = "wait"
    /\ UNCHANGED <<disk, buffer, path, users, cur, holder, at, done, req, out, calls, opens>>

(* ... waitJob() ... *)
FlushWait ==
    /\ pc = "wait"
    /\ ~ locked[cur]
    /\ pc' = "prefetch"
    /\ UNCHANGED <<disk, buffer, locked, path, users, cur, holder, at, done, req, out, calls, opens, pool>>

(* ... and the next buffer prefetches what follows, unless it has it. *)
FlushPrefetch ==
    LET next == (cur + 1) % numOfBuffer
    IN  /\ pc = "prefetch"
        /\ \/ /\ TRUE \in SeenToContain(next, at + bufferSize)
              /\ UNCHANGED <<locked, pool>>
           \/ /\ FALSE \in SeenToContain(next, at + bufferSize)
              /\ Post(next, "PREFETCH", at + bufferSize)
        /\ pc' = "access"
        /\ UNCHANGED <<disk, buffer, path, users, cur, holder, at, done, req, out, calls, opens>>

-----------------------------------------------------------------------------
(* init(), setEmpty() and the destructor: flushBuffer(), with emptyBuffer()*)
(* for the first and the last also waitJob(), buffer by buffer.            *)
Start(phase) ==
    /\ pc = "free"
    /\ pc' = phase
    /\ at' = 0
    /\ UNCHANGED <<disk, buffer, locked, path, cur, holder, done, req, out, calls, pool>>

Open ==
    /\ opens < MaxOpens
    /\ opens' = opens + 1
    /\ Start("flushOpen")
    /\ UNCHANGED users

(* The descriptor is the one of the last open: nothing is written back. *)
OpenAgain ==
    /\ users > 0
    /\ opens < MaxOpens
    /\ opens' = opens + 1
    /\ users' = users + 1
    /\ Start("free")

(* A file is released after its reads and writes have returned. *)
Close ==
    /\ users > 0
    /\ \A c \in Clients : req[c] = NoRequest
    /\ users' = users - 1
    /\ Start(IF users = 1 THEN "flushClose" ELSE "free")
    /\ UNCHANGED opens

Destroy ==
    /\ \A c \in Clients : req[c] = NoRequest
    /\ Start("flushDestroy")
    /\ UNCHANGED <<users, opens>>

(* writeBack() of buffer at. *)
FlushBuffer ==
    /\ pc \in {"flushOpen", "flushClose", "flushDestroy"}
    /\ at \in Buffers
    /\ IF buffer[at].dirtyBit
       THEN Post(at, "WRITEBACK", 0)
       ELSE UNCHANGED <<locked, pool>>
    /\ at' = at + 1
    /\ UNCHANGED <<disk, buffer, path, users, cur, holder, pc, done, req, out, calls, opens>>

FlushBufferEnd ==
    /\ pc \in {"flushOpen", "flushClose", "flushDestroy"}
    /\ at = numOfBuffer
    /\ pc' = CASE pc = "flushOpen" -> "waitOpen"
               [] pc = "flushDestroy" -> "waitDestroy"
               [] OTHER -> "free"
    /\ at' = 0
    /\ UNCHANGED <<disk, buffer, locked, path, users, cur, holder, done, req, out, calls, opens, pool>>

(* The program that does not wait. *)
WaitJobsNot ==
    /\ pc \in {"waitOpen", "waitDestroy"}
    /\ at \in Buffers
    /\ at' = at + 1
    /\ UNCHANGED <<disk, buffer, locked, path, users, cur, holder, pc, done, req, out, calls, opens, pool>>

WaitJobs ==
    /\ pc \in {"waitOpen", "waitDestroy"}
    /\ at \in Buffers
    /\ ~ locked[at]
    /\ at' = at + 1
    /\ UNCHANGED <<disk, buffer, locked, path, users, cur, holder, pc, done, req, out, calls, opens, pool>>

(* The rest of init(): the buffers keep their content (doClear is false).  *)
(* A path that is open is found by searchFileInfoCache().                  *)
Opened ==
    /\ pc = "waitOpen"
    /\ at = numOfBuffer
    /\ path' \in IF users > 0 THEN {path} ELSE Paths
    /\ users' = users + 1
    /\ pc' = "free"
    /\ at' = 0
    /\ UNCHANGED <<disk, buffer, locked, cur, holder, done, req, out, calls, opens, pool>>

(* ~CacheThreadPool(): ended_ and the broadcast, without queueLock_; then  *)
(* the workers are joined.                                                 *)
EndPool ==
    /\ pc = "waitDestroy"
    /\ at = numOfBuffer
    /\ ended' = TRUE
    /\ worker' = [w \in Workers |-> IF worker[w].pc = "waiting"
                                    THEN [worker[w] EXCEPT !.pc = "woken"] ELSE worker[w]]
    /\ pc' = "join"
    /\ users' = 0
    /\ UNCHANGED <<disk, buffer, locked, path, cur, holder, at, done, req, out, calls, opens, queue>>

-----------------------------------------------------------------------------
(* cache_threadpool.cc: fetchOneJob(). *)
Take(w) ==
    /\ queue # <<>>
    /\ worker' = [worker EXCEPT ![w] = [pc |-> "busy", job |-> Head(queue)]]
    /\ queue' = Tail(queue)
    /\ UNCHANGED <<disk, buffer, locked, client, ended>>

(* With the queue empty: the end, or the wait, entered with the lock held. *)
FetchOneJob(w) ==
    /\ worker[w].pc = "fetch"
    /\ \A u \in Workers : worker[u].pc # "blocking"
    /\ \/ Take(w)
       \/ /\ queue = <<>>
          /\ worker' = [worker EXCEPT ![w].pc = IF ended THEN "ended" ELSE "blocking"]
          /\ UNCHANGED <<disk, buffer, locked, client, queue, ended>>

CondWait(w) ==
    /\ worker[w].pc = "blocking"
    /\ worker' = [worker EXCEPT ![w].pc = "waiting"]
    /\ UNCHANGED <<disk, buffer, locked, client, queue, ended>>

(* After the wait.  With the queue empty and the pool not ended, continue  *)
(* leaves the loop: the worker goes on with the JobItem it had.            *)
Woken(w) ==
    /\ worker[w].pc = "woken"
    /\ \A u \in Workers : worker[u].pc # "blocking"
    /\ \/ Take(w)
       \/ /\ queue = <<>>
          /\ worker' = [worker EXCEPT ![w].pc = IF ended THEN "ended" ELSE "busy"]
          /\ UNCHANGED <<disk, buffer, locked, client, queue, ended>>

(* The program without fetchContent(). *)
DoPrefetchEmpty(w) ==
    LET job == worker[w].job
        B == [clearContent EXCEPT !.startAddress = (job.offset \div bufferSize) * bufferSize]
    IN  /\ worker[w].pc = "busy" /\ job # NoJob /\ job.type # "WRITEBACK"
        /\ buffer' = [buffer EXCEPT ![job.buf] = B]
        /\ locked' = [locked EXCEPT ![job.buf] = FALSE]
        /\ worker' = [worker EXCEPT ![w].pc = "fetch"]
        /\ UNCHANGED <<disk, client, queue, ended>>

(* processJob(): doPrefetch() ... *)
DoPrefetch(w) ==
    LET job == worker[w].job
        B == [clearContent EXCEPT !.startAddress = (job.offset \div bufferSize) * bufferSize,
                                  !.contentSize = bufferSize]
    IN  /\ worker[w].pc = "busy" /\ job # NoJob /\ job.type # "WRITEBACK"
        /\ buffer' = [buffer EXCEPT ![job.buf] = B]
        /\ locked' = [locked EXCEPT ![job.buf] = FALSE]
        /\ worker' = [worker EXCEPT ![w].pc = "fetch"]
        /\ UNCHANGED <<disk, client, queue, ended>>

(* ... and doWriteBack(), run by run of dirty blocks. *)
DoWriteBack(w) ==
    LET job == worker[w].job
        B == buffer[job.buf]
    IN  /\ worker[w].pc = "busy" /\ job # NoJob /\ job.type = "WRITEBACK"
        /\ disk' = [disk EXCEPT ![path] = [a \in Addresses |->
                IF a \in Extent(B) /\ BlockOf(B, a) \in B.dirtyBlock
                THEN B.content[a - B.startAddress] ELSE @[a]]]
        /\ buffer' = [buffer EXCEPT ![job.buf].dirtyBlock = {}, ![job.buf].dirtyBit = FALSE]
        /\ locked' = [locked EXCEPT ![job.buf] = FALSE]
        /\ worker' = [worker EXCEPT ![w].pc = "fetch"]
        /\ UNCHANGED <<client, queue, ended>>

-----------------------------------------------------------------------------
Init ==
    /\ disk = [p \in Paths |-> [a \in Addresses |-> First]]
    /\ path \in Paths
    /\ users = 1
    /\ buffer = [b \in Buffers |-> clearContent]
    /\ locked = [b \in Buffers |-> FALSE]
    /\ cur = 0
    /\ holder = NoRequest /\ pc = "free" /\ at = 0 /\ done = 0
    /\ req = [c \in Clients |-> NoRequest]
    /\ out = [c \in Clients |-> <<>>]
    /\ queue = <<>>
    /\ worker = [w \in Workers |-> [pc |-> "fetch", job |-> NoJob]]
    /\ ended = FALSE
    /\ calls = 0 /\ opens = 1

ClientStep ==
    \/ \E c \in Clients : lockMutex(c)
    \/ Access \/ FlushWriteBack \/ FlushSearch \/ FlushFetch \/ FlushWait \/ FlushPrefetch
    \/ FlushBuffer \/ FlushBufferEnd \/ WaitJobs \/ Opened \/ EndPool

WorkerStep(w) ==
    FetchOneJob(w) \/ CondWait(w) \/ Woken(w) \/ DoPrefetch(w) \/ DoWriteBack(w)

Finished == pc = "join" /\ UNCHANGED vars

Next ==
    \/ \E c \in Clients, r \in Ranges :
          \/ Call(c, "read", r[1], r[2], 0)
          \/ \E v \in Values : Call(c, "write", r[1], r[2], v)
    \/ Open \/ OpenAgain \/ Close \/ Destroy
    \/ ClientStep
    \/ \E w \in Workers : WorkerStep(w)
    \/ Finished

(* A thread that holds cacheLock_ and a worker go on when they can. *)
Fairness == WF_vars(ClientStep) /\ \A w \in Workers : WF_vars(WorkerStep(w))

Spec == Init /\ [][Next]_vars
FairSpec == Spec /\ Fairness

-----------------------------------------------------------------------------
TypeOK ==
    /\ disk \in [Paths -> [Addresses -> Values \cup {First}]]
    /\ path \in Paths
    /\ users \in 0 .. MaxOpens
    /\ \A b \in Buffers :
          /\ buffer[b].startAddress \in {-1} \cup {a \in Nat : a % bufferSize = 0}
          /\ buffer[b].contentSize \in {0, bufferSize}
          /\ buffer[b].fetched \subseteq Pages
          /\ buffer[b].dirtyBit = (buffer[b].dirtyBlock # {})
    /\ cur \in Buffers
    /\ done \in 0 .. Last + 1

(* A worker that does a job has the lock of the buffer that was handed to  *)
(* it with the job, and no other worker or queued job has the same one.    *)
JobHasItsBuffer ==
    LET busy == {w \in Workers : worker[w].pc = "busy"}
    IN  /\ \A w \in busy : worker[w].job # NoJob /\ locked[worker[w].job.buf]
        /\ \A v, w \in busy : v # w => worker[v].job.buf # worker[w].job.buf
        /\ \A w \in busy, i \in DOMAIN queue : queue[i].buf # worker[w].job.buf
        /\ \A i, j \in DOMAIN queue : i # j => queue[i].buf # queue[j].buf

(* What the file holds for those who use it: the dirty blocks of the       *)
(* buffers, and what is on the disk; a write under way has taken effect.   *)
Dirty(b) == {a \in Extent(buffer[b]) : BlockOf(buffer[b], a) \in buffer[b].dirtyBlock}

Held(p, a) ==
    LET H == {b \in Buffers : p = path /\ a \in Dirty(b)}
    IN  IF H = {} THEN disk[p][a]
        ELSE LET b == CHOOSE x \in H : TRUE
             IN  buffer[b].content[a - buffer[b].startAddress]

Writing == {c \in Clients : c = holder /\ req[c].op = "write"}

Atomic == INSTANCE AtomicFile WITH
    mem <- [p \in Paths |-> [a \in Addresses |->
               IF \E c \in Writing : p = path /\ a \in req[c].offset .. req[c].offset + req[c].size - 1
               THEN req[holder].val ELSE Held(p, a)]],
    effective <- Writing,
    out <- [c \in Clients |-> IF req[c] = NoRequest THEN out[c] ELSE <<>>]

(* The cache implements a file that is read and written atomically. *)
ImplementsAtomicFile == Atomic!Spec

(* When the buffers have been emptied for the end of the program or for    *)
(* another file, the disk has everything that was written.                 *)
EmptiedToDisk ==
    pc \in {"waitOpen", "waitDestroy", "join"} /\ at = numOfBuffer =>
        \A b \in Buffers : ~ buffer[b].dirtyBit

(* Every read and write returns, and every open and close. *)
CallsReturn ==
    /\ \A c \in Clients : (req[c] # NoRequest) ~> (req[c] = NoRequest)
    /\ (pc # "free") ~> (pc \in {"free", "join"})

(* "Waken up but no job = End": once the pool is told to end, its workers  *)
(* do.                                                                     *)
PoolEnds == ended ~> \A w \in Workers : worker[w].pc = "ended"
=============================================================================
