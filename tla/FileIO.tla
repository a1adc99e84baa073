------------------------------- MODULE FileIO --------------------------------
(***************************************************************************)
(* The path of a user's request through the handlers of ncfs.cc and the    *)
(* NoCache layer below them: the table of metadata paths by descriptor,    *)
(* the metadata files with a file's size and its blocks, the cutting of    *)
(* writes into blocks or, when a block is larger than a system block, the  *)
(* collecting of writes in one buffer, and the putting together of reads.  *)
(*                                                                         *)
(* A handler is one step, but for getattr and unlink, which use the table  *)
(* twice.  Which block encode() hands out and how it survives failures is  *)
(* the subject of SpaceAlloc, Redundancy and the codes.                    *)
(***************************************************************************)
EXTENDS Integers, Sequences, FiniteSets, FiniteSetsExt

CONSTANTS
    Paths, NoPath,
    Geometries,   \* pairs <<disk_block_size, sysblocksize>>
    Descriptors,  \* 0 .. RLIMIT_NOFILE - 1, those of other uses left out
    NumBlocks,    \* blocks on the disks
    MaxLength,    \* bound: bytes of a file
    MaxRequest,   \* bound: bytes of a read or write
    MaxWrites,    \* bound: writes of a behaviour
    Usage         \* what users may do, see Usages

(***************************************************************************)
(* "anywhere": writes that neither append nor rewrite the end of the file,  *)
(* or rewrite it with the disks full;                                      *)
(* "unaligned": writes that do not begin at a block (a system block, with  *)
(* big blocks) or, longer than a system block, not at a big one;           *)
(* "shared": a file is written, looked at or closed while the buffer of    *)
(* big blocks holds part of a file, or the disks are full then;            *)
(* "long": reads of more than two blocks, or of more than a big one;       *)
(* "empty": stat of a file without a byte;                                 *)
(* "together": requests for one file overlap;                              *)
(* "exhaust": no descriptor is left.                                       *)
(***************************************************************************)
Usages == {"anywhere", "unaligned", "shared", "long", "empty", "together", "exhaust"}

ASSUME FileIOAssumption ==
    /\ NoPath \notin Paths
    /\ Geometries \subseteq (Nat \ {0}) \X (Nat \ {0})
    /\ \A g \in Geometries : g[1] > g[2] => g[1] % g[2] = 0
    /\ Descriptors \subseteq Nat /\ Descriptors = 0 .. Cardinality(Descriptors) - 1
    /\ NumBlocks \in Nat \ {0} /\ MaxLength \in Nat /\ MaxRequest \in Nat /\ MaxWrites \in Nat
    /\ Usage \subseteq Usages

VARIABLES
    disk_block_size, sysblocksize,
    block,         \* the content of the blocks
    used,          \* blocks handed out so far
    meta,          \* by path: the metadata file, or NoMeta
    fds,           \* descriptors of the process that are open
    fileInfoPath_, \* NoCache's table
    handles,       \* by descriptor: the open file the kernel has it for
    bigtempbuf, bigtempbuf_counter,
    stat,          \* the getattr under way, or NoStat
    unlinking,     \* the unlink under way, or NoUnlink
    running,       \* FALSE after exit(-1)
    writes,        \* writes so far
    owner,         \* the file whose bytes are in bigtempbuf, or NoPath
    answer         \* what the last request returned

store == <<block, used, bigtempbuf, bigtempbuf_counter, writes, owner>>
geometry == <<disk_block_size, sysblocksize>>
vars == <<geometry, store, meta, fds, fileInfoPath_, handles, stat, unlinking, running, answer>>

NoMeta == [size |-> -2, info |-> <<>>]
NoStat == [path |-> NoPath, there |-> FALSE, fd |-> -1]
NoUnlink == [path |-> NoPath, fd |-> -1, closed |-> FALSE]
UNAVAILABLE == -1
NoSize == -1        \* an empty metadata file

Zero == <<0, 0>>    \* an empty byte; byte i of its file by write w is <<w, i>>
Reply(op, p, count, data) == [op |-> op, path |-> p, count |-> count, data |-> data]

usebigblock == disk_block_size > sysblocksize
bigtempbuf_maxcount == IF usebigblock THEN disk_block_size \div sysblocksize ELSE 1
Units == 0 .. disk_block_size - 1
Indexes == 0 .. MaxLength
ZeroBlock == [u \in Units |-> Zero]

Free == Descriptors \ fds
fresh == Min(Free)          \* what open() returns
Exists(p) == p # NoPath /\ meta[p] # NoMeta
EmptyMeta == [size |-> NoSize, info |-> [x \in Indexes |-> 0]]
MetaOf(p) == IF Exists(p) THEN meta[p] ELSE EmptyMeta   \* as O_CREAT finds it

TypeOK ==
    /\ <<disk_block_size, sysblocksize>> \in Geometries
    /\ block \in [0 .. NumBlocks - 1 -> [Units -> (0 .. MaxWrites) \X (0 .. MaxLength)]]
    /\ used \in 0 .. NumBlocks
    /\ \A p \in Paths : Exists(p) =>
          /\ meta[p].size \in NoSize .. MaxLength
          /\ meta[p].info \in [Indexes -> 0 .. NumBlocks - 1]
    /\ fds \subseteq Descriptors
    /\ fileInfoPath_ \in [Descriptors -> Paths \cup {NoPath}]
    /\ handles \in [Descriptors -> Paths \cup {NoPath}]
    /\ bigtempbuf \in [Units -> (0 .. MaxWrites) \X (0 .. MaxLength)]
    /\ bigtempbuf_counter \in 0 .. bigtempbuf_maxcount
    /\ stat.fd \in Descriptors \cup {UNAVAILABLE}
    /\ unlinking.fd \in Descriptors \cup {-1}
    /\ running \in BOOLEAN
    /\ writes \in 0 .. MaxWrites
    /\ owner \in Paths \cup {NoPath}

-----------------------------------------------------------------------------
(* no_cache.cc: the table. *)
createFileInfo(p, fd) == [fileInfoPath_ EXCEPT ![fd] = p]
destroyFileInfo(fd) == [fileInfoPath_ EXCEPT ![fd] = NoPath]
searchFileInfoEnd(p) == \* mutant: the index after the last entry
    LET found == {fd \in Descriptors : fileInfoPath_[fd] = p}
    IN  IF found = {} THEN Cardinality(Descriptors) ELSE Min(found)
searchFileInfo(p) ==
    LET found == {fd \in Descriptors : fileInfoPath_[fd] = p}
    IN  IF found = {} THEN UNAVAILABLE ELSE Min(found)

(* readFileInfo() and writeFileInfo() open the metadata file by the path   *)
(* of the table and end the process when they cannot.                      *)
CanReadInfo(fd) == Free # {} /\ Exists(fileInfoPath_[fd])
CanWriteInfo(fd) == Free # {} /\ fileInfoPath_[fd] # NoPath

Exit ==
    /\ running' = FALSE
    /\ UNCHANGED <<geometry, store, meta, fds, fileInfoPath_, handles, stat, unlinking, answer>>

-----------------------------------------------------------------------------
(* Byte i of a file with metadata m.  An entry that was never written is   *)
(* all zeros: the first block of the first disk.                           *)
Byte(m, i) == block[m.info[i \div disk_block_size]][i % disk_block_size]

(***************************************************************************)
(* readFileCache(): the rest of the first block, whole blocks, and the     *)
(* beginning of the last one.  The size it returns counts the first and    *)
(* the last block.                                                         *)
(***************************************************************************)
startBlock(offset) == offset \div disk_block_size
endBlock(offset, size) ==
    LET e == (offset + size) \div disk_block_size
    IN  IF (offset + size) % disk_block_size = 0 THEN e - 1 ELSE e

finishedSize(offset, size) ==
    LET first == disk_block_size - (offset % disk_block_size)
        rest == (offset + size) % disk_block_size
        last == IF rest = 0 THEN disk_block_size ELSE rest
    IN  IF endBlock(offset, size) <= startBlock(offset) THEN first ELSE first + last

(* ncfs_read(): at most one big block at a time; never more than asked for. *)
bytes_read(offset, size) ==
    LET asked == IF usebigblock THEN Min({size, disk_block_size}) ELSE size
    IN  Min({finishedSize(offset, asked), asked})

-----------------------------------------------------------------------------
(***************************************************************************)
(* ncfs_write() cuts the bytes into pieces and hands them to encode(),     *)
(* which writes to a new block; metadata follows each encode().  The loop  *)
(* runs over a record of what it changes.                                  *)
(***************************************************************************)
Piece == IF usebigblock THEN sysblocksize ELSE disk_block_size
Pieces(n) == (n + Piece - 1) \div Piece
PieceSize(n, i) == Min({Piece, n - i * Piece})

(* encode() of the first n bytes of buf, for index x of the file. *)
Encoded(s, buf, n, x, size) ==
    IF s.used = NumBlocks THEN [s EXCEPT !.full = TRUE]
    ELSE [s EXCEPT
            !.block[s.used] = [u \in Units |-> IF u < n THEN buf[u] ELSE @[u]],
            !.used = @ + 1, !.info[x] = s.used, !.size = size]

PlainPiece(s, w, offset, n, i) ==
    LET at == offset + i * Piece
        len == PieceSize(n, i)
    IN  Encoded(s, [u \in Units |-> <<w, at + u>>], len, at \div disk_block_size, at + len)

(* The size of a file whose last piece, len bytes of a request for n from  *)
(* offset on, fills the buffer.                                            *)
BigSizeAll(s, offset, n, len) == \* mutant: as in the line that was commented out
    (IF n <= sysblocksize THEN offset ELSE s.offset)
        + (bigtempbuf_maxcount - 1) * sysblocksize + len
BigSize(s, offset, n, len) ==
    LET temp_size == (bigtempbuf_maxcount - 1) * sysblocksize + len
    IN  IF n <= sysblocksize THEN offset + temp_size - (disk_block_size - sysblocksize)
        ELSE s.offset + temp_size

BigPiece(s, w, offset, n, i) ==
    LET slot == (bigtempbuf_maxcount - s.counter) * sysblocksize
        len == PieceSize(n, i)
        buf == [u \in Units |-> IF u >= slot /\ u < slot + len
                                THEN <<w, offset + i * Piece + u - slot>> ELSE s.buf[u]]
        temp_size == (bigtempbuf_maxcount - 1) * sysblocksize + len
        flushed == Encoded(s, buf, temp_size, s.offset \div disk_block_size,
                           BigSize(s, offset, n, len))
    IN  IF s.counter > 1 THEN [s EXCEPT !.buf = buf, !.counter = @ - 1]
        ELSE IF flushed.full THEN [flushed EXCEPT !.buf = buf, !.counter = 0]
        ELSE [flushed EXCEPT !.buf = ZeroBlock, !.counter = bigtempbuf_maxcount,
                             !.offset = @ + temp_size]

(* -ENOSPC ends the loop. *)
OnePiece(s, w, offset, n, i) ==
    IF s.full THEN s
    ELSE IF usebigblock THEN BigPiece(s, w, offset, n, i)
    ELSE PlainPiece(s, w, offset, n, i)

Written(m, w, offset, n) ==
    LET start == [block |-> block, used |-> used, buf |-> bigtempbuf,
                  counter |-> bigtempbuf_counter, offset |-> offset,
                  size |-> m.size, info |-> m.info, full |-> FALSE]
        loop[i \in 0 .. Pieces(n)] ==
            IF i = 0 THEN start ELSE OnePiece(loop[i - 1], w, offset, n, i - 1)
    IN  loop[Pieces(n)]

-----------------------------------------------------------------------------
(* What users have stored: the bytes in blocks, then those in the buffer. *)
Buffered(p) ==
    IF owner # p THEN <<>>
    ELSE [i \in 1 .. (bigtempbuf_maxcount - bigtempbuf_counter) * sysblocksize |->
             bigtempbuf[i - 1]]

Length(p) == (IF meta[p].size = NoSize THEN 0 ELSE meta[p].size) + Len(Buffered(p))

Contents ==
    [p \in Paths |->
        IF ~Exists(p) THEN <<<<-1, -1>>>>
        ELSE [i \in 1 .. Length(p) - Len(Buffered(p)) |-> Byte(meta[p], i - 1)] \o Buffered(p)]

(* Requests that Usage allows. *)
Allowed(u) == u \in Usage
Alone(p) == Allowed("together") \/ (stat.path # p /\ unlinking.path # p)
Quiescent(p) == Allowed("shared") \/ owner # p
WriteAllowed(p, offset, n) ==
    LET room == used + Pieces(n) <= NumBlocks
    IN
    /\ \/ offset = Length(p)
       \/ ~usebigblock /\ offset < Length(p) /\ offset + n >= Length(p) /\ room
       \/ Allowed("anywhere")
    /\ \/ offset % Piece = 0 /\ (~usebigblock \/ n % Piece = 0)
          /\ (n > Piece /\ usebigblock => offset % disk_block_size = 0)
       \/ Allowed("unaligned")
    /\ \/ owner \in {NoPath, p} /\ (usebigblock => room /\ stat.path # p)
       \/ Allowed("shared")
ReadAllowed(p, offset, n) ==
    endBlock(offset, n) <= startBlock(offset) + (IF usebigblock THEN 0 ELSE 1) \/ Allowed("long")
DescriptorLeft == Cardinality(Free) > (IF Allowed("exhaust") THEN 0 ELSE 1)

-----------------------------------------------------------------------------
Init ==
    /\ \E g \in Geometries : disk_block_size = g[1] /\ sysblocksize = g[2]
    /\ block = [b \in 0 .. NumBlocks - 1 |-> ZeroBlock]
    /\ used = 0
    /\ meta = [p \in Paths |-> NoMeta]
    /\ fds = {}
    /\ fileInfoPath_ = [fd \in Descriptors |-> NoPath]
    /\ handles = [fd \in Descriptors |-> NoPath]
    /\ bigtempbuf = ZeroBlock
    /\ bigtempbuf_counter = bigtempbuf_maxcount
    /\ stat = NoStat
    /\ unlinking = NoUnlink
    /\ running = TRUE
    /\ writes = 0
    /\ owner = NoPath
    /\ answer = Reply("none", NoPath, 0, <<>>)

(* ncfs_create() and ncfs_open(). *)
Opened(p) ==
    /\ fds' = fds \cup {fresh}
    /\ fileInfoPath_' = createFileInfo(p, fresh)
    /\ handles' = [handles EXCEPT ![fresh] = p]
    /\ UNCHANGED <<geometry, store, stat, unlinking, running, answer>>

Create(p) ==
    /\ running /\ ~Exists(p) /\ Alone(p) /\ DescriptorLeft
    /\ meta' = [meta EXCEPT ![p] = EmptyMeta]
    /\ Opened(p)

Open(p) ==
    /\ running /\ Exists(p) /\ Alone(p) /\ DescriptorLeft
    /\ UNCHANGED meta
    /\ Opened(p)

(* ncfs_release(): the close() of the descriptor is commented out. *)
Release(h) ==
    /\ running /\ handles[h] # NoPath /\ Alone(handles[h]) /\ Quiescent(handles[h])
    /\ fileInfoPath_' = destroyFileInfo(h)
    /\ handles' = [handles EXCEPT ![h] = NoPath]
    /\ UNCHANGED <<geometry, store, meta, fds, stat, unlinking, running, answer>>

Write(h, offset, n) ==
    LET p == fileInfoPath_[h]
        w == writes + 1
        r == Written(MetaOf(p), w, offset, n)
        saved == r.used > used
    IN  /\ running /\ handles[h] # NoPath /\ writes < MaxWrites
        /\ offset + n <= MaxLength
        /\ bigtempbuf_counter > 0 \* beyond the buffer after an -ENOSPC
        /\ Exists(p) => WriteAllowed(p, offset, n)
        /\ IF saved /\ ~CanWriteInfo(h) THEN Exit
           ELSE /\ block' = r.block /\ used' = r.used
                /\ bigtempbuf' = r.buf /\ bigtempbuf_counter' = r.counter
                /\ owner' = IF r.counter = bigtempbuf_maxcount THEN NoPath ELSE p
                /\ writes' = w
                /\ meta' = IF saved THEN [meta EXCEPT ![p] = [size |-> r.size, info |-> r.info]]
                           ELSE meta
                /\ answer' = Reply("write", p, IF r.full THEN -1 ELSE n, <<>>)
                /\ UNCHANGED <<geometry, fds, fileInfoPath_, handles, stat, unlinking, running>>

(* ncfs_read(); the kernel asks within the file and cuts off at its end. *)
Read(h, offset, n) ==
    LET p == fileInfoPath_[h]
    IN  /\ running /\ handles[h] # NoPath
        /\ Exists(p) => offset < Length(p) /\ Quiescent(p) /\ ReadAllowed(p, offset, n)
        /\ IF ~CanReadInfo(h) THEN Exit
           ELSE LET count == Min({bytes_read(offset, n), meta[p].size - offset})
                IN  /\ answer' = Reply("read", p, count,
                                       [i \in 1 .. count |-> Byte(meta[p], offset + i - 1)])
                    /\ UNCHANGED <<geometry, store, meta, fds, fileInfoPath_, handles,
                                   stat, unlinking, running>>

(* ncfs_getattr(): lstat() and searchFileInfo(), ... *)
StatStart(p) ==
    /\ running /\ stat = NoStat
    /\ Allowed("together") \/ unlinking.path # p
    /\ Quiescent(p)
    /\ Exists(p) /\ meta[p].size = NoSize => Allowed("empty")
    /\ stat' = [path |-> p, there |-> Exists(p), fd |-> searchFileInfo(p)]
    /\ UNCHANGED <<geometry, store, meta, fds, fileInfoPath_, handles, unlinking, running, answer>>

(* ... then the size, through the table or, for a file that is not in it,  *)
(* by a descriptor of its own.  What was not read is not initialised.      *)
SizeRead(p) == IF Free # {} /\ Exists(p) /\ meta[p].size # NoSize THEN {meta[p].size}
               ELSE 0 .. MaxLength

StatEnd ==
    /\ running /\ stat # NoStat
    /\ IF stat.fd # UNAVAILABLE /\ ~CanReadInfo(stat.fd) THEN Exit
       ELSE /\ \E size \in SizeRead(IF stat.fd = UNAVAILABLE THEN stat.path
                                    ELSE fileInfoPath_[stat.fd]) :
                  answer' = Reply("stat", stat.path, IF stat.there THEN size ELSE -1, <<>>)
            /\ stat' = NoStat
            /\ UNCHANGED <<geometry, store, meta, fds, fileInfoPath_, handles, unlinking, running>>

(* ncfs_unlink() of a file that is not open (libfuse renames one that is): *)
(* the table gets an entry, the blocks are freed, the descriptor is closed *)
(* and the file removed.  The entry stays.                                 *)
UnlinkStart(p) ==
    /\ running /\ unlinking = NoUnlink
    /\ Exists(p) /\ \A h \in Descriptors : handles[h] # p
    /\ Alone(p) /\ DescriptorLeft
    /\ unlinking' = [path |-> p, fd |-> fresh, closed |-> FALSE]
    /\ fds' = fds \cup {fresh}
    /\ fileInfoPath_' = createFileInfo(p, fresh)
    /\ UNCHANGED <<geometry, store, meta, handles, stat, running, answer>>

UnlinkClose ==
    /\ running /\ unlinking # NoUnlink /\ ~unlinking.closed
    /\ IF ~CanReadInfo(unlinking.fd) THEN Exit
       ELSE /\ fds' = fds \ {unlinking.fd}
            /\ unlinking' = [unlinking EXCEPT !.closed = TRUE]
            /\ UNCHANGED <<geometry, store, meta, fileInfoPath_, handles, stat, running, answer>>

UnlinkEndDestroys == \* mutant: the entry is cleared after the close()
    /\ running /\ unlinking.closed
    /\ meta' = [meta EXCEPT ![unlinking.path] = NoMeta]
    /\ fileInfoPath_' = destroyFileInfo(unlinking.fd)
    /\ unlinking' = NoUnlink
    /\ UNCHANGED <<geometry, store, fds, handles, stat, running, answer>>
UnlinkEnd ==
    /\ running /\ unlinking.closed
    /\ meta' = [meta EXCEPT ![unlinking.path] = NoMeta]
    /\ unlinking' = NoUnlink
    /\ UNCHANGED <<geometry, store, fds, fileInfoPath_, handles, stat, running, answer>>

(* ncfs_destroy() and a new process. *)
Remount ==
    /\ running /\ stat = NoStat /\ unlinking = NoUnlink
    /\ \A h \in Descriptors : handles[h] = NoPath
    /\ owner = NoPath \/ Allowed("shared")
    /\ fds' = {}
    /\ fileInfoPath_' = [fd \in Descriptors |-> NoPath]
    /\ bigtempbuf' = ZeroBlock /\ bigtempbuf_counter' = bigtempbuf_maxcount
    /\ owner' = NoPath
    /\ UNCHANGED <<geometry, block, used, writes, meta, handles, stat, unlinking, running, answer>>

Next ==
    \/ \E p \in Paths : Create(p) \/ Open(p) \/ StatStart(p) \/ UnlinkStart(p)
    \/ \E h \in Descriptors :
          \/ Release(h)
          \/ \E offset \in 0 .. MaxLength - 1, n \in 1 .. MaxRequest :
                Write(h, offset, n) \/ Read(h, offset, n)
    \/ StatEnd \/ UnlinkClose \/ UnlinkEnd \/ Remount

Spec == Init /\ [][Next]_vars

-----------------------------------------------------------------------------
(***************************************************************************)
(* A handle of the kernel finds in the table the file it was opened for,   *)
(* whatever other threads open, close and remove meanwhile: descriptors    *)
(* are handed out again, entries are not cleared when they are.            *)
(***************************************************************************)
HandleKeepsItsPath ==
    \A h \in Descriptors : handles[h] # NoPath => fileInfoPath_[h] = handles[h]

(***************************************************************************)
(* For users that keep to Usage the mounted directory is a file system:    *)
(* the handlers implement FileStore, as long as the process runs.          *)
(***************************************************************************)
Files == INSTANCE FileStore WITH files <- Contents
ImplementsFileStore == Files!Spec

(***************************************************************************)
(* ncfs_read returns what was asked for ("Read should return exactly the   *)
(* number of bytes requested except on EOF or error").                     *)
(***************************************************************************)
ReadsExactly ==
    [][\A h \in Descriptors, offset \in 0 .. MaxLength - 1, n \in 1 .. MaxRequest :
          Read(h, offset, n) /\ running' =>
             answer'.count = Min({n, Length(fileInfoPath_[h]) - offset})]_vars

(***************************************************************************)
(* No request ends the process ("@return: 0 for success; -1 for error").   *)
(***************************************************************************)
KeepsServing == running
=============================================================================
