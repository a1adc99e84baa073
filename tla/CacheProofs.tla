----------------------------- MODULE CacheProofs -------------------------------
(***************************************************************************)
(* What the cache keeps, for every number of clients, buffers, pages,      *)
(* calls and opens.                                                        *)
(***************************************************************************)
EXTENDS Cache, FiniteSetTheorems, SequenceTheorems, TLAPS

Contents == Values \cup {First}
Offsets == 0 .. bufferSize - 1
Starts == {a \in Nat : a % bufferSize = 0}

(* A BufferTemplate: what it has read or been given are contents of files, *)
(* and a dirty block lies in a page that it has.                           *)
BufferShape ==
    [startAddress : {-1} \cup Starts, contentSize : {0, bufferSize}, dirtyBit : BOOLEAN,
     dirtyBlock : SUBSET Nat, fetched : SUBSET Pages, content : [Offsets -> Nat]]

BufferOK(B) ==
    /\ B \in BufferShape
    /\ B.contentSize # 0 => B.startAddress \in Starts
    /\ B.dirtyBit = (B.dirtyBlock # {})
    /\ \A i \in Offsets : i \div pageSize \in B.fetched => B.content[i] \in Contents
    /\ \A i \in Offsets : i \div blockSize \in B.dirtyBlock => i \div pageSize \in B.fetched

Requests ==
    {r \in [op : {"read", "write"}, path : Paths, offset : Nat, size : Nat \ {0}, val : Nat] :
        r.offset + r.size - 1 <= Last /\ (r.op = "write" => r.val \in Values)}

(* Where the holder of cacheLock_ is between lockMutex() and unlockMutex() *)
Holding == {"access", "writeBack", "search", "fetch", "wait", "prefetch"}
Flushing == {"flushOpen", "flushClose", "flushDestroy"}
Waiting == {"waitOpen", "waitDestroy"}

DiskType ==
    /\ disk \in [Paths -> [Addresses -> Contents]] /\ path \in Paths
    /\ buffer \in [Buffers -> BufferShape]
    /\ \A b \in Buffers : BufferOK(buffer[b])

ClientType ==
    /\ users \in Nat /\ opens \in 1 .. MaxOpens
    /\ users + (IF pc \in {"flushOpen", "waitOpen"} THEN 1 ELSE 0) <= opens
    /\ pc \in {"free", "join"} \cup Holding \cup Flushing \cup Waiting
    /\ req \in [Clients -> Requests \cup {NoRequest}]
    /\ cur \in Buffers /\ at \in Nat /\ done \in 0 .. Last + 1
    /\ pc \in Holding => /\ holder \in Clients /\ req[holder] # NoRequest
                         /\ done < req[holder].size

PoolType ==
    /\ locked \in [Buffers -> BOOLEAN]
    /\ queue \in Seq(Jobs) /\ ended \in BOOLEAN
    /\ worker \in [Workers -> [pc : {"fetch", "blocking", "waiting", "woken", "busy", "ended"},
                               job : Jobs \cup {NoJob}]]

TypeInv == DiskType /\ ClientType /\ PoolType

-----------------------------------------------------------------------------
(* A number has one quotient. *)
LEMMA Quotient ==
    ASSUME NEW s \in Nat \ {0}, NEW k \in Int, NEW t \in 0 .. s - 1
    PROVE  (s * k + t) \div s = k
<1> DEFINE c == s * k + t
           j == c \div s
           r == c % s
<1>1. c \in Int /\ j \in Int /\ r \in 0 .. s - 1 /\ c = s * j + r
  OBVIOUS
<1>2. s * (k - j) = r - t
  BY <1>1
<1>3. CASE k > j
  <2>1. s * (k - j) >= s
    BY <1>3, <1>1
  <2> QED BY <2>1, <1>1, <1>2
<1>4. CASE k < j
  <2>1. s * (k - j) <= -s
    BY <1>4, <1>1
  <2> QED BY <2>1, <1>1, <1>2
<1> QED BY <1>1, <1>3, <1>4

(* The quotient by a product. *)
LEMMA QuotientTwice ==
    ASSUME NEW s \in Nat \ {0}, NEW k \in Nat \ {0}, NEW x \in Nat
    PROVE  x \div (s * k) = (x \div s) \div k
<1> DEFINE q == x \div s
           r == x % s
           u == q \div k
           v == q % k
<1>1. q \in Nat /\ r \in 0 .. s - 1 /\ x = s * q + r
  OBVIOUS
<1>2. u \in Nat /\ v \in 0 .. k - 1 /\ q = k * u + v
  BY <1>1
<1> HIDE DEF q, r, u, v
<1>3. s * v + r \in 0 .. (s * k) - 1
  <2>1. s * v <= s * (k - 1) /\ s * v >= 0 /\ s * v \in Int
    BY <1>2
  <2>2. s * (k - 1) = s * k - s /\ s * k \in Int
    OBVIOUS
  <2> QED BY <2>1, <2>2, <1>1
<1>4. x = (s * k) * u + (s * v + r)
  <2>1. s * q = s * (k * u) + s * v
    BY <1>1, <1>2
  <2>2. s * (k * u) = (s * k) * u
    BY <1>2
  <2>3. s * (k * u) \in Int /\ s * v \in Int
    BY <1>2
  <2> QED BY <2>1, <2>2, <2>3, <1>1
<1>5. s * k \in Nat \ {0}
  OBVIOUS
<1>6. x \div (s * k) = u
  <2> DEFINE S == s * k
             T == s * v + r
  <2>1. S \in Nat \ {0} /\ T \in 0 .. S - 1 /\ u \in Int /\ x = S * u + T
    BY <1>2, <1>3, <1>4, <1>5
  <2> HIDE DEF S, T
  <2>2. (S * u + T) \div S = u
    BY <2>1, Quotient
  <2>3. x \div S = u
    BY <2>1, <2>2
  <2> QED BY <2>3 DEF S
<1> QED BY <1>6 DEF u, q

(* A multiple has a factor. *)
LEMMA Factor ==
    ASSUME NEW s \in Nat \ {0}, NEW x \in Nat, x % s = 0
    PROVE  x \div s \in Nat /\ x = s * (x \div s)
OBVIOUS

(* Between two multiples of s lies a whole s. *)
LEMMA WholeBuffer ==
    ASSUME NEW s \in Nat \ {0}, NEW x \in Nat, NEW y \in Nat, x % s = 0, y % s = 0, x < y
    PROVE  x + s <= y
<1> DEFINE u == x \div s
           v == y \div s
<1>1. u \in Nat /\ v \in Nat /\ x = s * u /\ y = s * v
  BY Factor
<1> HIDE DEF u, v
<1>2. u < v
  <2>1. CASE u >= v
    <3>1. s * u >= s * v
      BY <2>1, <1>1
    <3> QED BY <3>1, <1>1
  <2> QED BY <2>1, <1>1
<1>3. s * (u + 1) <= s * v
  BY <1>1, <1>2
<1>4. s * (u + 1) = s * u + s
  BY <1>1
<1> QED BY <1>1, <1>3, <1>4

(* The start of the buffer that an offset is in. *)
LEMMA StartOf ==
    ASSUME NEW s \in Nat \ {0}, NEW x \in Nat
    PROVE  (x \div s) * s \in Nat /\ ((x \div s) * s) % s = 0
<1> DEFINE k == x \div s
<1>1. k \in Nat
  OBVIOUS
<1> HIDE DEF k
<1>2. k * s \in Nat /\ k * s = s * k + 0
  BY <1>1
<1>3. (s * k + 0) \div s = k
  BY <1>1, Quotient
<1>4. k * s = s * ((k * s) \div s) + ((k * s) % s) /\ (k * s) % s \in Nat
  BY <1>2
<1>5. (k * s) % s = 0
  <2>1. (k * s) \div s = k
    BY <1>2, <1>3
  <2>2. k * s = s * k + ((k * s) % s)
    BY <1>4, <2>1
  <2> DEFINE z == s * k
             r == (k * s) % s
  <2>3. z \in Nat /\ r \in Nat /\ z = z + r
    BY <1>1, <1>2, <1>4, <2>2
  <2> HIDE DEF z, r
  <2>4. r = 0
    BY <2>3
  <2> QED BY <2>4 DEF r
<1> QED BY <1>2, <1>5 DEF k

(* The sizes, without the sets the assumption writes them in. *)
LEMMA Sizes ==
    /\ bufferSize \in Nat \ {0} /\ pageSize \in Nat \ {0} /\ blockSize \in Nat \ {0}
    /\ Last \in Nat /\ First \in Nat /\ Values \subseteq Nat
    /\ numOfBuffer \in Nat /\ numOfBuffer >= 2
    /\ Buffers = 0 .. numOfBuffer - 1 /\ 0 \in Buffers
<1>1. bufferSize \in Nat \ {0} /\ pageSize \in Nat \ {0} /\ blockSize \in Nat \ {0}
  BY CacheAssumption
<1> QED BY <1>1, CacheAssumption DEF Buffers

(* Offsets of one block are in one page, and the page is one of the buffer.*)
LEMMA BlocksAndPages ==
    /\ \A x, y \in Nat : x \div blockSize = y \div blockSize => x \div pageSize = y \div pageSize
    /\ \A x \in Offsets : x \div pageSize \in Pages
    /\ \A x \in Offsets : x \div blockSize \in Nat
<1> USE Sizes
<1>1. \A x, y \in Nat : x \div blockSize = y \div blockSize => x \div pageSize = y \div pageSize
  <2> DEFINE k == pageSize \div blockSize
  <2>1. k \in Nat /\ pageSize = blockSize * k
    BY Factor, CacheAssumption
  <2>2. k # 0
    BY <2>1
  <2> HIDE DEF k
  <2> SUFFICES ASSUME NEW x \in Nat, NEW y \in Nat, x \div blockSize = y \div blockSize
               PROVE  x \div pageSize = y \div pageSize
    OBVIOUS
  <2>3. x \div (blockSize * k) = (x \div blockSize) \div k
    BY <2>1, <2>2, QuotientTwice
  <2>4. y \div (blockSize * k) = (y \div blockSize) \div k
    BY <2>1, <2>2, QuotientTwice
  <2>5. x \div pageSize = (x \div blockSize) \div k /\ y \div pageSize = (y \div blockSize) \div k
    BY <2>1, <2>3, <2>4, Zenon
  <2> QED BY <2>5, Zenon
<1>2. \A x \in Offsets : x \div pageSize \in Pages
  <2> DEFINE m == bufferSize \div pageSize
  <2>1. m \in Nat /\ bufferSize = pageSize * m
    BY Factor, CacheAssumption
  <2> SUFFICES ASSUME NEW x \in Offsets
               PROVE  x \div pageSize \in 0 .. m - 1
    BY DEF Pages
  <2> HIDE DEF m
  <2> DEFINE q == x \div pageSize
  <2>2. x \in Nat /\ x < bufferSize
    BY DEF Offsets
  <2>3. q \in Nat /\ x >= pageSize * q
    BY <2>2
  <2> HIDE DEF q
  <2>4. q < m
    <3>1. CASE q >= m
      <4>1. pageSize * q >= pageSize * m
        BY <3>1, <2>1, <2>3
      <4>2. pageSize * q \in Int /\ pageSize * m \in Int
        BY <2>1, <2>3
      <4> QED BY <4>1, <4>2, <2>1, <2>2, <2>3
    <3> QED BY <3>1, <2>1, <2>3
  <2> QED BY <2>1, <2>3, <2>4 DEF q
<1>3. \A x \in Offsets : x \div blockSize \in Nat
  BY DEF Offsets
<1> QED BY <1>1, <1>2, <1>3

(* A buffer that has an address of a file is a part of the file.           *)
LEMMA InFile ==
    ASSUME NEW B, BufferOK(B), NEW o \in Addresses, containOffset(B, o)
    PROVE  /\ B.startAddress \in Starts /\ B.contentSize = bufferSize
           /\ Extent(B) \subseteq Addresses
           /\ Extent(B) = B.startAddress .. B.startAddress + bufferSize - 1
           /\ \A a \in Extent(B) : a - B.startAddress \in Offsets
           /\ \A i \in Offsets : B.startAddress + i \in Extent(B)
<1>1. B.contentSize \in {0, bufferSize} /\ B.startAddress \in {-1} \cup Starts
  BY DEF BufferOK, BufferShape
<1>2. B.contentSize # 0
  BY <1>1, Sizes DEF containOffset, Extent, Addresses, Starts
<1>3. B.startAddress \in Starts /\ B.contentSize = bufferSize
  BY <1>1, <1>2 DEF BufferOK
<1>4. B.startAddress < Last + 1
  BY <1>3, Sizes DEF containOffset, Extent, Addresses, Starts
<1>5. B.startAddress + bufferSize <= Last + 1
  BY <1>3, <1>4, Sizes, CacheAssumption, WholeBuffer DEF Starts
<1> QED BY <1>3, <1>5, Sizes, SMTT(30) DEF Extent, Addresses, Offsets, Starts

(* What an access transfers is in the buffer and in the range asked for.   *)
LEMMA Parts ==
    ASSUME NEW B, BufferOK(B), NEW o \in Addresses, containOffset(B, o),
           NEW s \in Nat \ {0}, NEW a \in Part(B, s, o)
    PROVE  /\ a \in Addresses /\ a - B.startAddress \in Offsets
           /\ PageOf(B, a) \in Pages /\ BlockOf(B, a) \in Nat
           /\ a \in o .. o + s - 1
<1>1. a \in Extent(B) /\ a \in o .. o + s - 1
  BY DEF Part
<1>2. a \in Addresses /\ a - B.startAddress \in Offsets
  BY <1>1, InFile
<1> QED BY <1>1, <1>2, BlocksAndPages DEF PageOf, BlockOf

(* What fetchPages() leaves: the pages of the access are there, those that *)
(* it read as they are on the disk.                                        *)
LEMMA FetchPagesIs ==
    ASSUME NEW B, BufferOK(B), NEW o \in Addresses, containOffset(B, o),
           NEW s \in Nat \ {0}, NEW op \in {"read", "write"}, DiskType
    PROVE  LET F == fetchPages(B, op, s, o)
               new == PagesToRead(B, op, s, o)
           IN  /\ F \in BufferShape
               /\ F.startAddress = B.startAddress /\ F.contentSize = B.contentSize
               /\ F.dirtyBit = B.dirtyBit /\ F.dirtyBlock = B.dirtyBlock
               /\ F.fetched = B.fetched \cup {PageOf(B, a) : a \in Part(B, s, o)}
               /\ \A i \in Offsets : F.content[i] =
                      IF i \div pageSize \in new THEN disk[path][B.startAddress + i] ELSE B.content[i]
               /\ \A i \in Offsets : F.content[i] # B.content[i] => F.content[i] \in Contents
               /\ \A i \in Offsets : i \div pageSize \in new => F.content[i] \in Contents
<1> DEFINE F == fetchPages(B, op, s, o)
           new == PagesToRead(B, op, s, o)
           content == [i \in DOMAIN B.content |->
                          IF \E p \in new : B.startAddress + i \in InPage(B, p)
                          THEN disk[path][B.startAddress + i] ELSE B.content[i]]
<1>1. B \in BufferShape /\ DOMAIN B.content = Offsets
  BY DEF BufferOK, BufferShape
<1>2. F = [B EXCEPT !.fetched = @ \cup {PageOf(B, a) : a \in Part(B, s, o)}, !.content = content]
  BY DEF fetchPages
<1>3. \A i \in Offsets : (\E p \in new : B.startAddress + i \in InPage(B, p)) <=> i \div pageSize \in new
  <2> SUFFICES ASSUME NEW i \in Offsets
               PROVE  (\E p \in new : B.startAddress + i \in InPage(B, p)) <=> i \div pageSize \in new
    OBVIOUS
  <2>1. B.startAddress + i \in Extent(B) /\ B.startAddress \in Nat
    BY InFile DEF Starts
  <2>2. (B.startAddress + i) - B.startAddress = i
    BY <2>1 DEF Offsets
  <2>3. PageOf(B, B.startAddress + i) = i \div pageSize
    BY <2>2 DEF PageOf
  <2> QED BY <2>1, <2>3 DEF InPage
<1>4. \A i \in Offsets : disk[path][B.startAddress + i] \in Contents /\ disk[path][B.startAddress + i] \in Nat
  <2>1. \A i \in Offsets : B.startAddress + i \in Addresses
    BY InFile
  <2> QED BY <2>1, Sizes DEF DiskType, Contents
<1>5. content \in [Offsets -> Nat]
  BY <1>1, <1>4 DEF BufferShape
<1>6. {PageOf(B, a) : a \in Part(B, s, o)} \subseteq Pages
  BY Parts
<1>7. F \in BufferShape
  BY <1>1, <1>2, <1>5, <1>6 DEF BufferShape
<1>8. /\ F.startAddress = B.startAddress /\ F.contentSize = B.contentSize
      /\ F.dirtyBit = B.dirtyBit /\ F.dirtyBlock = B.dirtyBlock
      /\ F.fetched = B.fetched \cup {PageOf(B, a) : a \in Part(B, s, o)}
      /\ F.content = content
  BY <1>1, <1>2 DEF BufferShape
<1>9. \A i \in Offsets : F.content[i] =
          IF i \div pageSize \in new THEN disk[path][B.startAddress + i] ELSE B.content[i]
  <2> HIDE DEF new, F
  <2> QED BY <1>1, <1>3, <1>8
<1> HIDE DEF F, new, content
<1>10. \A i \in Offsets : /\ F.content[i] # B.content[i] => F.content[i] \in Contents
                          /\ i \div pageSize \in new => F.content[i] \in Contents
  BY <1>4, <1>9
<1> QED BY <1>7, <1>8, <1>9, <1>10 DEF F, new

(* A buffer from which a read has transferred. *)
LEMMA ReadFromOK ==
    ASSUME NEW B, BufferOK(B), NEW o \in Addresses, containOffset(B, o),
           NEW s \in Nat \ {0}, DiskType
    PROVE  BufferOK(fetchPages(B, "read", s, o))
<1> DEFINE F == fetchPages(B, "read", s, o)
           new == PagesToRead(B, "read", s, o)
           pages == {PageOf(B, a) : a \in Part(B, s, o)}
<1>1. new = pages \ B.fetched
  BY DEF PagesToRead
<1>2. /\ F \in BufferShape
      /\ F.startAddress = B.startAddress /\ F.contentSize = B.contentSize
      /\ F.dirtyBit = B.dirtyBit /\ F.dirtyBlock = B.dirtyBlock
      /\ F.fetched = B.fetched \cup pages
      /\ \A i \in Offsets : F.content[i] # B.content[i] => F.content[i] \in Contents
      /\ \A i \in Offsets : i \div pageSize \in new => F.content[i] \in Contents
  BY FetchPagesIs
<1> HIDE DEF F, new, pages
<1>3. \A i \in Offsets : i \div pageSize \in F.fetched => F.content[i] \in Contents
  BY <1>1, <1>2 DEF BufferOK
<1>4. BufferOK(F)
  BY <1>2, <1>3 DEF BufferOK
<1> QED BY <1>4 DEF F

(* A buffer to which a write has transferred: a page that was not read is  *)
(* written as a whole.                                                     *)
LEMMA WriteToOK ==
    ASSUME NEW B, BufferOK(B), NEW o \in Addresses, containOffset(B, o),
           NEW s \in Nat \ {0}, NEW v \in Values, DiskType
    PROVE  BufferOK(writeToBuffer(B, s, o, v))
<1> DEFINE F == fetchPages(B, "write", s, o)
           W == writeToBuffer(B, s, o, v)
           new == PagesToRead(B, "write", s, o)
           part == Part(B, s, o)
           pages == {PageOf(B, a) : a \in part}
           blocks == {BlockOf(B, a) : a \in part}
           content == [i \in DOMAIN F.content |->
                          IF B.startAddress + i \in part THEN v ELSE F.content[i]]
<1>1. /\ F \in BufferShape
      /\ F.startAddress = B.startAddress /\ F.contentSize = B.contentSize
      /\ F.dirtyBit = B.dirtyBit /\ F.dirtyBlock = B.dirtyBlock
      /\ F.fetched = B.fetched \cup pages
      /\ \A i \in Offsets : F.content[i] # B.content[i] => F.content[i] \in Contents
      /\ \A i \in Offsets : i \div pageSize \in new => F.content[i] \in Contents
  BY FetchPagesIs
<1>2. W = [F EXCEPT !.content = content, !.dirtyBlock = @ \cup blocks, !.dirtyBit = TRUE]
  BY DEF writeToBuffer
<1>3. \A p \in pages \ B.fetched : p \in new \/ InPage(B, p) \subseteq part
  BY DEF PagesToRead
<1>4. o \in part
  BY DEF Part, containOffset, Addresses
<1>5. blocks \subseteq Nat /\ blocks # {}
  BY <1>4, Parts
<1>6. \A i \in Offsets : B.startAddress + i \in Extent(B) /\ PageOf(B, B.startAddress + i) = i \div pageSize
  <2> SUFFICES ASSUME NEW i \in Offsets
               PROVE  B.startAddress + i \in Extent(B) /\ PageOf(B, B.startAddress + i) = i \div pageSize
    OBVIOUS
  <2>1. B.startAddress + i \in Extent(B) /\ B.startAddress \in Nat
    BY InFile DEF Starts
  <2>2. (B.startAddress + i) - B.startAddress = i
    BY <2>1 DEF Offsets
  <2> QED BY <2>1, <2>2 DEF PageOf
<1>7. \A i \in Offsets : i \div pageSize \in pages \ B.fetched =>
          i \div pageSize \in new \/ B.startAddress + i \in part
  BY <1>3, <1>6 DEF InPage
<1>8. \A i \in Offsets : i \div blockSize \in blocks => i \div pageSize \in pages
  <2> SUFFICES ASSUME NEW i \in Offsets, NEW a \in part, i \div blockSize = BlockOf(B, a)
               PROVE  i \div pageSize = PageOf(B, a)
    OBVIOUS
  <2>1. a - B.startAddress \in Nat /\ i \in Nat
    BY Parts, Sizes DEF Offsets
  <2> QED BY <2>1, BlocksAndPages DEF BlockOf, PageOf
<1> HIDE DEF new, part, pages, blocks, F, W
<1>9. content \in [Offsets -> Nat] /\ \A i \in Offsets : content[i] = IF B.startAddress + i \in part THEN v ELSE F.content[i]
  BY <1>1, Sizes DEF BufferShape
<1> HIDE DEF content
<1>10. /\ W \in BufferShape
       /\ W.startAddress = B.startAddress /\ W.contentSize = B.contentSize
       /\ W.dirtyBit = TRUE /\ W.dirtyBlock = B.dirtyBlock \cup blocks
       /\ W.fetched = B.fetched \cup pages /\ W.content = content
  BY <1>1, <1>2, <1>5, <1>9 DEF BufferShape
<1>11. v \in Contents
  BY DEF Contents
<1>12. \A i \in Offsets : i \div pageSize \in W.fetched => W.content[i] \in Contents
  <2> SUFFICES ASSUME NEW i \in Offsets, i \div pageSize \in W.fetched
               PROVE  content[i] \in Contents
    BY <1>10
  <2>1. CASE B.startAddress + i \in part
    BY <2>1, <1>9, <1>11
  <2>2. CASE B.startAddress + i \notin part
    <3>1. content[i] = F.content[i]
      BY <2>2, <1>9
    <3>2. i \div pageSize \in B.fetched => B.content[i] \in Contents
      BY DEF BufferOK
    <3> QED BY <2>2, <3>1, <3>2, <1>1, <1>7, <1>10
  <2> QED BY <2>1, <2>2
<1>13. \A i \in Offsets : i \div blockSize \in W.dirtyBlock => i \div pageSize \in W.fetched
  BY <1>8, <1>10 DEF BufferOK
<1>14. BufferOK(W)
  BY <1>5, <1>10, <1>12, <1>13 DEF BufferOK
<1> QED BY <1>14 DEF W

(* The buffers that the workers leave. *)
LEMMA ClearedOK ==
    /\ BufferOK(clearContent)
    /\ \A o \in Nat : BufferOK([clearContent EXCEPT !.startAddress = (o \div bufferSize) * bufferSize,
                                                    !.contentSize = bufferSize])
<1>1. clearContent \in BufferShape
  BY DEF clearContent, BufferShape, Offsets
<1>2. \A o \in Nat : (o \div bufferSize) * bufferSize \in Starts
  BY Sizes, StartOf DEF Starts
<1> QED BY <1>1, <1>2 DEF BufferOK, clearContent, BufferShape

Cleaned(B) == [B EXCEPT !.dirtyBlock = {}, !.dirtyBit = FALSE]

(* A buffer that has been written back. *)
LEMMA CleanedOK ==
    ASSUME NEW B, BufferOK(B)
    PROVE  BufferOK(Cleaned(B))
<1> DEFINE C == Cleaned(B)
<1>1. B \in BufferShape
  BY DEF BufferOK
<1>2. /\ C.startAddress = B.startAddress /\ C.contentSize = B.contentSize
      /\ C.dirtyBlock = {} /\ C.dirtyBit = FALSE
      /\ C.fetched = B.fetched /\ C.content = B.content /\ C \in BufferShape
  BY <1>1 DEF BufferShape, Cleaned
<1> HIDE DEF C
<1>3. BufferOK(C)
  BY <1>2 DEF BufferOK
<1> QED BY <1>3 DEF C

-----------------------------------------------------------------------------
(* The start. *)
LEMMA TypeInit == Init => TypeInv
<1> SUFFICES ASSUME Init PROVE TypeInv
  OBVIOUS
<1> USE Sizes
<1>1. DiskType
  <2>1. buffer = [b \in Buffers |-> clearContent] /\ disk = [p \in Paths |-> [a \in Addresses |-> First]]
        /\ path \in Paths
    BY DEF Init
  <2>2. clearContent \in BufferShape
    BY ClearedOK DEF BufferOK
  <2> QED BY <2>1, <2>2, ClearedOK DEF DiskType, Contents
<1>2. ClientType
  BY CacheAssumption DEF Init, ClientType, Holding, Flushing, Waiting
<1>3. PoolType
  <2>1. worker = [w \in Workers |-> [pc |-> "fetch", job |-> NoJob]]
    BY DEF Init
  <2>2. locked = [b \in Buffers |-> FALSE] /\ queue = <<>> /\ ended = FALSE
    BY DEF Init
  <2>3. <<>> \in Seq(Jobs)
    OBVIOUS
  <2> QED BY <2>1, <2>2, <2>3 DEF PoolType
<1> QED BY <1>1, <1>2, <1>3 DEF TypeInv

(* Queueing a job changes nothing but the pool and the lock. *)
LEMMA PostType ==
    ASSUME PoolType, NEW b \in Buffers, NEW type \in {"WRITEBACK", "FETCH", "PREFETCH"},
           NEW o \in Nat, Post(b, type, o) \/ UNCHANGED <<locked, pool>>
    PROVE  PoolType'
<1>1. CASE Post(b, type, o)
  <2> DEFINE job == [buf |-> b, type |-> type, offset |-> o]
  <2>1. job \in Jobs
    BY DEF Jobs
  <2>2. queue' \in Seq(Jobs) /\ ended' \in BOOLEAN /\ locked' \in [Buffers -> BOOLEAN]
    BY <1>1, <2>1 DEF Post, addJob, PoolType
  <2>3. worker' = worker \/ \E w \in Workers : worker' = [worker EXCEPT ![w].pc = "woken"]
    BY <1>1 DEF Post, addJob
  <2> QED BY <2>2, <2>3 DEF PoolType
<1>2. CASE UNCHANGED <<locked, pool>>
  BY <1>2 DEF PoolType, pool
<1> QED BY <1>1, <1>2

(* A worker takes the first job. *)
LEMMA TakeType ==
    ASSUME PoolType, NEW w \in Workers, Take(w)
    PROVE  PoolType'
<1>1. Head(queue) \in Jobs /\ Tail(queue) \in Seq(Jobs)
  BY DEF Take, PoolType
<1> QED BY <1>1 DEF Take, PoolType

(* A worker that changes its place only. *)
LEMMA PlaceType ==
    ASSUME PoolType, NEW w \in Workers,
           NEW s \in {"fetch", "blocking", "waiting", "woken", "busy", "ended"},
           worker' = [worker EXCEPT ![w].pc = s],
           locked' \in [Buffers -> BOOLEAN], UNCHANGED <<queue, ended>>
    PROVE  PoolType'
<1>1. [worker[w] EXCEPT !.pc = s] \in [pc : {"fetch", "blocking", "waiting", "woken", "busy", "ended"},
                                       job : Jobs \cup {NoJob}]
  BY DEF PoolType
<1>2. worker' \in [Workers -> [pc : {"fetch", "blocking", "waiting", "woken", "busy", "ended"},
                               job : Jobs \cup {NoJob}]]
  BY <1>1 DEF PoolType
<1> QED BY <1>2 DEF PoolType

(* A worker that takes no job changes its place, and goes on as if it had  *)
(* one only when it is woken to an empty queue before the end.             *)
LEMMA NoTake ==
    ASSUME PoolType, NEW w \in Workers, ~ Take(w), FetchOneJob(w) \/ CondWait(w) \/ Woken(w)
    PROVE  /\ worker[w].pc # "busy" /\ UNCHANGED <<disk, buffer, locked, client, queue, ended>>
           /\ \E s \in {"blocking", "waiting", "busy", "ended"} :
                 /\ worker' = [worker EXCEPT ![w].pc = s] /\ worker'[w].pc = s
                 /\ s = "busy" => worker[w].pc = "woken" /\ queue = <<>> /\ ~ ended
<1> DEFINE Done(s) == /\ worker[w].pc # "busy" /\ worker' = [worker EXCEPT ![w].pc = s]
                      /\ UNCHANGED <<disk, buffer, locked, client, queue, ended>>
                      /\ s = "busy" => worker[w].pc = "woken" /\ queue = <<>> /\ ~ ended
<1>1. ASSUME NEW s, worker' = [worker EXCEPT ![w].pc = s] PROVE worker'[w].pc = s
  BY <1>1 DEF PoolType
<1>2. CASE FetchOneJob(w)
  <2>1. Done(IF ended THEN "ended" ELSE "blocking")
    BY <1>2 DEF FetchOneJob
  <2> QED BY <1>1, <2>1
<1>3. CASE CondWait(w)
  <2>1. Done("waiting")
    BY <1>3 DEF CondWait
  <2> QED BY <1>1, <2>1
<1>4. CASE Woken(w)
  <2>1. Done(IF ended THEN "ended" ELSE "busy")
    BY <1>4 DEF Woken
  <2> QED BY <1>1, <2>1
<1> QED BY <1>2, <1>3, <1>4

(* What the end of a job does to the pool. *)
LEMMA JobDone ==
    ASSUME PoolType, NEW w \in Workers, DoPrefetch(w) \/ DoWriteBack(w)
    PROVE  /\ worker[w].pc = "busy" /\ worker[w].job \in Jobs
           /\ worker' = [worker EXCEPT ![w].pc = "fetch"] /\ worker'[w].pc = "fetch"
           /\ locked' = [locked EXCEPT ![worker[w].job.buf] = FALSE]
           /\ UNCHANGED <<client, queue, ended>>
<1>1. /\ worker[w].pc = "busy" /\ worker[w].job # NoJob
      /\ worker' = [worker EXCEPT ![w].pc = "fetch"]
      /\ locked' = [locked EXCEPT ![worker[w].job.buf] = FALSE]
      /\ UNCHANGED <<client, queue, ended>>
  <2>1. CASE DoPrefetch(w)
    BY <2>1, Zenon DEF DoPrefetch
  <2>2. CASE DoWriteBack(w)
    BY <2>2, Zenon DEF DoWriteBack
  <2> QED BY <2>1, <2>2
<1>2. worker \in [Workers -> [pc : {"fetch", "blocking", "waiting", "woken", "busy", "ended"},
                              job : Jobs \cup {NoJob}]]
  BY DEF PoolType
<1>3. worker[w].job \in Jobs
  BY <1>1, <1>2
<1>4. worker'[w].pc = "fetch"
  BY <1>1, <1>2
<1> QED BY <1>1, <1>3, <1>4

(* The call of a client. *)
LEMMA TypeCall ==
    ASSUME TypeInv, NEW c \in Clients, NEW r \in Ranges,
           Call(c, "read", r[1], r[2], 0) \/ \E v \in Values : Call(c, "write", r[1], r[2], v)
    PROVE  TypeInv'
<1> USE Sizes DEF TypeInv
<1>1. DiskType' /\ PoolType'
  BY DEF Call, DiskType, PoolType, pool
<1>2. r[1] \in Nat /\ r[2] \in Nat \ {0} /\ r[1] + r[2] - 1 <= Last
  BY CacheAssumption
<1>3. PICK op \in {"read", "write"}, v \in Nat :
        Call(c, op, r[1], r[2], v) /\ (op = "write" => v \in Values)
  BY Sizes
<1> DEFINE q == [op |-> op, path |-> path, offset |-> r[1], size |-> r[2], val |-> v]
<1>4. q \in Requests
  BY <1>2, <1>3 DEF Requests, DiskType
<1>5. req' = [req EXCEPT ![c] = q] /\ req[c] = NoRequest
  BY <1>3 DEF Call
<1>6. UNCHANGED <<users, opens, pc, cur, at, done, holder>>
  BY <1>3 DEF Call
<1> HIDE DEF q
<1>7. ClientType'
  <2>1. req' \in [Clients -> Requests \cup {NoRequest}]
    BY <1>4, <1>5 DEF ClientType
  <2>2. pc \in Holding => /\ holder \in Clients /\ req'[holder] # NoRequest
                          /\ done < req'[holder].size
    BY <1>5 DEF ClientType
  <2> QED BY <1>6, <2>1, <2>2 DEF ClientType
<1> QED BY <1>1, <1>7

(* A turn of the loop of read() and write(). *)
LEMMA TypeAccess ==
    ASSUME TypeInv, Access
    PROVE  TypeInv'
<1> USE Sizes
<1> DEFINE r == req[holder]
           o == r.offset + done
           left == r.size - done
           B == buffer[cur]
           part == IF containOffset(B, o) THEN Part(B, left, o) ELSE {}
<1>1. holder \in Clients /\ r # NoRequest /\ done < r.size /\ r \in Requests
      /\ done \in Nat /\ cur \in Buffers /\ done <= Last + 1
  BY SMTT(30) DEF TypeInv, ClientType, Access, Holding
<1>2. /\ r.offset \in Nat /\ r.size \in Nat /\ r.offset + r.size - 1 <= Last
      /\ r.op \in {"read", "write"} /\ (r.op = "write" => r.val \in Values)
  BY <1>1 DEF Requests
<1>3. o \in Addresses /\ left \in Nat \ {0}
  <2> DEFINE x == r.offset
             y == r.size
  <2>1. x \in Nat /\ y \in Nat /\ x + y - 1 <= Last /\ done < y /\ done \in Nat
    BY <1>1, <1>2
  <2> SUFFICES x + done \in Addresses /\ y - done \in Nat \ {0}
    OBVIOUS
  <2> HIDE DEF x, y
  <2> QED BY <2>1 DEF Addresses
<1>4. BufferOK(B)
  BY <1>1 DEF TypeInv, DiskType
<1>5. /\ buffer' = [buffer EXCEPT ![cur] =
                  IF part = {} THEN B
                  ELSE IF r.op = "read" THEN fetchPages(B, "read", left, o)
                  ELSE writeToBuffer(B, left, o, r.val)]
      /\ done' = done + Cardinality(part)
      /\ at' = r.offset + done'
      /\ \/ done' = r.size /\ req' = [req EXCEPT ![holder] = NoRequest] /\ pc' = "free"
         \/ done' # r.size /\ pc' = "writeBack" /\ UNCHANGED <<req, holder>>
  BY Zenon DEF Access
<1>6. part \subseteq o .. o + left - 1 /\ (part # {} => containOffset(B, o))
  BY DEF Part
<1>7. Cardinality(part) \in Nat /\ Cardinality(part) <= left
  <2>1. part \in SUBSET (o .. o + left - 1)
    BY <1>6
  <2>2. o \in Int /\ left \in Nat \ {0}
    BY <1>3 DEF Addresses
  <2> HIDE DEF part, o, left
  <2>3. o + left - 1 \in Int /\ ~ o > o + left - 1 /\ (o + left - 1) - o + 1 = left
    BY <2>2
  <2>4. IsFiniteSet(o .. o + left - 1) /\ Cardinality(o .. o + left - 1) = left
    BY <2>2, <2>3, FS_Interval
  <2>5. IsFiniteSet(part) /\ Cardinality(part) <= left
    BY <2>1, <2>4, FS_Subset
  <2> QED BY <2>5, FS_CardinalityType
<1>8. BufferOK(buffer'[cur])
  <2>1. DiskType
    BY DEF TypeInv
  <2>2. buffer'[cur] = IF part = {} THEN B
                  ELSE IF r.op = "read" THEN fetchPages(B, "read", left, o)
                  ELSE writeToBuffer(B, left, o, r.val)
    BY <1>1, <1>5 DEF TypeInv, DiskType
  <2>3. part # {} => BufferOK(fetchPages(B, "read", left, o))
    BY <1>3, <1>4, <1>6, <2>1, ReadFromOK
  <2>4. part # {} /\ r.op # "read" => BufferOK(writeToBuffer(B, left, o, r.val))
    <3> SUFFICES ASSUME part # {}, r.op # "read"
                 PROVE  BufferOK(writeToBuffer(B, left, o, r.val))
      OBVIOUS
    <3>1. r.val \in Values
      BY <1>2
    <3>2. containOffset(B, o)
      BY <1>6
    <3> HIDE DEF part, o, left, B, r
    <3> QED BY <1>3, <1>4, <2>1, <3>1, <3>2, WriteToOK
  <2> HIDE DEF part, o, left, B, r
  <2> QED BY <1>4, <2>2, <2>3, <2>4
<1>9. DiskType'
  <2>1. UNCHANGED <<disk, path>>
    BY DEF Access
  <2>2. \A b \in Buffers : BufferOK(buffer'[b]) /\ buffer' \in [Buffers -> BufferShape]
    <3>1. buffer' = [buffer EXCEPT ![cur] = buffer'[cur]]
      BY <1>1, <1>5 DEF TypeInv, DiskType
    <3>2. buffer'[cur] \in BufferShape
      BY <1>8 DEF BufferOK
    <3>3. buffer' \in [Buffers -> BufferShape]
      BY <3>1, <3>2 DEF TypeInv, DiskType
    <3>4. \A b \in Buffers : b # cur => buffer'[b] = buffer[b]
      BY <3>1 DEF TypeInv, DiskType
    <3> QED BY <1>8, <3>3, <3>4 DEF TypeInv, DiskType
  <2>3. \A b \in Buffers : BufferOK(buffer[b])'
    BY <2>2 DEF BufferOK
  <2> QED BY <2>1, <2>2, <2>3 DEF TypeInv, DiskType
<1>10. PoolType'
  BY DEF TypeInv, Access, PoolType, pool
<1>11. ClientType'
  <2>1. UNCHANGED <<users, opens, cur>> /\ pc = "access"
    BY DEF Access
  <2>2. done' \in 0 .. r.size /\ done' <= Last + 1 /\ at' \in Nat
    <3> DEFINE x == r.offset
               y == r.size
               n == Cardinality(part)
    <3>1. /\ x \in Nat /\ y \in Nat /\ x + y - 1 <= Last /\ done < y /\ done \in Nat
          /\ n \in Nat /\ n <= y - done
      BY <1>1, <1>2, <1>7
    <3>2. done' = done + n /\ at' = x + done'
      BY <1>5
    <3> SUFFICES done' \in 0 .. y /\ done' <= Last + 1 /\ at' \in Nat
      OBVIOUS
    <3> HIDE DEF x, y, n
    <3> QED BY <3>1, <3>2, Sizes
  <2>3. CASE done' = r.size /\ req' = [req EXCEPT ![holder] = NoRequest] /\ pc' = "free"
    BY <2>1, <2>2, <2>3 DEF TypeInv, ClientType, Holding
  <2>4. CASE done' # r.size /\ pc' = "writeBack" /\ UNCHANGED <<req, holder>>
    <3>1. done' < r.size
      BY <2>2, <2>4, <1>2
    <3> QED BY <1>1, <2>1, <2>2, <2>4, <3>1 DEF TypeInv, ClientType, Holding
  <2> QED BY <1>5, <2>3, <2>4
<1> QED BY <1>9, <1>10, <1>11 DEF TypeInv

(* A set of positions has a least one. *)
LEMMA LeastOf ==
    ASSUME NEW S \in SUBSET Nat, S # {}
    PROVE  \E i \in S : \A j \in S : i <= j
<1>1. PICK i \in S : \A j \in S : <<j, i>> \notin OpToRel(<, Nat)
  BY WFMin, NatLessThanWellFounded
<1>2. \A j \in S : ~ j < i
  BY <1>1 DEF OpToRel
<1>3. \A j \in S : i \in Nat /\ j \in Nat
  OBVIOUS
<1>4. \A j \in S : i <= j
  BY <1>2, <1>3
<1> QED BY <1>4

(* The steps of flush(). *)
LEMMA TypeFlush ==
    ASSUME TypeInv,
           FlushWriteBack \/ FlushSearch \/ FlushFetch \/ FlushWait \/ FlushPrefetch
    PROVE  TypeInv'
<1> USE Sizes
<1>1. cur \in Buffers /\ at \in Nat /\ (cur + 1) % numOfBuffer \in Buffers
  BY DEF TypeInv, ClientType
<1>2. DiskType'
  <2>1. UNCHANGED <<disk, path, buffer>>
    BY DEF FlushWriteBack, FlushSearch, FlushFetch, FlushWait, FlushPrefetch
  <2> QED BY <2>1 DEF TypeInv, DiskType
<1>3. PoolType'
  <2>1. UNCHANGED <<locked, pool>> \/ \E b \in Buffers, type \in {"WRITEBACK", "FETCH", "PREFETCH"},
                                        o \in Nat : Post(b, type, o)
    <3>1. at + bufferSize \in Nat
      BY <1>1
    <3> QED BY <1>1, <3>1 DEF FlushWriteBack, FlushSearch, FlushFetch, FlushWait, FlushPrefetch
  <2>2. PoolType
    BY DEF TypeInv
  <2> QED BY <1>1, <2>1, <2>2, PostType
<1>4. ClientType'
  <2>1. /\ pc \in Holding /\ pc' \in Holding
        /\ UNCHANGED <<users, opens, req, at, done, holder>>
    BY DEF FlushWriteBack, FlushSearch, FlushFetch, FlushWait, FlushPrefetch, Holding
  <2>2. cur' \in Buffers
    <3>1. CASE FlushSearch
      <4>1. \A i \in 1 .. numOfBuffer - 1 : (cur + i) % numOfBuffer \in Buffers
        BY <1>1
      <4> DEFINE others == [i \in 1 .. numOfBuffer - 1 |-> (cur + i) % numOfBuffer]
      <4>2. 1 \in DOMAIN others /\ \A i \in DOMAIN others : others[i] \in Buffers
        BY <4>1
      <4>3. cur' = others[1] \/ \E i \in DOMAIN others : cur' = others[i]
        <5>1. PICK hits \in SUBSET (DOMAIN others) :
                IF hits = {} THEN cur' = others[1]
                ELSE cur' = others[CHOOSE i \in hits : \A j \in hits : i <= j]
          BY <3>1 DEF FlushSearch
        <5>2. CASE hits = {}
          BY <5>1, <5>2
        <5>3. CASE hits # {}
          <6> DEFINE n == CHOOSE i \in hits : \A j \in hits : i <= j
          <6>1. \E i \in hits : \A j \in hits : i <= j
            BY <5>3, LeastOf
          <6>2. n \in hits
            BY <6>1
          <6>3. n \in DOMAIN others /\ cur' = others[n]
            BY <6>2, <5>1, <5>3
          <6> QED BY <6>3
        <5> QED BY <5>2, <5>3
      <4> QED BY <4>2, <4>3
    <3>2. CASE ~ FlushSearch
      BY <3>2, <1>1 DEF FlushWriteBack, FlushFetch, FlushWait, FlushPrefetch
    <3> QED BY <3>1, <3>2
  <2> QED BY <2>1, <2>2 DEF TypeInv, ClientType, Holding
<1> QED BY <1>2, <1>3, <1>4 DEF TypeInv

(* Opening and closing, and the mutex: counts and phases. *)
LEMMA TypeOpenClose ==
    ASSUME TypeInv,
           \/ \E c \in Clients : lockMutex(c)
           \/ Open \/ OpenAgain \/ Close \/ Destroy \/ FlushBufferEnd \/ WaitJobs
    PROVE  TypeInv'
<1> USE Sizes
<1>1. DiskType' /\ PoolType'
  BY DEF TypeInv, DiskType, PoolType, pool, lockMutex, Open, OpenAgain, Close, Destroy, Start,
         FlushBufferEnd, WaitJobs
<1>2. ClientType'
  <2> USE DEF TypeInv, ClientType, Holding, Flushing, Waiting, Start
  <2>1. ASSUME NEW c \in Clients, lockMutex(c)
        PROVE  ClientType'
    <3>1. req[c] \in Requests
      BY <2>1 DEF lockMutex
    <3>2. 0 < req[c].size
      BY <3>1 DEF Requests
    <3> QED BY <2>1, <3>2 DEF lockMutex
  <2>2. CASE Open
    BY <2>2, CacheAssumption DEF Open
  <2>3. CASE OpenAgain
    BY <2>3, CacheAssumption DEF OpenAgain
  <2>4. CASE Close
    BY <2>4 DEF Close
  <2>5. CASE Destroy
    BY <2>5 DEF Destroy
  <2>6. CASE FlushBufferEnd
    BY <2>6 DEF FlushBufferEnd
  <2>7. CASE WaitJobs
    BY <2>7 DEF WaitJobs
  <2> QED BY <2>1, <2>2, <2>3, <2>4, <2>5, <2>6, <2>7
<1> QED BY <1>1, <1>2 DEF TypeInv

(* flushBuffer(), the end of init(), the end of the pool. *)
LEMMA TypeFlushBuffer ==
    ASSUME TypeInv, FlushBuffer \/ Opened \/ EndPool
    PROVE  TypeInv'
<1> USE Sizes
<1>1. CASE FlushBuffer
  <2>1. DiskType' /\ ClientType'
    BY <1>1 DEF FlushBuffer, TypeInv, DiskType, ClientType, Holding
  <2>2. at \in Buffers /\ (Post(at, "WRITEBACK", 0) \/ UNCHANGED <<locked, pool>>) /\ PoolType
    BY <1>1 DEF FlushBuffer, TypeInv
  <2>3. PoolType'
    BY <2>2, PostType
  <2> QED BY <2>1, <2>3 DEF TypeInv
<1>2. CASE Opened
  <2>1. DiskType' /\ PoolType'
    BY <1>2 DEF Opened, TypeInv, DiskType, PoolType, pool
  <2>2. ClientType'
    BY <1>2 DEF Opened, TypeInv, ClientType, Holding, Flushing, Waiting
  <2> QED BY <2>1, <2>2 DEF TypeInv
<1>3. CASE EndPool
  <2>1. DiskType' /\ ClientType'
    BY <1>3 DEF EndPool, TypeInv, DiskType, ClientType, Holding, Flushing, Waiting
  <2>2. PoolType'
    BY <1>3 DEF EndPool, TypeInv, PoolType
  <2> QED BY <2>1, <2>2 DEF TypeInv
<1> QED BY <1>1, <1>2, <1>3

(* A step of a worker. *)
LEMMA TypeWorker ==
    ASSUME TypeInv, NEW w \in Workers, WorkerStep(w)
    PROVE  TypeInv'
<1> USE Sizes
<1>0. PoolType /\ DiskType /\ ClientType
  BY DEF TypeInv
<1> DEFINE job == worker[w].job
<1>1. CASE FetchOneJob(w) \/ CondWait(w) \/ Woken(w)
  <2>1. UNCHANGED <<disk, buffer, client>>
    BY <1>1 DEF FetchOneJob, CondWait, Woken, Take
  <2>2. DiskType' /\ ClientType'
    BY <2>1, <1>0 DEF DiskType, ClientType, client
  <2>3. PoolType'
    <3>1. CASE Take(w)
      BY <3>1, <1>0, TakeType
    <3>2. CASE ~ Take(w)
      <4>1. PICK s \in {"blocking", "waiting", "busy", "ended"} : worker' = [worker EXCEPT ![w].pc = s]
        BY <1>0, <1>1, <3>2, NoTake
      <4>2. locked' \in [Buffers -> BOOLEAN] /\ UNCHANGED <<queue, ended>>
        BY <1>0, <1>1, <3>2, NoTake DEF PoolType
      <4> QED BY <1>0, <4>1, <4>2, PlaceType
    <3> QED BY <3>1, <3>2
  <2> QED BY <2>2, <2>3 DEF TypeInv
<1>2. CASE DoPrefetch(w) \/ DoWriteBack(w)
  <2>1. job \in Jobs
    BY <1>0, <1>2, JobDone
  <2>2. job.buf \in Buffers /\ job.offset \in Nat
    BY <2>1 DEF Jobs
  <2>3. PoolType'
    <3>1. /\ worker' = [worker EXCEPT ![w].pc = "fetch"]
          /\ locked' = [locked EXCEPT ![job.buf] = FALSE] /\ UNCHANGED <<queue, ended>>
      BY <1>0, <1>2, JobDone
    <3>2. locked' \in [Buffers -> BOOLEAN]
      BY <1>0, <3>1 DEF PoolType
    <3> QED BY <1>0, <3>1, <3>2, PlaceType
  <2>4. ClientType'
    <3>1. UNCHANGED client
      BY <1>0, <1>2, JobDone
    <3> QED BY <1>0, <3>1 DEF ClientType, client
  <2>5. disk' \in [Paths -> [Addresses -> Contents]] /\ path' \in Paths
    <3>1. path \in Paths /\ disk \in [Paths -> [Addresses -> Contents]]
      BY <1>0 DEF DiskType
    <3>2. path' = path
      BY <1>2 DEF DoPrefetch, DoWriteBack, client
    <3>3. CASE DoPrefetch(w)
      BY <3>1, <3>2, <3>3 DEF DoPrefetch
    <3>4. CASE DoWriteBack(w)
      <4> DEFINE B == buffer[job.buf]
                 new == [a \in Addresses |->
                            IF a \in Extent(B) /\ BlockOf(B, a) \in B.dirtyBlock
                            THEN B.content[a - B.startAddress] ELSE disk[path][a]]
      <4>1. disk' = [disk EXCEPT ![path] = new]
        BY <3>4, <3>1 DEF DoWriteBack
      <4>2. BufferOK(B)
        BY <1>0, <2>2 DEF DiskType
      <4>3. \A a \in Addresses : a \in Extent(B) /\ BlockOf(B, a) \in B.dirtyBlock =>
                B.content[a - B.startAddress] \in Contents
        <5> SUFFICES ASSUME NEW a \in Addresses, a \in Extent(B), BlockOf(B, a) \in B.dirtyBlock
                     PROVE  B.content[a - B.startAddress] \in Contents
          OBVIOUS
        <5>1. a - B.startAddress \in Offsets
          BY <4>2, InFile DEF containOffset
        <5> QED BY <4>2, <5>1 DEF BufferOK, BlockOf
      <4>4. new \in [Addresses -> Contents]
        BY <3>1, <4>3
      <4> QED BY <3>1, <3>2, <4>1, <4>4
    <3> QED BY <1>2, <3>3, <3>4
  <2>6. \E B : BufferOK(B) /\ buffer' = [buffer EXCEPT ![job.buf] = B]
    <3>1. CASE DoPrefetch(w)
      BY <3>1, <2>2, ClearedOK DEF DoPrefetch
    <3>2. CASE DoWriteBack(w)
      <4>1. buffer' = [buffer EXCEPT ![job.buf] = Cleaned(buffer[job.buf])]
        BY <3>2, <1>0, <2>2 DEF DoWriteBack, DiskType, BufferShape, Cleaned
      <4>2. BufferOK(Cleaned(buffer[job.buf]))
        BY <1>0, <2>2, CleanedOK DEF DiskType
      <4> QED BY <4>1, <4>2
    <3> QED BY <1>2, <3>1, <3>2
  <2>7. buffer' \in [Buffers -> BufferShape] /\ \A b \in Buffers : BufferOK(buffer'[b])
    <3>1. PICK B : BufferOK(B) /\ buffer' = [buffer EXCEPT ![job.buf] = B]
      BY <2>6
    <3>2. B \in BufferShape
      BY <3>1 DEF BufferOK
    <3> HIDE DEF job
    <3>3. buffer' \in [Buffers -> BufferShape]
      BY <1>0, <2>2, <3>1, <3>2 DEF DiskType
    <3>4. \A b \in Buffers : buffer'[b] = IF b = job.buf THEN B ELSE buffer[b]
      BY <1>0, <2>2, <3>1 DEF DiskType
    <3> QED BY <1>0, <3>1, <3>3, <3>4 DEF DiskType
  <2>8. DiskType'
    <3>1. \A b \in Buffers : BufferOK(buffer[b])'
      BY <2>7 DEF BufferOK
    <3> QED BY <2>5, <2>7, <3>1 DEF DiskType
  <2> QED BY <2>3, <2>4, <2>8 DEF TypeInv
<1> QED BY <1>1, <1>2 DEF WorkerStep

(* Every step. *)
LEMMA TypeNext == TypeInv /\ [Next]_vars => TypeInv'
<1> SUFFICES ASSUME TypeInv, [Next]_vars PROVE TypeInv'
  OBVIOUS
<1>1. CASE UNCHANGED vars
  <2>1. DiskType' /\ ClientType' /\ PoolType'
    BY <1>1 DEF TypeInv, vars, client, pool, DiskType, ClientType, PoolType
  <2> QED BY <2>1 DEF TypeInv
<1>2. CASE ClientStep
  BY <1>2, TypeAccess, TypeFlush, TypeOpenClose, TypeFlushBuffer DEF ClientStep
<1>3. CASE \E w \in Workers : WorkerStep(w)
  BY <1>3, TypeWorker
<1>4. CASE Open \/ OpenAgain \/ Close \/ Destroy
  BY <1>4, TypeOpenClose
<1>5. ASSUME NEW c \in Clients, NEW r \in Ranges,
             Call(c, "read", r[1], r[2], 0) \/ \E v \in Values : Call(c, "write", r[1], r[2], v)
      PROVE  TypeInv'
  BY <1>5, TypeCall
<1> QED BY <1>1, <1>2, <1>3, <1>4, <1>5 DEF Next, Finished

(* Types: the pages and blocks of a buffer, what its dirty bit says, and   *)
(* that no access goes beyond what was asked for or beyond the file.       *)
THEOREM TypeCorrect == Spec => []TypeOK
<1>1. TypeInv => TypeOK
  <2> SUFFICES ASSUME TypeInv PROVE TypeOK
    OBVIOUS
  <2>1. users \in 0 .. MaxOpens
    BY CacheAssumption DEF TypeInv, ClientType
  <2>2. ASSUME NEW b \in Buffers
        PROVE  /\ buffer[b].startAddress \in {-1} \cup {a \in Nat : a % bufferSize = 0}
               /\ buffer[b].contentSize \in {0, bufferSize}
               /\ buffer[b].fetched \subseteq Pages
               /\ buffer[b].dirtyBit = (buffer[b].dirtyBlock # {})
    BY DEF TypeInv, DiskType, BufferOK, BufferShape, Starts
  <2> QED BY <2>1, <2>2 DEF TypeInv, DiskType, ClientType, TypeOK, Contents
<1> QED BY <1>1, TypeInit, TypeNext, PTL DEF Spec

-----------------------------------------------------------------------------
(* flushBuffer() and emptyBuffer(): a buffer that has been looked at and is *)
(* dirty is locked for its write back; one that has been waited for is not  *)
(* dirty.                                                                  *)
EmptyInv ==
    /\ pc \in Flushing => \A b \in Buffers : b < at /\ buffer[b].dirtyBit => locked[b]
    /\ pc \in Waiting => \A b \in Buffers : /\ buffer[b].dirtyBit => locked[b]
                                            /\ b < at => ~ buffer[b].dirtyBit
    /\ pc = "join" => \A b \in Buffers : ~ buffer[b].dirtyBit

(* A job keeps a lock and adds one. *)
LEMMA PostLocks ==
    ASSUME PoolType, NEW b \in Buffers, NEW type, NEW o, Post(b, type, o)
    PROVE  locked'[b] /\ \A c \in Buffers : locked[c] => locked'[c]
BY DEF Post, PoolType

(* A worker unlocks what it has left clean. *)
LEMMA WorkerCleans ==
    ASSUME TypeInv, NEW w \in Workers, WorkerStep(w)
    PROVE  /\ UNCHANGED client
           /\ \A b \in Buffers : \/ buffer'[b] = buffer[b] /\ locked'[b] = locked[b]
                                 \/ ~ buffer'[b].dirtyBit
<1> DEFINE job == worker[w].job
<1>1. CASE DoPrefetch(w) \/ DoWriteBack(w)
  <2>1. job.buf \in Buffers
    BY <1>1 DEF TypeInv, PoolType, DoPrefetch, DoWriteBack, Jobs
  <2>2. locked' = [locked EXCEPT ![job.buf] = FALSE] /\ UNCHANGED client
    BY <1>1 DEF DoPrefetch, DoWriteBack
  <2>3. \E B : ~ B.dirtyBit /\ buffer' = [buffer EXCEPT ![job.buf] = B]
    <3>1. CASE DoPrefetch(w)
      <4> DEFINE B == [clearContent EXCEPT
                          !.startAddress = (job.offset \div bufferSize) * bufferSize,
                          !.contentSize = bufferSize]
      <4>1. buffer' = [buffer EXCEPT ![job.buf] = B]
        BY <3>1 DEF DoPrefetch
      <4>2. ~ B.dirtyBit
        BY DEF clearContent
      <4> QED BY <4>1, <4>2
    <3>2. CASE DoWriteBack(w)
      <4> DEFINE B == Cleaned(buffer[job.buf])
      <4>1. buffer' = [buffer EXCEPT ![job.buf] = B]
        BY <3>2, <2>1 DEF DoWriteBack, TypeInv, DiskType, BufferShape, Cleaned
      <4>2. ~ B.dirtyBit
        BY <2>1 DEF TypeInv, DiskType, BufferShape, Cleaned
      <4> QED BY <4>1, <4>2
    <3> QED BY <1>1, <3>1, <3>2
  <2>4. PICK B : ~ B.dirtyBit /\ buffer' = [buffer EXCEPT ![job.buf] = B]
    BY <2>3
  <2>5. \A b \in Buffers : IF b = job.buf THEN buffer'[b] = B
                           ELSE buffer'[b] = buffer[b] /\ locked'[b] = locked[b]
    BY <2>1, <2>2, <2>4 DEF TypeInv, DiskType, PoolType
  <2> QED BY <2>2, <2>4, <2>5
<1>2. CASE FetchOneJob(w) \/ CondWait(w) \/ Woken(w)
  BY <1>2 DEF FetchOneJob, CondWait, Woken, Take
<1> QED BY <1>1, <1>2 DEF WorkerStep

(* Every step keeps it, whatever the workers do and however many they are. *)
LEMMA EmptyNext == TypeInv /\ EmptyInv /\ [Next]_vars => EmptyInv'
<1> SUFFICES ASSUME TypeInv, EmptyInv, [Next]_vars PROVE EmptyInv'
  OBVIOUS
<1> USE Sizes
<1>0. cur \in Buffers /\ at \in Nat /\ PoolType
  BY DEF TypeInv, ClientType
<1>1. CASE UNCHANGED vars
  BY <1>1 DEF vars, client, EmptyInv
<1>2. CASE \/ \E c \in Clients : lockMutex(c)
           \/ Access \/ FlushWriteBack \/ FlushSearch \/ FlushFetch \/ FlushWait
           \/ FlushPrefetch \/ Opened
  <2>1. pc' \notin Flushing \cup Waiting \cup {"join"}
    BY <1>2 DEF lockMutex, Access, FlushWriteBack, FlushSearch, FlushFetch, FlushWait,
                FlushPrefetch, Opened, Flushing, Waiting
  <2> QED BY <2>1 DEF EmptyInv
<1>3. CASE Open \/ OpenAgain \/ Close \/ Destroy
  <2>1. at' = 0 /\ pc' \notin Waiting \cup {"join"}
    BY <1>3 DEF Open, OpenAgain, Close, Destroy, Start, Waiting
  <2>2. \A b \in Buffers : ~ b < at'
    BY <2>1
  <2> QED BY <2>1, <2>2 DEF EmptyInv
<1>4. CASE FlushBuffer
  <2>1. at \in Buffers /\ at' = at + 1 /\ UNCHANGED <<pc, buffer>> /\ pc \in Flushing
        /\ (IF buffer[at].dirtyBit THEN Post(at, "WRITEBACK", 0) ELSE UNCHANGED <<locked, pool>>)
    BY <1>4 DEF FlushBuffer, Flushing
  <2>2. \A b \in Buffers : locked[b] => locked'[b]
    BY <1>0, <2>1, PostLocks
  <2>3. buffer[at].dirtyBit => locked'[at]
    BY <1>0, <2>1, PostLocks
  <2>4. \A b \in Buffers : b < at' => b < at \/ b = at
    BY <1>0, <2>1
  <2>5. \A b \in Buffers : b < at' /\ buffer[b].dirtyBit => locked'[b]
    BY <2>1, <2>2, <2>3, <2>4 DEF EmptyInv
  <2>6. pc \notin Waiting \cup {"join"}
    BY <2>1 DEF Flushing, Waiting
  <2> QED BY <2>1, <2>5, <2>6 DEF EmptyInv
<1>5. CASE FlushBufferEnd
  <2>1. \A b \in Buffers : b < at /\ ~ b < at'
    BY <1>5 DEF FlushBufferEnd
  <2>2. pc \in Flushing /\ UNCHANGED <<buffer, locked>> /\ pc' \in {"waitOpen", "waitDestroy", "free"}
    BY <1>5 DEF FlushBufferEnd, Flushing
  <2>3. pc' \notin Flushing \cup {"join"}
    BY <2>2 DEF Flushing
  <2> QED BY <2>1, <2>2, <2>3 DEF EmptyInv
<1>6. CASE WaitJobs
  <2>1. \A b \in Buffers : b < at' => b < at \/ b = at
    BY <1>0, <1>6 DEF WaitJobs
  <2>2. ~ locked[at] /\ pc \in Waiting /\ UNCHANGED <<buffer, locked, pc>>
    BY <1>6 DEF WaitJobs, Waiting
  <2>3. pc \notin Flushing \cup {"join"}
    BY <2>2 DEF Flushing, Waiting
  <2> QED BY <2>1, <2>2, <2>3 DEF EmptyInv
<1>7. CASE EndPool
  <2>1. pc \in Waiting /\ UNCHANGED buffer /\ pc' = "join" /\ \A b \in Buffers : b < at
    BY <1>7 DEF EndPool, Waiting
  <2>2. pc' \notin Flushing \cup Waiting
    BY <2>1 DEF Flushing, Waiting
  <2> QED BY <2>1, <2>2 DEF EmptyInv
<1>8. ASSUME NEW w \in Workers, WorkerStep(w)
      PROVE  EmptyInv'
  BY <1>8, WorkerCleans DEF client, EmptyInv
<1>9. ASSUME NEW c \in Clients, NEW r \in Ranges,
             Call(c, "read", r[1], r[2], 0) \/ \E v \in Values : Call(c, "write", r[1], r[2], v)
      PROVE  EmptyInv'
  <2>1. UNCHANGED <<pc, at, buffer, locked>>
    BY <1>9 DEF Call
  <2> QED BY <2>1 DEF EmptyInv
<1> QED BY <1>1, <1>2, <1>3, <1>4, <1>5, <1>6, <1>7, <1>8, <1>9 DEF Next, ClientStep, Finished

(* When the buffers have been emptied for another file or for the end, the *)
(* write backs have been done, whatever the workers did in the meantime.   *)
THEOREM EmptiedToDiskHolds == Spec => []EmptiedToDisk
<1>1. Init => EmptyInv
  BY DEF Init, EmptyInv, Flushing, Waiting
<1>2. TypeInv /\ EmptyInv => EmptiedToDisk
  BY Sizes DEF EmptyInv, EmptiedToDisk, Waiting
<1> QED BY <1>1, <1>2, TypeInit, TypeNext, EmptyNext, PTL DEF Spec

-----------------------------------------------------------------------------
(* The jobs of a pool with one worker: each is for a buffer of its own,    *)
(* locked for it, and the worker is woken for a job or for the end.        *)
JobsInv ==
    /\ \A i \in DOMAIN queue : locked[queue[i].buf]
    /\ \A i, j \in DOMAIN queue : i # j => queue[i].buf # queue[j].buf
    /\ \A w \in Workers : worker[w].pc = "busy" =>
          /\ worker[w].job \in Jobs /\ locked[worker[w].job.buf]
          /\ \A i \in DOMAIN queue : queue[i].buf # worker[w].job.buf
    /\ \A w \in Workers : worker[w].pc = "woken" => queue # <<>> \/ ended

(* A job is queued for a buffer that no other one is for. *)
LEMMA PostJobs ==
    ASSUME PoolType, JobsInv, NEW b \in Buffers,
           NEW type \in {"WRITEBACK", "FETCH", "PREFETCH"}, NEW o \in Nat,
           Post(b, type, o) \/ UNCHANGED <<locked, pool>>
    PROVE  JobsInv'
<1>1. CASE UNCHANGED <<locked, pool>>
  BY <1>1 DEF JobsInv, pool
<1>2. CASE Post(b, type, o)
  <2> DEFINE job == [buf |-> b, type |-> type, offset |-> o]
             n == Len(queue)
  <2>1. queue \in Seq(Jobs) /\ job \in Jobs /\ job.buf = b
    BY DEF PoolType, Jobs
  <2>2. queue' = Append(queue, job) /\ ~ locked[b] /\ UNCHANGED ended
    BY <1>2 DEF Post, addJob
  <2> HIDE DEF job
  <2>3. /\ DOMAIN queue' = 1 .. n + 1 /\ DOMAIN queue = 1 .. n /\ n \in Nat
        /\ queue'[n + 1] = job /\ \A i \in 1 .. n : queue'[i] = queue[i] /\ queue[i] \in Jobs
        /\ queue' # <<>>
    BY <2>1, <2>2
  <2>4. \A c \in Buffers : locked'[c] <=> locked[c] \/ c = b
    BY <1>2 DEF Post, PoolType
  <2>5. \A i \in 1 .. n : queue[i].buf \in Buffers /\ queue[i].buf # b
    BY <2>2, <2>3 DEF JobsInv, Jobs
  <2>6. \A w \in Workers : /\ worker'[w].job = worker[w].job
                           /\ worker'[w].pc \in {worker[w].pc, "woken"}
    <3>1. worker' = worker \/ \E u \in Workers : worker' = [worker EXCEPT ![u].pc = "woken"]
      BY <1>2 DEF Post, addJob
    <3>2. ASSUME NEW u \in Workers, worker' = [worker EXCEPT ![u].pc = "woken"]
          PROVE  \A w \in Workers : /\ worker'[w].job = worker[w].job
                                    /\ worker'[w].pc \in {worker[w].pc, "woken"}
      BY <3>2 DEF PoolType
    <3> QED BY <3>1, <3>2
  <2>7. \A i \in DOMAIN queue' : locked'[queue'[i].buf]
    BY <2>1, <2>3, <2>4, <2>5 DEF JobsInv
  <2>8. \A i, j \in DOMAIN queue' : i # j => queue'[i].buf # queue'[j].buf
    BY <2>1, <2>3, <2>5 DEF JobsInv
  <2>9. \A w \in Workers : worker'[w].pc = "busy" =>
          /\ worker'[w].job \in Jobs /\ locked'[worker'[w].job.buf]
          /\ \A i \in DOMAIN queue' : queue'[i].buf # worker'[w].job.buf
    <3> SUFFICES ASSUME NEW w \in Workers, worker'[w].pc = "busy"
                 PROVE  /\ worker'[w].job \in Jobs /\ locked'[worker'[w].job.buf]
                        /\ \A i \in DOMAIN queue' : queue'[i].buf # worker'[w].job.buf
      OBVIOUS
    <3>1. worker[w].job \in Jobs /\ locked[worker[w].job.buf] /\ worker'[w].job = worker[w].job
          /\ \A i \in DOMAIN queue : queue[i].buf # worker[w].job.buf
      BY <2>6 DEF JobsInv
    <3>2. worker[w].job.buf \in Buffers
      BY <3>1 DEF Jobs
    <3> QED BY <2>1, <2>2, <2>3, <2>4, <3>1, <3>2
  <2> QED BY <2>3, <2>7, <2>8, <2>9 DEF JobsInv
<1> QED BY <1>1, <1>2

(* The first job of the queue becomes the job of the worker.               *)
LEMMA TakeJobs ==
    ASSUME PoolType, JobsInv, \A v, w \in Workers : v = w, NEW w \in Workers, Take(w)
    PROVE  JobsInv'
<1> DEFINE n == Len(queue)
<1>1. queue \in Seq(Jobs) /\ queue # <<>> /\ queue' = Tail(queue) /\ UNCHANGED locked
      /\ worker' = [worker EXCEPT ![w] = [pc |-> "busy", job |-> Head(queue)]]
  BY DEF Take, PoolType
<1>2. /\ n \in Nat \ {0} /\ DOMAIN queue = 1 .. n /\ DOMAIN queue' = 1 .. n - 1
      /\ \A i \in 1 .. n - 1 : queue'[i] = queue[i + 1] /\ i + 1 \in 1 .. n /\ i + 1 # 1
      /\ Head(queue) = queue[1] /\ 1 \in 1 .. n /\ queue[1] \in Jobs
  BY <1>1
<1>3. \A u \in Workers : worker'[u].pc = "busy" /\ worker'[u].job = queue[1]
  BY <1>1, <1>2 DEF PoolType
<1>4. \A i \in DOMAIN queue' : locked'[queue'[i].buf] /\ queue'[i].buf # queue[1].buf
  BY <1>1, <1>2 DEF JobsInv
<1>5. \A i, j \in DOMAIN queue' : i # j => queue'[i].buf # queue'[j].buf
  <2>1. ASSUME NEW i \in 1 .. n - 1, NEW j \in 1 .. n - 1, i # j
        PROVE  queue'[i].buf # queue'[j].buf
    <3>1. i + 1 # j + 1 /\ i + 1 \in DOMAIN queue /\ j + 1 \in DOMAIN queue
      BY <1>2, <2>1
    <3>2. queue[i + 1].buf # queue[j + 1].buf
      BY <3>1 DEF JobsInv
    <3> QED BY <1>2, <3>2
  <2> HIDE DEF n
  <2> QED BY <1>2, <2>1
<1>6. locked'[queue[1].buf]
  BY <1>1, <1>2 DEF JobsInv
<1> QED BY <1>2, <1>3, <1>4, <1>5, <1>6 DEF JobsInv

(* Every step keeps the jobs of one worker apart.                          *)
LEMMA JobsNext ==
    ASSUME \A v, w \in Workers : v = w
    PROVE  TypeInv /\ JobsInv /\ [Next]_vars => JobsInv'
<1> SUFFICES ASSUME TypeInv, JobsInv, [Next]_vars PROVE JobsInv'
  OBVIOUS
<1> USE Sizes
<1>0. PoolType /\ cur \in Buffers /\ at \in Nat /\ (cur + 1) % numOfBuffer \in Buffers
      /\ at + bufferSize \in Nat
  BY DEF TypeInv, ClientType
<1>1. CASE UNCHANGED <<locked, pool>>
  BY <1>1 DEF JobsInv, pool
<1>2. CASE FlushWriteBack \/ FlushFetch \/ FlushPrefetch \/ FlushBuffer
  <2>1. UNCHANGED <<locked, pool>> \/ \E b \in Buffers, type \in {"WRITEBACK", "FETCH", "PREFETCH"},
                                        o \in Nat : Post(b, type, o)
    BY <1>0, <1>2 DEF FlushWriteBack, FlushFetch, FlushPrefetch, FlushBuffer
  <2> QED BY <1>0, <2>1, PostJobs
<1>3. CASE EndPool
  <2>1. UNCHANGED <<queue, locked>> /\ ended' = TRUE
    BY <1>3 DEF EndPool
  <2>2. \A w \in Workers : worker'[w].job = worker[w].job
                           /\ (worker'[w].pc = "busy" => worker[w].pc = "busy")
    BY <1>0, <1>3 DEF EndPool, PoolType
  <2> QED BY <2>1, <2>2 DEF JobsInv
<1>4. ASSUME NEW w \in Workers, WorkerStep(w)
      PROVE  JobsInv'
  <2>1. CASE Take(w)
    BY <1>0, <2>1, TakeJobs
  <2>2. CASE ~ Take(w) /\ (FetchOneJob(w) \/ CondWait(w) \/ Woken(w))
    <3>1. UNCHANGED <<queue, locked, ended>>
      BY <1>0, <2>2, NoTake
    <3>2. \A u \in Workers : worker'[u].pc \in {"ended", "blocking", "waiting"}
      <4>1. worker[w].pc = "woken" /\ queue = <<>> => ended
        BY DEF JobsInv
      <4>2. worker'[w].pc \in {"ended", "blocking", "waiting"}
        BY <1>0, <2>2, <4>1, NoTake
      <4> QED BY <1>0, <4>2
    <3> QED BY <3>1, <3>2 DEF JobsInv
  <2>3. CASE DoPrefetch(w) \/ DoWriteBack(w)
    <3> DEFINE job == worker[w].job
    <3>1. /\ UNCHANGED <<queue, ended>> /\ worker[w].pc = "busy"
          /\ locked' = [locked EXCEPT ![job.buf] = FALSE]
          /\ worker' = [worker EXCEPT ![w].pc = "fetch"]
      BY <2>3 DEF DoPrefetch, DoWriteBack
    <3>2. \A u \in Workers : worker'[u].pc = "fetch"
      BY <1>0, <3>1 DEF PoolType
    <3>3. \A i \in DOMAIN queue : queue[i].buf # job.buf /\ queue[i].buf \in Buffers
      <4>1. \A i \in DOMAIN queue : queue[i] \in Jobs
        BY <1>0 DEF PoolType
      <4> QED BY <3>1, <4>1 DEF JobsInv, Jobs
    <3>4. \A i \in DOMAIN queue : locked'[queue[i].buf]
      BY <1>0, <3>1, <3>3 DEF JobsInv, PoolType
    <3> QED BY <3>1, <3>2, <3>4 DEF JobsInv
  <2> QED BY <1>4, <2>1, <2>2, <2>3 DEF WorkerStep
<1>5. CASE \/ \E c \in Clients, r \in Ranges :
                \/ Call(c, "read", r[1], r[2], 0)
                \/ \E v \in Values : Call(c, "write", r[1], r[2], v)
           \/ Open \/ OpenAgain \/ Close \/ Destroy \/ \E c \in Clients : lockMutex(c)
           \/ Access \/ FlushSearch \/ FlushWait \/ FlushBufferEnd \/ WaitJobs \/ Opened
           \/ UNCHANGED vars
  <2>1. UNCHANGED <<locked, pool>>
    BY <1>5 DEF Call, Open, OpenAgain, Close, Destroy, Start, lockMutex, Access, FlushSearch,
                FlushWait, FlushBufferEnd, WaitJobs, Opened, vars
  <2> QED BY <2>1, <1>1
<1> QED BY <1>2, <1>3, <1>4, <1>5 DEF Next, ClientStep, Finished

(* With one worker in the pool, a job is done with the lock of its buffer, *)
(* which is in no other job: nobody else changes the buffer meanwhile.     *)
THEOREM JobHasItsBufferHolds ==
    ASSUME \A v, w \in Workers : v = w
    PROVE  Spec => []JobHasItsBuffer
<1>1. Init => JobsInv
  BY DEF Init, JobsInv
<1>2. TypeInv /\ JobsInv => JobHasItsBuffer
  BY NoJobAssumption DEF JobsInv, JobHasItsBuffer
<1>3. TypeInv /\ JobsInv /\ [Next]_vars => JobsInv'
  BY JobsNext
<1> QED BY <1>1, <1>2, <1>3, TypeInit, TypeNext, PTL DEF Spec

-----------------------------------------------------------------------------
(***************************************************************************)
(* The refinement of AtomicFile, for a pool of one worker, two buffers and *)
(* one file.  What the jobs make of the buffers is foreseen (Target), so   *)
(* that it is known of two buffers whether they hold or will hold the same *)
(* range.                                                                  *)
(***************************************************************************)

(* The jobs that are queued or being done, the buffers that will hold      *)
(* another range, and the range that a buffer has when its job is done.    *)
Pending == {queue[i] : i \in DOMAIN queue}
           \cup {worker[w].job : w \in {u \in Workers : worker[u].pc = "busy"}}

Fetching(b) == \E j \in Pending : j.buf = b /\ j.type # "WRITEBACK"

Whole(o) ==
    (o \div bufferSize) * bufferSize .. (o \div bufferSize) * bufferSize + bufferSize - 1

Target(b) ==
    IF Fetching(b)
    THEN UNION {Whole(j.offset) : j \in {k \in Pending : k.buf = b /\ k.type # "WRITEBACK"}}
    ELSE Extent(buffer[b])

(* The next address of the read or write under way. *)
Wanted == req[holder].offset + done

(* A buffer that gets another range is clean; so is, or is going to be,    *)
(* every buffer but the one that is read and written.                      *)
CleanInv ==
    /\ \A b \in Buffers : Fetching(b) => ~ buffer[b].dirtyBit
    /\ \A b \in Buffers :
          buffer[b].dirtyBit /\ (b # cur \/ pc \in {"search", "fetch", "wait", "prefetch"})
              => locked[b]
    /\ pc = "prefetch" => ~ locked[cur]

(* Two buffers have the same range only for a while, clean, when a client  *)
(* has been misled by what it saw of a buffer that was being changed; the  *)
(* address that it wants is in neither of them.                            *)
TargetInv ==
    /\ pc \in Holding \ {"access"} => at = Wanted
    /\ pc \in {"writeBack", "search"} => \A b \in Buffers : at \in Target(b) => b # cur
    /\ pc = "fetch" => \A b \in Buffers : at \in Target(b) => b = cur
    /\ \A b, c \in Buffers : b # c /\ Target(b) \cap Target(c) # {} =>
          pc \in Holding /\ Wanted \notin Target(b) /\ ~ buffer[b].dirtyBit

(* What an address of a buffer counts for. *)
See(B, a) ==
    IF BlockOf(B, a) \in B.dirtyBlock THEN B.content[a - B.startAddress] ELSE disk[path][a]

(* What a buffer has read and not changed is what the disk holds. *)
SameAsDisk(B) ==
    \A a \in Extent(B) \cap Addresses :
        PageOf(B, a) \in B.fetched /\ BlockOf(B, a) \notin B.dirtyBlock =>
            B.content[a - B.startAddress] = disk[path][a]

Coherent == \A b \in Buffers : ~ Fetching(b) => SameAsDisk(buffer[b])

(* What the file that is open holds. *)
Holds(a) == Held(path, a)

(* What has been transferred so far is in the file. *)
AnswerInv ==
    /\ DOMAIN out = Clients
    /\ pc \notin Holding => holder = NoRequest
    /\ pc \in Holding =>
          /\ DOMAIN out[holder] = req[holder].offset .. Wanted - 1
          /\ \A a \in req[holder].offset .. Wanted - 1 :
                /\ out[holder][a] = Holds(a)
                /\ req[holder].op = "write" => Holds(a) = req[holder].val
    /\ \A c \in Clients : req[c] # NoRequest /\ c # holder => out[c] = <<>>

OneWorker == \A v, w \in Workers : v = w
PoolInv == TypeInv /\ JobsInv

(* A buffer has one job at a time, and is locked for it. *)
LEMMA PendingAre ==
    PoolInv /\ OneWorker =>
        /\ Pending \subseteq Jobs
        /\ \A j \in Pending : j.buf \in Buffers /\ locked[j.buf]
        /\ \A j, k \in Pending : j.buf = k.buf => j = k
<1> SUFFICES ASSUME PoolInv, OneWorker
             PROVE  /\ Pending \subseteq Jobs
                    /\ \A j \in Pending : j.buf \in Buffers /\ locked[j.buf]
                    /\ \A j, k \in Pending : j.buf = k.buf => j = k
  OBVIOUS
<1>1. queue \in Seq(Jobs)
  BY DEF PoolInv, TypeInv, PoolType
<1>2. \A i \in DOMAIN queue : queue[i] \in Jobs
  BY <1>1
<1>3. Pending \subseteq Jobs
  BY <1>2 DEF Pending, PoolInv, JobsInv
<1>4. \A j \in Pending : j.buf \in Buffers /\ locked[j.buf]
  BY <1>3 DEF Pending, PoolInv, JobsInv, Jobs
<1>5. \A j, k \in Pending : j.buf = k.buf => j = k
  BY DEF Pending, PoolInv, JobsInv, OneWorker
<1> QED BY <1>3, <1>4, <1>5

(* Queueing a job. *)
LEMMA PendingPost ==
    ASSUME PoolType, NEW b \in Buffers, NEW type \in {"WRITEBACK", "FETCH", "PREFETCH"},
           NEW o \in Nat, Post(b, type, o)
    PROVE  Pending' = Pending \cup {[buf |-> b, type |-> type, offset |-> o]}
<1> DEFINE job == [buf |-> b, type |-> type, offset |-> o]
           n == Len(queue)
<1>1. queue \in Seq(Jobs) /\ job \in Jobs
  BY DEF PoolType, Jobs
<1>2. queue' = Append(queue, job)
  BY DEF Post, addJob
<1> HIDE DEF job
<1>3. /\ DOMAIN queue' = 1 .. n + 1 /\ DOMAIN queue = 1 .. n /\ n \in Nat
      /\ queue'[n + 1] = job /\ \A i \in 1 .. n : queue'[i] = queue[i]
  BY <1>1, <1>2
<1>4. {queue'[i] : i \in DOMAIN queue'} = {queue[i] : i \in DOMAIN queue} \cup {job}
  <2>1. 1 .. n + 1 = (1 .. n) \cup {n + 1}
    BY <1>3
  <2> HIDE DEF n
  <2> QED BY <1>3, <2>1
<1>5. \A w \in Workers : /\ worker'[w].job = worker[w].job
                         /\ worker'[w].pc = "busy" <=> worker[w].pc = "busy"
  <2>1. worker' = worker \/ \E u \in {v \in Workers : worker[v].pc = "waiting"} :
                                worker' = [worker EXCEPT ![u].pc = "woken"]
    BY DEF Post, addJob
  <2>2. ASSUME NEW u \in Workers, worker[u].pc = "waiting", worker' = [worker EXCEPT ![u].pc = "woken"]
        PROVE  \A w \in Workers : /\ worker'[w].job = worker[w].job
                                  /\ worker'[w].pc = "busy" <=> worker[w].pc = "busy"
    BY <2>2 DEF PoolType
  <2> QED BY <2>1, <2>2
<1>6. {worker'[w].job : w \in {u \in Workers : worker'[u].pc = "busy"}}
        = {worker[w].job : w \in {u \in Workers : worker[u].pc = "busy"}}
  BY <1>5
<1>7. Pending' = Pending \cup {job}
  BY <1>4, <1>6 DEF Pending
<1> QED BY <1>7 DEF job

(* A worker takes a job from the queue and ends it. *)
LEMMA PendingWorker ==
    ASSUME PoolInv, OneWorker, NEW w \in Workers, WorkerStep(w)
    PROVE  \/ Pending' = Pending /\ UNCHANGED <<disk, buffer, locked>>
           \/ /\ DoPrefetch(w) \/ DoWriteBack(w)
              /\ worker[w].job \in Pending
              /\ Pending' = Pending \ {worker[w].job}
<1> DEFINE J(q) == {q[i] : i \in DOMAIN q}
           busy == {worker[u].job : u \in {v \in Workers : worker[v].pc = "busy"}}
<1>0. PoolType /\ \A u \in Workers : u = w
  BY DEF PoolInv, TypeInv, OneWorker
<1>1. queue \in Seq(Jobs)
  BY <1>0 DEF PoolType
<1>2. busy = IF worker[w].pc = "busy" THEN {worker[w].job} ELSE {}
  BY <1>0
<1>3. Pending = J(queue) \cup busy
  BY DEF Pending
<1>4. CASE Take(w) /\ (FetchOneJob(w) \/ CondWait(w) \/ Woken(w))
  <2> DEFINE n == Len(queue)
  <2>1. queue # <<>> /\ queue' = Tail(queue) /\ UNCHANGED <<disk, buffer, locked>>
        /\ worker' = [worker EXCEPT ![w] = [pc |-> "busy", job |-> Head(queue)]]
    BY <1>4 DEF Take
  <2>2. worker[w].pc # "busy"
    BY <1>4 DEF FetchOneJob, CondWait, Woken
  <2>3. /\ n \in Nat \ {0} /\ DOMAIN queue = 1 .. n /\ DOMAIN queue' = 1 .. n - 1
        /\ \A i \in 1 .. n - 1 : queue'[i] = queue[i + 1] /\ i + 1 \in 1 .. n
        /\ Head(queue) = queue[1] /\ 1 \in 1 .. n
        /\ \A i \in 1 .. n : i = 1 \/ (i - 1 \in 1 .. n - 1 /\ queue'[i - 1] = queue[i])
    BY <1>1, <2>1
  <2> HIDE DEF n
  <2>4. J(queue) = {queue[1]} \cup J(queue')
    <3>1. ASSUME NEW i \in 1 .. n PROVE queue[i] \in {queue[1]} \cup J(queue')
      BY <2>3
    <3>2. ASSUME NEW i \in 1 .. n - 1 PROVE queue'[i] \in J(queue)
      BY <2>3
    <3>3. J(queue) \subseteq {queue[1]} \cup J(queue')
      BY <2>3, <3>1
    <3>4. J(queue') \subseteq J(queue)
      BY <2>3, <3>2
    <3>5. queue[1] \in J(queue)
      BY <2>3
    <3> QED BY <3>3, <3>4, <3>5
  <2>5. {worker'[u].job : u \in {v \in Workers : worker'[v].pc = "busy"}} = {queue[1]}
    BY <1>0, <2>1, <2>3 DEF PoolType
  <2>6. Pending' = J(queue') \cup {queue[1]}
    BY <2>5 DEF Pending
  <2> QED BY <1>2, <1>3, <2>1, <2>2, <2>4, <2>6
<1>5. CASE ~ Take(w) /\ (FetchOneJob(w) \/ CondWait(w) \/ Woken(w))
  <2>1. UNCHANGED <<queue, disk, buffer, locked>> /\ worker[w].pc # "busy"
    BY <1>0, <1>5, NoTake
  <2>2. worker[w].pc = "woken" /\ queue = <<>> => ended
    BY DEF PoolInv, JobsInv
  <2>3. worker'[w].pc # "busy"
    BY <1>0, <1>5, <2>2, NoTake
  <2>4. Pending' = J(queue)
    BY <1>0, <2>1, <2>3 DEF Pending
  <2> QED BY <1>2, <1>3, <2>1, <2>4
<1>6. CASE DoPrefetch(w) \/ DoWriteBack(w)
  <2>1. UNCHANGED queue /\ worker[w].pc = "busy" /\ worker'[w].pc = "fetch"
    BY <1>0, <1>6, JobDone
  <2>2. Pending' = J(queue)
    BY <1>0, <2>1 DEF Pending
  <2>3. worker[w].job \notin J(queue)
    BY <2>1 DEF PoolInv, JobsInv
  <2> QED BY <1>2, <1>3, <1>6, <2>1, <2>2, <2>3
<1> QED BY <1>4, <1>5, <1>6 DEF WorkerStep

(* The range that an address is in. *)
LEMMA WholeIs ==
    ASSUME NEW o \in Nat
    PROVE  \E x \in Starts : Whole(o) = x .. x + bufferSize - 1 /\ o \in Whole(o)
<1> DEFINE k == o \div bufferSize
           x == k * bufferSize
<1>1. x \in Starts
  BY StartOf, Sizes DEF Starts
<1>2. k \in Nat /\ o >= bufferSize * k /\ o < bufferSize * k + bufferSize
  BY Sizes
<1>3. o \in x .. x + bufferSize - 1
  <2> HIDE DEF k
  <2>1. bufferSize * k = k * bufferSize /\ k * bufferSize \in Nat
    BY <1>2, Sizes
  <2> QED BY <1>2, <2>1, Sizes
<1> QED BY <1>1, <1>3 DEF Whole

(* Ranges are equal or disjoint. *)
LEMMA SameRange ==
    ASSUME NEW x \in Starts, NEW y \in Starts, NEW a,
           a \in x .. x + bufferSize - 1, a \in y .. y + bufferSize - 1
    PROVE  x = y
<1>1. x \in Nat /\ y \in Nat /\ x % bufferSize = 0 /\ y % bufferSize = 0 /\ bufferSize \in Nat \ {0}
  BY Sizes DEF Starts
<1>2. ~ x < y
  <2>1. x < y => x + bufferSize <= y
    BY <1>1, WholeBuffer
  <2> QED BY <1>1, <2>1
<1>3. ~ y < x
  <2>1. y < x => y + bufferSize <= x
    BY <1>1, WholeBuffer
  <2> QED BY <1>1, <2>1
<1> QED BY <1>1, <1>2, <1>3

(* What a buffer is going to hold. *)
LEMMA TargetIs ==
    PoolInv /\ OneWorker => \A b \in Buffers :
        /\ \A j \in Pending : j.buf = b /\ j.type # "WRITEBACK" => Target(b) = Whole(j.offset)
        /\ ~ Fetching(b) => Target(b) = Extent(buffer[b])
        /\ Target(b) = {} \/ \E x \in Starts : Target(b) = x .. x + bufferSize - 1
<1> SUFFICES ASSUME PoolInv, OneWorker, NEW b \in Buffers
             PROVE  /\ \A j \in Pending : j.buf = b /\ j.type # "WRITEBACK" => Target(b) = Whole(j.offset)
                    /\ ~ Fetching(b) => Target(b) = Extent(buffer[b])
                    /\ Target(b) = {} \/ \E x \in Starts : Target(b) = x .. x + bufferSize - 1
  OBVIOUS
<1>1. ASSUME NEW j \in Pending, j.buf = b, j.type # "WRITEBACK"
      PROVE  Target(b) = Whole(j.offset)
  <2>1. {k \in Pending : k.buf = b /\ k.type # "WRITEBACK"} = {j}
    BY <1>1, PendingAre
  <2>2. Fetching(b)
    BY <1>1 DEF Fetching
  <2>3. UNION {Whole(k.offset) : k \in {j}} = Whole(j.offset)
    OBVIOUS
  <2> QED BY <2>1, <2>2, <2>3 DEF Target
<1>2. ~ Fetching(b) => Target(b) = Extent(buffer[b])
  BY DEF Target
<1>3. CASE Fetching(b)
  <2>1. PICK j \in Pending : j.buf = b /\ j.type # "WRITEBACK"
    BY <1>3 DEF Fetching
  <2>2. j.offset \in Nat
    BY PendingAre DEF Jobs
  <2> QED BY <1>1, <1>2, <1>3, <2>1, <2>2, WholeIs
<1>4. CASE ~ Fetching(b)
  <2> DEFINE B == buffer[b]
  <2>1. BufferOK(B)
    BY DEF PoolInv, TypeInv, DiskType
  <2>2. CASE B.contentSize = 0
    <3>1. B.startAddress \in Int
      BY <2>1 DEF BufferOK, BufferShape, Starts
    <3>2. Extent(B) = {}
      BY <2>2, <3>1 DEF Extent
    <3> QED BY <1>1, <1>2, <1>4, <3>2
  <2>3. CASE B.contentSize # 0
    <3>1. B.startAddress \in Starts /\ B.contentSize = bufferSize
      BY <2>1, <2>3 DEF BufferOK, BufferShape
    <3>2. Extent(B) = B.startAddress .. B.startAddress + bufferSize - 1
      BY <3>1 DEF Extent
    <3> QED BY <1>1, <1>2, <1>4, <3>1, <3>2
  <2> QED BY <2>2, <2>3
<1> QED BY <1>1, <1>2, <1>3, <1>4

(* Two ranges with a common address. *)
LEMMA TargetsMeet ==
    ASSUME PoolInv, OneWorker, NEW b \in Buffers, NEW o \in Nat, Target(b) \cap Whole(o) # {}
    PROVE  Target(b) = Whole(o)
<1>1. PICK y \in Starts : Whole(o) = y .. y + bufferSize - 1
  BY WholeIs
<1>2. PICK x \in Starts : Target(b) = x .. x + bufferSize - 1
  BY TargetIs
<1>3. PICK a : a \in Target(b) /\ a \in Whole(o)
  OBVIOUS
<1>4. x = y
  BY <1>1, <1>2, <1>3, SameRange
<1> QED BY <1>1, <1>2, <1>4

(* A job that is queued changes the range of its buffer only. *)
LEMMA TargetPost ==
    ASSUME PoolInv, OneWorker, UNCHANGED buffer, NEW b \in Buffers,
           NEW type \in {"WRITEBACK", "FETCH", "PREFETCH"}, NEW o \in Nat, Post(b, type, o)
    PROVE  /\ \A c \in Buffers : c # b \/ type = "WRITEBACK" =>
                  Target(c)' = Target(c) /\ (Fetching(c)' <=> Fetching(c))
           /\ type # "WRITEBACK" => Target(b)' = Whole(o)
           /\ \A c \in Buffers : locked'[c] <=> locked[c] \/ c = b
           /\ ~ locked[b]
<1> DEFINE job == [buf |-> b, type |-> type, offset |-> o]
<1>1. Pending' = Pending \cup {job}
  BY PendingPost DEF PoolInv, TypeInv
<1>2. job.buf = b /\ job.type = type /\ job.offset = o
  OBVIOUS
<1>3. ~ locked[b] /\ \A c \in Buffers : locked'[c] <=> locked[c] \/ c = b
  BY DEF Post, PoolInv, TypeInv, PoolType
<1>4. \A j \in Pending : j.buf # b
  BY <1>3, PendingAre
<1> HIDE DEF job
<1>5. ASSUME NEW c \in Buffers, c # b \/ type = "WRITEBACK"
      PROVE  Target(c)' = Target(c) /\ (Fetching(c)' <=> Fetching(c))
  <2>1. {k \in Pending' : k.buf = c /\ k.type # "WRITEBACK"} = {k \in Pending : k.buf = c /\ k.type # "WRITEBACK"}
    BY <1>1, <1>2, <1>5
  <2>2. Fetching(c)' <=> Fetching(c)
    BY <1>1, <1>2, <1>5 DEF Fetching
  <2> QED BY <2>1, <2>2 DEF Target
<1>6. ASSUME type # "WRITEBACK"
      PROVE  Target(b)' = Whole(o)
  <2>1. {k \in Pending' : k.buf = b /\ k.type # "WRITEBACK"} = {job}
    BY <1>1, <1>2, <1>4, <1>6
  <2>2. Fetching(b)'
    BY <1>1, <1>2, <1>6 DEF Fetching
  <2>3. Target(b)' = UNION {Whole(j.offset) : j \in {job}}
    BY <2>1, <2>2 DEF Target
  <2> QED BY <1>2, <2>3
<1> QED BY <1>3, <1>5, <1>6

(* What a worker does to a buffer. *)
Renewed(b, B) ==
    /\ Fetching(b) /\ disk' = disk
    /\ B.fetched = {} /\ ~ B.dirtyBit /\ B.dirtyBlock = {}

WrittenBack(b, B) ==
    /\ ~ Fetching(b) /\ B = Cleaned(buffer[b])
    /\ disk' = [disk EXCEPT ![path] = [a \in Addresses |->
                    IF a \in Dirty(b) THEN buffer[b].content[a - buffer[b].startAddress]
                    ELSE disk[path][a]]]

LEMMA WorkerDoes ==
    ASSUME PoolInv, OneWorker, NEW w \in Workers, WorkerStep(w)
    PROVE  /\ UNCHANGED client
           /\ \A c \in Buffers : Target(c)' = Target(c)
           /\ \/ /\ \A c \in Buffers : Fetching(c)' <=> Fetching(c)
                 /\ UNCHANGED <<disk, buffer, locked>>
              \/ \E b \in Buffers : \E B :
                    /\ buffer' = [buffer EXCEPT ![b] = B]
                    /\ locked' = [locked EXCEPT ![b] = FALSE]
                    /\ Renewed(b, B) \/ WrittenBack(b, B)
                    /\ ~ Fetching(b)'
                    /\ \A c \in Buffers : c # b => (Fetching(c)' <=> Fetching(c))
<1>1. UNCHANGED client
  BY WorkerCleans DEF PoolInv
<1>2. CASE Pending' = Pending /\ UNCHANGED <<disk, buffer, locked>>
  BY <1>1, <1>2 DEF Target, Fetching
<1>3. CASE /\ DoPrefetch(w) \/ DoWriteBack(w)
           /\ worker[w].job \in Pending
           /\ Pending' = Pending \ {worker[w].job}
  <2> PICK job \in Jobs : job = worker[w].job /\ job \in Pending
    BY <1>3, PendingAre
  <2> PICK b \in Buffers : b = job.buf
    BY PendingAre
  <2>1. b \in Buffers /\ job \in Jobs
    OBVIOUS
  <2>2. \A j \in Pending : j.buf = b <=> j = job
    BY <1>3, PendingAre
  <2>3. \A c \in Buffers : c # b => (Fetching(c)' <=> Fetching(c))
    BY <1>3, <2>2 DEF Fetching
  <2>4. ~ Fetching(b)'
    BY <1>3, <2>2 DEF Fetching
  <2>5. buffer \in [Buffers -> BufferShape] /\ locked \in [Buffers -> BOOLEAN]
    BY DEF PoolInv, TypeInv, DiskType, PoolType
  <2>6. \E B : /\ buffer' = [buffer EXCEPT ![b] = B]
               /\ locked' = [locked EXCEPT ![b] = FALSE]
               /\ Renewed(b, B) \/ WrittenBack(b, B)
               /\ Target(b)' = Target(b)
    <3>1. CASE DoPrefetch(w)
      <4> DEFINE B == [clearContent EXCEPT
                          !.startAddress = (job.offset \div bufferSize) * bufferSize,
                          !.contentSize = bufferSize]
      <4>1. buffer' = [buffer EXCEPT ![b] = B] /\ locked' = [locked EXCEPT ![b] = FALSE]
            /\ disk' = disk /\ job.type # "WRITEBACK"
        BY <3>1 DEF DoPrefetch
      <4>2. Fetching(b)
        BY <1>3, <4>1 DEF Fetching
      <4>3. /\ B.fetched = {} /\ ~ B.dirtyBit /\ B.dirtyBlock = {}
            /\ B.startAddress = (job.offset \div bufferSize) * bufferSize /\ B.contentSize = bufferSize
        BY DEF clearContent
      <4> HIDE DEF B
      <4>4. Extent(B) = Whole(job.offset)
        BY <4>3 DEF Extent, Whole
      <4>5. buffer'[b] = B
        BY <2>1, <2>5, <4>1
      <4>6. Target(b)' = Extent(B)
        BY <2>4, <4>5 DEF Target
      <4>7. Target(b) = Whole(job.offset)
        BY <1>3, <2>1, <4>1, TargetIs
      <4> QED BY <4>1, <4>2, <4>3, <4>4, <4>6, <4>7 DEF Renewed
    <3>2. CASE DoWriteBack(w)
      <4> DEFINE B == Cleaned(buffer[b])
      <4>1. buffer' = [buffer EXCEPT ![b] = B]
        BY <3>2, <2>1, <2>5 DEF DoWriteBack, BufferShape, Cleaned
      <4>2. locked' = [locked EXCEPT ![b] = FALSE] /\ job.type = "WRITEBACK"
        BY <3>2 DEF DoWriteBack
      <4>3. ~ Fetching(b)
        BY <2>2, <4>2 DEF Fetching
      <4>4. WrittenBack(b, B)
        <5>1. disk' = [disk EXCEPT ![path] = [a \in Addresses |->
                IF a \in Extent(buffer[b]) /\ BlockOf(buffer[b], a) \in buffer[b].dirtyBlock
                THEN buffer[b].content[a - buffer[b].startAddress] ELSE @[a]]]
          BY <3>2 DEF DoWriteBack
        <5>2. \A a \in Addresses : a \in Extent(buffer[b]) /\ BlockOf(buffer[b], a) \in buffer[b].dirtyBlock
                                   <=> a \in Dirty(b)
          BY DEF Dirty
        <5>3. disk' = [disk EXCEPT ![path] = [a \in Addresses |->
                    IF a \in Dirty(b) THEN buffer[b].content[a - buffer[b].startAddress]
                    ELSE disk[path][a]]]
          <6> DEFINE f == [a \in Addresses |->
                IF a \in Extent(buffer[b]) /\ BlockOf(buffer[b], a) \in buffer[b].dirtyBlock
                THEN buffer[b].content[a - buffer[b].startAddress] ELSE disk[path][a]]
                     g == [a \in Addresses |->
                    IF a \in Dirty(b) THEN buffer[b].content[a - buffer[b].startAddress]
                    ELSE disk[path][a]]
          <6>1. f = g
            BY <5>2
          <6>2. disk \in [Paths -> [Addresses -> Contents]] /\ path \in Paths
            BY DEF PoolInv, TypeInv, DiskType
          <6>3. disk' = [disk EXCEPT ![path] = f]
            BY <5>1, <6>2
          <6> HIDE DEF f, g
          <6> QED BY <6>1, <6>3 DEF g
        <5> QED BY <4>3, <5>3 DEF WrittenBack
      <4>5. Extent(B) = Extent(buffer[b])
        BY <2>1, <2>5 DEF Extent, Cleaned, BufferShape
      <4>6. buffer'[b] = B
        BY <2>1, <2>5, <4>1
      <4> HIDE DEF B
      <4>7. Target(b)' = Target(b)
        BY <2>4, <4>3, <4>5, <4>6 DEF Target
      <4> QED BY <4>1, <4>2, <4>4, <4>7
    <3> QED BY <1>3, <3>1, <3>2
  <2>7. ASSUME NEW c \in Buffers, c # b PROVE Target(c)' = Target(c)
    <3>1. {k \in Pending' : k.buf = c /\ k.type # "WRITEBACK"} = {k \in Pending : k.buf = c /\ k.type # "WRITEBACK"}
      BY <1>3, <2>7
    <3>2. buffer'[c] = buffer[c]
      BY <2>5, <2>6, <2>7
    <3> QED BY <2>3, <2>7, <3>1, <3>2 DEF Target
  <2> QED BY <1>1, <2>1, <2>3, <2>4, <2>6, <2>7
<1> QED BY <1>2, <1>3, PendingWorker

-----------------------------------------------------------------------------
(* The fields after a write. *)
LEMMA WriteToIs ==
    ASSUME NEW B, BufferOK(B), NEW o \in Addresses, containOffset(B, o),
           NEW s \in Nat \ {0}, NEW v \in Values, DiskType
    PROVE  LET W == writeToBuffer(B, s, o, v)
               new == PagesToRead(B, "write", s, o)
               part == Part(B, s, o)
           IN  /\ W.startAddress = B.startAddress /\ W.contentSize = B.contentSize
               /\ W.dirtyBlock = B.dirtyBlock \cup {BlockOf(B, a) : a \in part}
               /\ W.fetched = B.fetched \cup {PageOf(B, a) : a \in part}
               /\ \A i \in Offsets : W.content[i] =
                      IF B.startAddress + i \in part THEN v
                      ELSE IF i \div pageSize \in new THEN disk[path][B.startAddress + i]
                      ELSE B.content[i]
<1> DEFINE F == fetchPages(B, "write", s, o)
           W == writeToBuffer(B, s, o, v)
           new == PagesToRead(B, "write", s, o)
           part == Part(B, s, o)
           blocks == {BlockOf(B, a) : a \in part}
           pages == {PageOf(B, a) : a \in part}
           content == [i \in DOMAIN F.content |->
                          IF B.startAddress + i \in part THEN v ELSE F.content[i]]
<1>1. /\ F \in BufferShape
      /\ F.startAddress = B.startAddress /\ F.contentSize = B.contentSize
      /\ F.dirtyBlock = B.dirtyBlock
      /\ F.fetched = B.fetched \cup pages
      /\ \A i \in Offsets : F.content[i] =
             IF i \div pageSize \in new THEN disk[path][B.startAddress + i] ELSE B.content[i]
  BY FetchPagesIs
<1>2. W = [F EXCEPT !.content = content, !.dirtyBlock = @ \cup blocks, !.dirtyBit = TRUE]
  BY DEF writeToBuffer
<1> HIDE DEF new, part, pages, blocks, F, W
<1>3. \A i \in Offsets : content[i] = IF B.startAddress + i \in part THEN v ELSE F.content[i]
  BY <1>1 DEF BufferShape
<1> HIDE DEF content
<1>4. /\ W.startAddress = B.startAddress /\ W.contentSize = B.contentSize
      /\ W.dirtyBlock = B.dirtyBlock \cup blocks
      /\ W.fetched = B.fetched \cup pages /\ W.content = content
  BY <1>1, <1>2 DEF BufferShape
<1>5. \A i \in Offsets : W.content[i] =
                      IF B.startAddress + i \in part THEN v
                      ELSE IF i \div pageSize \in new THEN disk[path][B.startAddress + i]
                      ELSE B.content[i]
  BY <1>1, <1>3, <1>4
<1> QED BY <1>4, <1>5 DEF W, new, part, pages, blocks

(* An access changes what the addresses of its part count for, and nothing *)
(* else; what it leaves clean is as it is on the disk.                     *)
LEMMA ReadLeaves ==
    ASSUME NEW B, BufferOK(B), NEW o \in Addresses, containOffset(B, o),
           NEW s \in Nat \ {0}, DiskType, SameAsDisk(B)
    PROVE  LET F == fetchPages(B, "read", s, o)
           IN  /\ F.startAddress = B.startAddress /\ F.contentSize = B.contentSize
               /\ F.dirtyBlock = B.dirtyBlock /\ F.dirtyBit = B.dirtyBit
               /\ SameAsDisk(F)
               /\ \A a \in Extent(B) : See(F, a) = See(B, a)
               /\ \A a \in Part(B, s, o) : F.content[a - B.startAddress] = See(B, a)
<1> DEFINE F == fetchPages(B, "read", s, o)
           new == PagesToRead(B, "read", s, o)
           pages == {PageOf(B, a) : a \in Part(B, s, o)}
<1>1. new = pages \ B.fetched
  BY DEF PagesToRead
<1>2. /\ F.startAddress = B.startAddress /\ F.contentSize = B.contentSize
      /\ F.dirtyBlock = B.dirtyBlock /\ F.dirtyBit = B.dirtyBit
      /\ F.fetched = B.fetched \cup pages
      /\ \A i \in Offsets : F.content[i] =
             IF i \div pageSize \in new THEN disk[path][B.startAddress + i] ELSE B.content[i]
  BY FetchPagesIs
<1>3. \A a \in Part(B, s, o) : PageOf(B, a) \in pages /\ a \in Extent(B)
  BY DEF Part
<1> HIDE DEF F, new, pages
<1>4. ASSUME NEW a \in Extent(B)
      PROVE  /\ PageOf(F, a) = PageOf(B, a) /\ BlockOf(F, a) = BlockOf(B, a)
             /\ PageOf(B, a) \in F.fetched /\ BlockOf(B, a) \notin B.dirtyBlock =>
                    F.content[a - B.startAddress] = disk[path][a]
             /\ BlockOf(B, a) \in B.dirtyBlock =>
                    F.content[a - B.startAddress] = B.content[a - B.startAddress]
  <2>0. PageOf(F, a) = PageOf(B, a) /\ BlockOf(F, a) = BlockOf(B, a)
    BY <1>2 DEF PageOf, BlockOf
  <2> PICK i \in Offsets : i = a - B.startAddress
    BY InFile
  <2>1. B.startAddress \in Nat /\ a \in Int /\ a \in Addresses
    BY InFile DEF Starts, Addresses
  <2>2. B.startAddress + i = a
    BY <2>1
  <2>3. PageOf(B, a) = i \div pageSize /\ BlockOf(B, a) = i \div blockSize
    BY DEF PageOf, BlockOf
  <2>4. BlockOf(B, a) \in B.dirtyBlock => PageOf(B, a) \in B.fetched
    BY <2>3 DEF BufferOK
  <2>5. F.content[i] = IF PageOf(B, a) \in new THEN disk[path][a] ELSE B.content[i]
    BY <1>2, <2>2, <2>3
  <2> QED BY <1>1, <1>2, <2>0, <2>1, <2>4, <2>5 DEF SameAsDisk
<1>5. Extent(F) = Extent(B)
  BY <1>2 DEF Extent
<1>6. SameAsDisk(F)
  BY <1>2, <1>4, <1>5 DEF SameAsDisk
<1>7. \A a \in Extent(B) : See(F, a) = See(B, a)
  BY <1>2, <1>4 DEF See
<1>8. \A a \in Part(B, s, o) : F.content[a - B.startAddress] = See(B, a)
  BY <1>2, <1>3, <1>4 DEF See
<1> QED BY <1>2, <1>6, <1>7, <1>8 DEF F

LEMMA WriteLeaves ==
    ASSUME NEW B, BufferOK(B), NEW o \in Addresses, containOffset(B, o),
           NEW s \in Nat \ {0}, NEW v \in Values, DiskType, SameAsDisk(B)
    PROVE  LET W == writeToBuffer(B, s, o, v)
           IN  /\ W.startAddress = B.startAddress /\ W.contentSize = B.contentSize
               /\ SameAsDisk(W)
               /\ \A a \in Extent(B) :
                     See(W, a) = IF a \in Part(B, s, o) THEN v ELSE See(B, a)
<1> DEFINE W == writeToBuffer(B, s, o, v)
           new == PagesToRead(B, "write", s, o)
           part == Part(B, s, o)
           blocks == {BlockOf(B, a) : a \in part}
           pages == {PageOf(B, a) : a \in part}
<1>1. \A p \in pages \ B.fetched : p \in new \/ InPage(B, p) \subseteq part
  BY DEF PagesToRead
<1>2. /\ W.startAddress = B.startAddress /\ W.contentSize = B.contentSize
      /\ W.dirtyBlock = B.dirtyBlock \cup blocks
      /\ W.fetched = B.fetched \cup pages
      /\ \A i \in Offsets : W.content[i] =
                      IF B.startAddress + i \in part THEN v
                      ELSE IF i \div pageSize \in new THEN disk[path][B.startAddress + i]
                      ELSE B.content[i]
  BY WriteToIs
<1>3. new \cap B.fetched = {}
  BY DEF PagesToRead
<1>4. ASSUME NEW a \in Extent(B), BlockOf(B, a) \in blocks
      PROVE  PageOf(B, a) \in pages
  <2>1. PICK x \in part : BlockOf(B, a) = BlockOf(B, x)
    BY <1>4
  <2>2. x - B.startAddress \in Nat /\ a - B.startAddress \in Nat
    BY Parts, InFile, Sizes DEF Offsets
  <2>3. PageOf(B, a) = PageOf(B, x)
    BY <2>1, <2>2, BlocksAndPages DEF BlockOf, PageOf
  <2> QED BY <2>1, <2>3
<1>5. \A a \in part : BlockOf(B, a) \in blocks /\ a \in Extent(B)
  BY DEF Part
<1> HIDE DEF W, new, part, pages, blocks
<1>6. ASSUME NEW a \in Extent(B)
      PROVE  /\ PageOf(W, a) = PageOf(B, a) /\ BlockOf(W, a) = BlockOf(B, a)
             /\ PageOf(B, a) \in W.fetched /\ BlockOf(B, a) \notin W.dirtyBlock =>
                    W.content[a - B.startAddress] = disk[path][a]
             /\ See(W, a) = IF a \in part THEN v ELSE See(B, a)
  <2>0. PageOf(W, a) = PageOf(B, a) /\ BlockOf(W, a) = BlockOf(B, a)
    BY <1>2 DEF PageOf, BlockOf
  <2> PICK i \in Offsets : i = a - B.startAddress
    BY InFile
  <2>1. B.startAddress \in Nat /\ a \in Int /\ a \in Addresses
    BY InFile DEF Starts, Addresses
  <2>2. B.startAddress + i = a
    BY <2>1
  <2>3. PageOf(B, a) = i \div pageSize /\ BlockOf(B, a) = i \div blockSize
    BY DEF PageOf, BlockOf
  <2>4. BlockOf(B, a) \in B.dirtyBlock => PageOf(B, a) \in B.fetched
    BY <2>3 DEF BufferOK
  <2>5. W.content[i] = IF a \in part THEN v
                       ELSE IF PageOf(B, a) \in new THEN disk[path][a] ELSE B.content[i]
    BY <1>2, <2>2, <2>3
  <2>6. PageOf(B, a) \in pages \ B.fetched => PageOf(B, a) \in new \/ a \in part
    BY <1>1 DEF InPage
  <2>7. PageOf(B, a) \in W.fetched /\ BlockOf(B, a) \notin W.dirtyBlock => W.content[i] = disk[path][a]
    <3> SUFFICES ASSUME PageOf(B, a) \in W.fetched, BlockOf(B, a) \notin W.dirtyBlock
                 PROVE  W.content[i] = disk[path][a]
      OBVIOUS
    <3>1. a \notin part /\ BlockOf(B, a) \notin B.dirtyBlock
      BY <1>2, <1>5
    <3>2. CASE PageOf(B, a) \in B.fetched
      BY <1>3, <2>1, <2>5, <3>1, <3>2 DEF SameAsDisk
    <3>3. CASE PageOf(B, a) \notin B.fetched
      BY <1>2, <2>5, <2>6, <3>1, <3>3
    <3> QED BY <3>2, <3>3
  <2>8. CASE a \in part
    BY <1>2, <1>5, <2>0, <2>5, <2>7, <2>8 DEF See
  <2>9. CASE a \notin part
    <3>1. CASE BlockOf(B, a) \in B.dirtyBlock
      BY <1>2, <1>3, <2>0, <2>4, <2>5, <2>9, <3>1 DEF See
    <3>2. CASE BlockOf(B, a) \notin B.dirtyBlock /\ BlockOf(B, a) \in blocks
      <4>1. PageOf(B, a) \in pages
        BY <1>4, <3>2
      <4>2. W.content[i] = disk[path][a]
        BY <1>3, <2>1, <2>5, <2>6, <2>9, <3>2, <4>1 DEF SameAsDisk
      <4> QED BY <1>2, <2>0, <2>9, <3>2, <4>2 DEF See
    <3>3. CASE BlockOf(B, a) \notin B.dirtyBlock /\ BlockOf(B, a) \notin blocks
      BY <1>2, <2>0, <2>7, <2>9, <3>3 DEF See
    <3> QED BY <3>1, <3>2, <3>3
  <2> QED BY <2>0, <2>7, <2>8, <2>9
<1>7. Extent(W) = Extent(B)
  BY <1>2 DEF Extent
<1>8. SameAsDisk(W)
  BY <1>2, <1>6, <1>7 DEF SameAsDisk
<1> QED BY <1>2, <1>6, <1>8 DEF W, part

-----------------------------------------------------------------------------
RangeInv == PoolInv /\ CleanInv /\ TargetInv

(* At most one buffer is dirty at an address: it is what the file holds.   *)
HeldSeen ==
    \A a \in Addresses :
        /\ \A b \in Buffers : a \in Dirty(b) =>
              Holds(a) = buffer[b].content[a - buffer[b].startAddress]
        /\ (\A b \in Buffers : a \notin Dirty(b)) => Holds(a) = disk[path][a]
        /\ \A b, c \in Buffers : a \in Dirty(b) /\ b # c => a \notin Extent(buffer[c]) \/ Fetching(c)
        /\ \A b \in Buffers : a \in Dirty(b) => ~ Fetching(b) /\ a \in Extent(buffer[b])

LEMMA HeldIs == RangeInv /\ OneWorker => HeldSeen
<1> SUFFICES ASSUME RangeInv, OneWorker, NEW a \in Addresses
             PROVE  /\ \A b \in Buffers : a \in Dirty(b) =>
                          Holds(a) = buffer[b].content[a - buffer[b].startAddress]
                    /\ (\A b \in Buffers : a \notin Dirty(b)) => Holds(a) = disk[path][a]
                    /\ \A b, c \in Buffers : a \in Dirty(b) /\ b # c =>
                          a \notin Extent(buffer[c]) \/ Fetching(c)
                    /\ \A b \in Buffers : a \in Dirty(b) => ~ Fetching(b) /\ a \in Extent(buffer[b])
  BY DEF HeldSeen
<1>1. ASSUME NEW b \in Buffers, a \in Dirty(b)
      PROVE  buffer[b].dirtyBit /\ ~ Fetching(b) /\ a \in Extent(buffer[b]) /\ a \in Target(b)
  <2>1. buffer[b].dirtyBlock # {} /\ a \in Extent(buffer[b])
    BY <1>1 DEF Dirty
  <2>2. buffer[b].dirtyBit
    BY <2>1 DEF RangeInv, PoolInv, TypeInv, DiskType, BufferOK
  <2>3. ~ Fetching(b)
    BY <2>2 DEF RangeInv, CleanInv
  <2> QED BY <2>1, <2>2, <2>3, TargetIs DEF RangeInv
<1>2. ASSUME NEW b \in Buffers, a \in Dirty(b), NEW c \in Buffers, b # c
      PROVE  a \notin Extent(buffer[c]) \/ Fetching(c)
  <2> SUFFICES ASSUME a \in Extent(buffer[c]), ~ Fetching(c) PROVE FALSE
    OBVIOUS
  <2>1. a \in Target(c)
    BY TargetIs DEF RangeInv
  <2>2. ~ buffer[b].dirtyBit
    BY <1>1, <1>2, <2>1 DEF RangeInv, TargetInv
  <2> QED BY <1>1, <1>2, <2>2
<1>3. ASSUME NEW b \in Buffers, a \in Dirty(b), NEW c \in Buffers, a \in Dirty(c)
      PROVE  b = c
  BY <1>1, <1>2, <1>3
<1> DEFINE H == {b \in Buffers : path = path /\ a \in Dirty(b)}
<1>4. Holds(a) = IF H = {} THEN disk[path][a]
                      ELSE buffer[CHOOSE x \in H : TRUE].content[a - buffer[CHOOSE x \in H : TRUE].startAddress]
  BY DEF Held, Holds
<1>5. ASSUME NEW b \in Buffers, a \in Dirty(b)
      PROVE  Holds(a) = buffer[b].content[a - buffer[b].startAddress]
  <2>1. H = {b}
    BY <1>3, <1>5
  <2>2. (CHOOSE x \in H : TRUE) = b
    BY <2>1
  <2> QED BY <1>4, <2>1, <2>2
<1>6. (\A b \in Buffers : a \notin Dirty(b)) => Holds(a) = disk[path][a]
  BY <1>4
<1> QED BY <1>1, <1>2, <1>5, <1>6

(* The part of a range that begins in a buffer, and what is left of it.    *)
Piece(x, f, d, z, l, k) ==
    /\ {a \in f + d .. f + d + l - 1 : a \in x .. x + bufferSize - 1} = f + d .. f + (d + k) - 1
    /\ Cardinality(f + d .. f + (d + k) - 1) = k
    /\ f + d \in f + d .. f + (d + k) - 1
    /\ d + k \in d .. z
    /\ d + k # z => f + (d + k) \notin x .. x + bufferSize - 1

LEMMA Cut ==
    ASSUME NEW x \in Nat, NEW f \in Nat, NEW d \in Nat, NEW z \in Nat, NEW l \in Nat,
           f + d \in x .. x + bufferSize - 1, d + l = z, l # 0
    PROVE  \E k \in Nat \ {0} : Piece(x, f, d, z, l, k)
<1>1. bufferSize \in Nat \ {0}
  BY Sizes
<1> PICK S \in Nat \ {0} : S = bufferSize
  BY <1>1
<1> DEFINE K == IF f + z <= x + S THEN l ELSE x + S - (f + d)
<1> PICK k \in Nat \ {0} : k = K
  <2>1. K \in Nat \ {0}
    OBVIOUS
  <2> QED BY <2>1
<1>2. /\ {a \in f + d .. f + d + l - 1 : a \in x .. x + S - 1} = f + d .. f + (d + k) - 1
      /\ f + d \in f + d .. f + (d + k) - 1
      /\ d + k \in d .. z
      /\ d + k # z => f + (d + k) \notin x .. x + S - 1
  BY DEF K
<1>3. Cardinality(f + d .. f + (d + k) - 1) = k
  <2> DEFINE g == f + d
             h == f + (d + k) - 1
  <2>1. g \in Int /\ h \in Int /\ ~ g > h /\ h - g + 1 = k
    OBVIOUS
  <2> HIDE DEF g, h
  <2>2. Cardinality(g .. h) = IF g > h THEN 0 ELSE h - g + 1
    BY <2>1, FS_Interval
  <2> QED BY <2>1, <2>2 DEF g, h
<1> QED BY <1>2, <1>3 DEF Piece

(* What is transferred in one turn of the loop. *)
Taken ==
    IF containOffset(buffer[cur], Wanted) THEN Part(buffer[cur], req[holder].size - done, Wanted)
    ELSE {}

LEMMA AccessDoes ==
    ASSUME TypeInv, Access
    PROVE  /\ holder \in Clients /\ req[holder] \in Requests /\ req[holder] # NoRequest
           /\ cur \in Buffers /\ ~ locked[cur] /\ pc = "access"
           /\ done < req[holder].size /\ Wanted \in Addresses
           /\ req[holder].size - done \in Nat \ {0}
           /\ Taken = Wanted .. req[holder].offset + done' - 1
           /\ Taken \subseteq Extent(buffer[cur])
           /\ Taken = {} <=> ~ containOffset(buffer[cur], Wanted)
           /\ done' \in done .. req[holder].size
           /\ at' = req[holder].offset + done'
           /\ done' # req[holder].size => at' \notin Extent(buffer[cur])
           /\ \A c \in Buffers : c # cur => buffer'[c] = buffer[c]
           /\ buffer'[cur] = IF Taken = {} THEN buffer[cur]
                             ELSE IF req[holder].op = "read"
                             THEN fetchPages(buffer[cur], "read", req[holder].size - done, Wanted)
                             ELSE writeToBuffer(buffer[cur], req[holder].size - done, Wanted,
                                                req[holder].val)
           /\ Taken # {} => Taken = Part(buffer[cur], req[holder].size - done, Wanted)
<1> USE Sizes
<1> DEFINE r == req[holder]
           o == r.offset + done
           left == r.size - done
           B == buffer[cur]
           n == Cardinality(Taken)
<1>0. o = Wanted /\ Taken = IF containOffset(B, o) THEN Part(B, left, o) ELSE {}
  BY DEF Taken, Wanted
<1>1. holder \in Clients /\ r # NoRequest /\ done < r.size /\ r \in Requests
      /\ done \in Nat /\ cur \in Buffers /\ pc = "access" /\ ~ locked[cur]
  BY SMTT(30) DEF TypeInv, ClientType, Access, Holding
<1>2. r.offset \in Nat /\ r.size \in Nat /\ r.offset + r.size - 1 <= Last
  BY <1>1 DEF Requests
<1>3. o \in Addresses /\ left \in Nat \ {0} /\ o + left = r.offset + r.size
  <2> DEFINE x == r.offset
             y == r.size
  <2>1. x \in Nat /\ y \in Nat /\ x + y - 1 <= Last /\ done < y /\ done \in Nat
    BY <1>1, <1>2
  <2> SUFFICES x + done \in Addresses /\ y - done \in Nat \ {0} /\ (x + done) + (y - done) = x + y
    OBVIOUS
  <2> HIDE DEF x, y
  <2> QED BY <2>1 DEF Addresses
<1>4. /\ buffer' = [buffer EXCEPT ![cur] =
                  IF Taken = {} THEN B
                  ELSE IF r.op = "read" THEN fetchPages(B, "read", left, o)
                  ELSE writeToBuffer(B, left, o, r.val)]
      /\ done' = done + n
      /\ at' = r.offset + done'
  BY <1>0, Zenon DEF Access
<1>5. \A c \in Buffers : buffer'[c] =
            IF c # cur THEN buffer[c]
            ELSE IF Taken = {} THEN B
                 ELSE IF r.op = "read" THEN fetchPages(B, "read", left, o)
                 ELSE writeToBuffer(B, left, o, r.val)
  BY <1>1, <1>4 DEF TypeInv, DiskType
<1>6. BufferOK(B)
  BY <1>1 DEF TypeInv, DiskType
<1>7. CASE ~ containOffset(B, o)
  <2>1. Taken = {} /\ n = 0
    BY <1>0, <1>7, FS_EmptySet
  <2>2. done' = done
    BY <1>1, <1>4, <2>1
  <2>3. at' = o
    BY <1>4, <2>2
  <2>4. o .. o - 1 = {}
    BY <1>3 DEF Addresses
  <2>5. Taken = Wanted .. r.offset + done' - 1
    <3> PICK f \in Nat : f = r.offset
      BY <1>2
    <3> PICK d \in Nat : d = done
      BY <1>1
    <3>1. f + d .. f + d - 1 = {}
      OBVIOUS
    <3>2. o = f + d /\ r.offset + done' - 1 = f + d - 1
      BY <2>2
    <3> HIDE DEF o, r
    <3> QED BY <1>0, <2>1, <3>1, <3>2
  <2>6. done' \in done .. r.size
    BY <1>1, <1>2, <2>2
  <2> HIDE DEF r, o, left, B, n
  <2> QED BY <1>0, <1>1, <1>3, <1>4, <1>5, <1>7, <2>1, <2>3, <2>5, <2>6 DEF r, o, left, B, containOffset
<1>8. CASE containOffset(B, o)
  <2> PICK x \in Nat : x = B.startAddress /\ Extent(B) = x .. x + bufferSize - 1
    BY <1>3, <1>6, <1>8, InFile DEF Starts
  <2> PICK z \in Nat : z = r.size
    BY <1>2
  <2> PICK f \in Nat : f = r.offset
    BY <1>2
  <2> PICK d \in Nat : d = done
    BY <1>1
  <2>1. f + d \in x .. x + bufferSize - 1 /\ d < z
    BY <1>1, <1>8 DEF containOffset
  <2> PICK l \in Nat : l = left
    BY <1>3
  <2>11. d + l = z /\ l # 0
    BY <1>1, <1>2, <1>3
  <2> PICK k \in Nat \ {0} : Piece(x, f, d, z, l, k)
    <3>1. f + d \in x .. x + bufferSize - 1 /\ d + l = z /\ l # 0
      BY <2>1, <2>11
    <3> HIDE DEF r, o, left, B, n
    <3> QED BY <3>1, Cut
  <2>2. Taken = f + d .. f + (d + k) - 1
    BY <1>0, <1>8 DEF Part, Piece
  <2>3. done' = d + k
    BY <1>4, <2>2 DEF Piece
  <2>7. done' # z => at' \notin Extent(B)
    BY <1>4, <2>3 DEF Piece
  <2>8. Taken \subseteq Extent(B) /\ Taken # {}
    <3>1. f + d \in Taken
      BY <2>2 DEF Piece
    <3> QED BY <1>0, <1>8, <3>1 DEF Part
  <2>9. Taken = Wanted .. r.offset + done' - 1
    BY <1>0, <2>2, <2>3
  <2>10. done' \in done .. r.size /\ (done' # r.size => at' \notin Extent(B))
    BY <2>3, <2>7 DEF Piece
  <2> HIDE DEF r, o, left, B, n
  <2> QED BY <1>0, <1>1, <1>3, <1>4, <1>5, <1>8, <2>8, <2>9, <2>10 DEF r, o, left, B
<1> QED BY <1>7, <1>8

-----------------------------------------------------------------------------
(* Steps that touch neither the buffers nor the jobs. *)
BuffersStay == UNCHANGED <<disk, buffer, locked>> /\ Pending' = Pending

LEMMA StayTargets ==
    ASSUME BuffersStay
    PROVE  \A b \in Buffers : Target(b)' = Target(b) /\ (Fetching(b)' <=> Fetching(b))
BY DEF BuffersStay, Target, Fetching

LEMMA StaySteps ==
    ASSUME TypeInv,
           \/ \E c \in Clients, r \in Ranges :
                 \/ Call(c, "read", r[1], r[2], 0)
                 \/ \E v \in Values : Call(c, "write", r[1], r[2], v)
           \/ Open \/ OpenAgain \/ Close \/ Destroy \/ \E c \in Clients : lockMutex(c)
           \/ FlushSearch \/ FlushWait \/ FlushBufferEnd \/ WaitJobs \/ Opened \/ EndPool
           \/ UNCHANGED vars
    PROVE  BuffersStay
<1>1. CASE EndPool
  <2>1. UNCHANGED <<queue, disk, buffer, locked>>
    BY <1>1 DEF EndPool
  <2>2. \A w \in Workers : worker'[w].job = worker[w].job
                           /\ (worker'[w].pc = "busy" <=> worker[w].pc = "busy")
    BY <1>1 DEF EndPool, TypeInv, PoolType
  <2>3. {worker'[w].job : w \in {u \in Workers : worker'[u].pc = "busy"}}
          = {worker[w].job : w \in {u \in Workers : worker[u].pc = "busy"}}
    BY <2>2
  <2> QED BY <2>1, <2>3 DEF BuffersStay, Pending
<1>2. CASE UNCHANGED <<disk, buffer, locked, queue, worker>>
  BY <1>2 DEF BuffersStay, Pending
<1>3. CASE ~ EndPool
  <2>1. UNCHANGED <<disk, buffer, locked, queue, worker>>
    BY <1>3 DEF Call, Open, OpenAgain, Close, Destroy, Start, lockMutex, FlushSearch,
                FlushWait, FlushBufferEnd, WaitJobs, Opened, vars, pool
  <2> QED BY <1>2, <2>1
<1> QED BY <1>1, <1>3

(* Outside a read and a write the buffers have ranges of their own. *)
LEMMA RangeIdle ==
    ASSUME RangeInv, BuffersStay, cur' = cur, pc \notin Holding, pc' \notin Holding
    PROVE  CleanInv' /\ TargetInv'
<1>1. \A b \in Buffers : Target(b)' = Target(b) /\ (Fetching(b)' <=> Fetching(b))
  BY StayTargets
<1>2. UNCHANGED <<buffer, locked>>
  BY DEF BuffersStay
<1>3. CleanInv'
  BY <1>1, <1>2 DEF RangeInv, CleanInv, Holding
<1>4. \A b, c \in Buffers : b # c => Target(b) \cap Target(c) = {}
  BY DEF RangeInv, TargetInv
<1>5. TargetInv'
  BY <1>1, <1>4 DEF TargetInv, Holding
<1> QED BY <1>3, <1>5

(* A call, and a read or a write that gets the lock. *)
LEMMA RangeCall ==
    ASSUME RangeInv, NEW c \in Clients,
           \/ \E r \in Ranges : \/ Call(c, "read", r[1], r[2], 0)
                                \/ \E v \in Values : Call(c, "write", r[1], r[2], v)
           \/ lockMutex(c)
    PROVE  CleanInv' /\ TargetInv'
<1>1. BuffersStay
  BY StaySteps DEF RangeInv, PoolInv
<1>2. \A b \in Buffers : Target(b)' = Target(b) /\ (Fetching(b)' <=> Fetching(b))
  BY <1>1, StayTargets
<1>3. UNCHANGED <<buffer, locked, cur>>
  BY <1>1 DEF BuffersStay, Call, lockMutex
<1>4. CASE lockMutex(c)
  <2>1. pc = "free" /\ pc' = "access"
    BY <1>4 DEF lockMutex
  <2>2. \A b, d \in Buffers : b # d => Target(b) \cap Target(d) = {}
    BY <2>1 DEF RangeInv, TargetInv, Holding
  <2>3. CleanInv'
    BY <1>2, <1>3, <2>1 DEF RangeInv, CleanInv
  <2>4. TargetInv'
    BY <1>2, <2>1, <2>2 DEF TargetInv
  <2> QED BY <2>3, <2>4
<1>5. CASE ~ lockMutex(c)
  <2>1. UNCHANGED <<pc, at, done, holder>>
    BY <1>5 DEF Call
  <2>2. pc \in Holding => Wanted' = Wanted
    <3>1. req[c] = NoRequest /\ \A d \in Clients : d # c => req'[d] = req[d]
      BY <1>5 DEF Call, RangeInv, PoolInv, TypeInv, ClientType
    <3>2. pc \in Holding => holder \in Clients /\ holder # c
      BY <3>1 DEF RangeInv, PoolInv, TypeInv, ClientType
    <3> QED BY <2>1, <3>1, <3>2 DEF Wanted
  <2>3. CleanInv'
    BY <1>2, <1>3, <2>1 DEF RangeInv, CleanInv
  <2>4. TargetInv'
    <3>2. pc \in {"writeBack", "search"} => \A b \in Buffers : at \in Target(b)' => b # cur
      BY <1>2 DEF RangeInv, TargetInv
    <3>3. pc = "fetch" => \A b \in Buffers : at \in Target(b)' => b = cur
      BY <1>2 DEF RangeInv, TargetInv
    <3>4. \A b, d \in Buffers : b # d /\ Target(b)' \cap Target(d)' # {} =>
                pc \in Holding /\ Wanted' \notin Target(b)' /\ ~ buffer[b].dirtyBit
      BY <1>2, <2>2 DEF RangeInv, TargetInv
    <3>5. pc \in Holding \ {"access"} => at = Wanted'
      BY <2>2 DEF RangeInv, TargetInv
    <3> QED BY <1>3, <2>1, <3>2, <3>3, <3>4, <3>5 DEF TargetInv
  <2> QED BY <2>3, <2>4
<1> QED BY <1>4, <1>5

TwoBuffers == numOfBuffer = 2

LEMMA OtherIs ==
    ASSUME TwoBuffers
    PROVE  /\ Buffers = {0, 1}
           /\ \A b \in Buffers : (b + 1) % numOfBuffer \in Buffers /\ (b + 1) % numOfBuffer # b
           /\ \A b, c, d \in Buffers : b # c /\ d # c => b = d
<1>1. Buffers = {0, 1}
  BY DEF TwoBuffers, Buffers
<1>2. (0 + 1) % 2 = 1 /\ (1 + 1) % 2 = 0
  OBVIOUS
<1> QED BY <1>1, <1>2 DEF TwoBuffers

(* flush(): what is wanted is not in the working buffer, nor in the one    *)
(* that fetches it meanwhile.                                              *)
LEMMA RangeWriteBack ==
    ASSUME RangeInv, OneWorker, FlushWriteBack
    PROVE  CleanInv' /\ TargetInv'
<1>1. /\ pc = "writeBack" /\ pc' = "search" /\ UNCHANGED <<buffer, cur, holder, at, done, req>>
      /\ IF buffer[cur].dirtyBit THEN Post(cur, "WRITEBACK", 0) ELSE UNCHANGED <<locked, pool>>
  BY DEF FlushWriteBack
<1>2. cur \in Buffers /\ PoolInv
  BY DEF RangeInv, PoolInv, TypeInv, ClientType
<1>3. /\ \A b \in Buffers : Target(b)' = Target(b) /\ (Fetching(b)' <=> Fetching(b))
      /\ \A b \in Buffers : locked[b] => locked'[b]
      /\ buffer[cur].dirtyBit => locked'[cur]
  <2>1. CASE buffer[cur].dirtyBit
    BY <1>1, <1>2, <2>1, TargetPost
  <2>2. CASE ~ buffer[cur].dirtyBit
    BY <1>1, <2>2 DEF Target, Fetching, Pending, pool
  <2> QED BY <2>1, <2>2
<1>4. Wanted' = Wanted
  BY <1>1 DEF Wanted
<1>5. CleanInv'
  BY <1>1, <1>3 DEF RangeInv, CleanInv
<1>6. TargetInv'
  <2>1. \A b \in Buffers : at \in Target(b)' => b # cur
    BY <1>1, <1>3 DEF RangeInv, TargetInv
  <2>2. \A b, d \in Buffers : b # d /\ Target(b)' \cap Target(d)' # {} =>
                Wanted' \notin Target(b)' /\ ~ buffer[b].dirtyBit
    BY <1>3, <1>4 DEF RangeInv, TargetInv
  <2>3. at = Wanted'
    BY <1>1, <1>4 DEF RangeInv, TargetInv, Holding
  <2> QED BY <1>1, <2>1, <2>2, <2>3 DEF TargetInv, Holding
<1> QED BY <1>5, <1>6

LEMMA RangeSearch ==
    ASSUME RangeInv, OneWorker, TwoBuffers, FlushSearch \/ FlushWait
    PROVE  CleanInv' /\ TargetInv'
<1>1. BuffersStay
  BY StaySteps DEF RangeInv, PoolInv
<1>2. \A b \in Buffers : Target(b)' = Target(b) /\ (Fetching(b)' <=> Fetching(b))
  BY <1>1, StayTargets
<1>3. UNCHANGED <<buffer, locked, at, holder, done, req>>
  BY <1>1 DEF BuffersStay, FlushSearch, FlushWait
<1>4. Wanted' = Wanted
  BY <1>3 DEF Wanted
<1>5. \A b, d \in Buffers : b # d /\ Target(b)' \cap Target(d)' # {} =>
              Wanted' \notin Target(b)' /\ ~ buffer[b].dirtyBit
  BY <1>2, <1>4 DEF RangeInv, TargetInv
<1>6. CASE FlushSearch
  <2>1. pc = "search" /\ pc' \in {"fetch", "wait"}
    BY <1>6 DEF FlushSearch
  <2>2. pc' = "fetch" => cur' = (cur + 1) % numOfBuffer
    BY <1>6 DEF FlushSearch, TwoBuffers
  <2>3. CleanInv'
    BY <1>2, <1>3, <2>1 DEF RangeInv, CleanInv
  <2>4. pc' = "fetch" => \A b \in Buffers : at \in Target(b)' => b = cur'
    <3> SUFFICES ASSUME pc' = "fetch", NEW b \in Buffers, at \in Target(b)' PROVE b = cur'
      OBVIOUS
    <3>1. b # cur
      BY <1>2, <2>1 DEF RangeInv, TargetInv
    <3>2. cur \in Buffers
      BY DEF RangeInv, PoolInv, TypeInv, ClientType
    <3> QED BY <2>2, <3>1, <3>2, OtherIs
  <2>5. at = Wanted'
    BY <1>4, <2>1 DEF RangeInv, TargetInv, Holding
  <2>6. TargetInv'
    BY <1>3, <1>5, <2>1, <2>4, <2>5 DEF TargetInv, Holding
  <2> QED BY <2>3, <2>6
<1>7. CASE FlushWait
  <2>1. pc = "wait" /\ pc' = "prefetch" /\ ~ locked[cur] /\ cur' = cur
    BY <1>7 DEF FlushWait
  <2>2. CleanInv'
    BY <1>2, <1>3, <2>1 DEF RangeInv, CleanInv
  <2>3. at = Wanted'
    BY <1>4, <2>1 DEF RangeInv, TargetInv, Holding
  <2>4. TargetInv'
    BY <1>3, <1>5, <2>1, <2>3 DEF TargetInv, Holding
  <2> QED BY <2>2, <2>4
<1> QED BY <1>6, <1>7

(* fetch(): the other buffer is not going to hold what is wanted. *)
LEMMA RangeFetch ==
    ASSUME RangeInv, OneWorker, FlushFetch
    PROVE  CleanInv' /\ TargetInv'
<1>1. /\ pc = "fetch" /\ pc' = "wait" /\ UNCHANGED <<buffer, cur, holder, at, done, req>>
      /\ Post(cur, "FETCH", at)
  BY DEF FlushFetch
<1>2. cur \in Buffers /\ PoolInv /\ at \in Nat
  BY DEF RangeInv, PoolInv, TypeInv, ClientType
<1> PICK k \in Buffers : k = cur
  BY <1>2
<1>3. /\ \A b \in Buffers : b # k => Target(b)' = Target(b) /\ (Fetching(b)' <=> Fetching(b))
      /\ Target(k)' = Whole(at)
      /\ \A b \in Buffers : locked[b] => locked'[b]
      /\ locked'[k] /\ ~ locked[k]
  <2>1. Post(k, "FETCH", at)
    BY <1>1
  <2> QED BY <1>1, <1>2, <2>1, TargetPost
<1>4. Wanted' = Wanted /\ at = Wanted
  BY <1>1 DEF Wanted, RangeInv, TargetInv, Holding
<1>5. \A b \in Buffers : b # k => Target(b) \cap Whole(at) = {}
  <2> SUFFICES ASSUME NEW b \in Buffers, b # k, Target(b) \cap Whole(at) # {} PROVE FALSE
    OBVIOUS
  <2>1. at \in Target(b)
    BY <1>2, WholeIs, TargetsMeet
  <2> QED BY <1>1, <2>1 DEF RangeInv, TargetInv
<1>6. ~ buffer[k].dirtyBit
  BY <1>1, <1>3 DEF RangeInv, CleanInv
<1>7. CleanInv'
  BY <1>1, <1>3, <1>6 DEF RangeInv, CleanInv
<1>8. TargetInv'
  <2>1. \A b, d \in Buffers : b # d /\ Target(b)' \cap Target(d)' # {} =>
                Wanted' \notin Target(b)' /\ ~ buffer[b].dirtyBit
    <3> SUFFICES ASSUME NEW b \in Buffers, NEW d \in Buffers, b # d,
                        Target(b)' \cap Target(d)' # {}
                 PROVE  Wanted' \notin Target(b)' /\ ~ buffer[b].dirtyBit
      OBVIOUS
    <3>1. b # k /\ d # k
      BY <1>3, <1>5
    <3> QED BY <1>3, <1>4, <3>1 DEF RangeInv, TargetInv
  <2> QED BY <1>1, <1>4, <2>1 DEF TargetInv, Holding
<1> QED BY <1>7, <1>8

(* prefetch(): if the working buffer is there already, it is clean and     *)
(* does not have what is wanted.                                           *)
LEMMA NotInNext ==
    ASSUME NEW o \in Nat
    PROVE  o \notin Whole(o + bufferSize)
<1> PICK S \in Nat \ {0} : S = bufferSize
  BY Sizes
<1> DEFINE q == (o + S) \div S
<1>1. q \in Int /\ o + S < S * q + S
  OBVIOUS
<1>2. S * q = q * S /\ q * S \in Int
  BY <1>1
<1> HIDE DEF q
<1>3. o < q * S
  BY <1>1, <1>2
<1> QED BY <1>2, <1>3 DEF q, Whole

LEMMA RangePrefetch ==
    ASSUME RangeInv, OneWorker, TwoBuffers, FlushPrefetch
    PROVE  CleanInv' /\ TargetInv'
<1>1. /\ pc = "prefetch" /\ pc' = "access" /\ UNCHANGED <<buffer, cur, holder, at, done, req>>
      /\ \/ UNCHANGED <<locked, pool>>
         \/ Post((cur + 1) % numOfBuffer, "PREFETCH", at + bufferSize)
  BY DEF FlushPrefetch
<1>2. cur \in Buffers /\ PoolInv /\ at \in Nat /\ ~ locked[cur]
  BY <1>1 DEF RangeInv, CleanInv, PoolInv, TypeInv, ClientType
<1> PICK k \in Buffers : k = (cur + 1) % numOfBuffer /\ k # cur
  BY <1>2, OtherIs
<1> PICK o \in Nat : o = at + bufferSize
  BY <1>2, Sizes
<1>3. Wanted' = Wanted /\ at = Wanted
  BY <1>1 DEF Wanted, RangeInv, TargetInv, Holding
<1>4. \A b, d \in Buffers : b # d /\ Target(b) \cap Target(d) # {} =>
            Wanted \notin Target(b) /\ ~ buffer[b].dirtyBit
  BY DEF RangeInv, TargetInv
<1>5. CASE UNCHANGED <<locked, pool>>
  <2>1. \A b \in Buffers : Target(b)' = Target(b) /\ (Fetching(b)' <=> Fetching(b))
    BY <1>1, <1>5 DEF Target, Fetching, Pending, pool
  <2>2. CleanInv'
    BY <1>1, <1>5, <2>1 DEF RangeInv, CleanInv
  <2>3. TargetInv'
    BY <1>1, <1>3, <1>4, <2>1 DEF TargetInv, Holding
  <2> QED BY <2>2, <2>3
<1>6. CASE Post((cur + 1) % numOfBuffer, "PREFETCH", at + bufferSize)
  <2>1. /\ \A b \in Buffers : b # k => Target(b)' = Target(b) /\ (Fetching(b)' <=> Fetching(b))
        /\ Target(k)' = Whole(o)
        /\ \A b \in Buffers : locked[b] => locked'[b]
        /\ locked'[k] /\ ~ locked[k]
    <3>1. Post(k, "PREFETCH", o)
      BY <1>6
    <3> QED BY <1>1, <1>2, <3>1, TargetPost
  <2>2. \A b \in Buffers : ~ buffer[b].dirtyBit
    <3>1. \A b \in Buffers : b = cur \/ b = k
      BY <1>2, OtherIs
    <3>2. \A b \in Buffers : buffer[b].dirtyBit => locked[b]
      BY <1>1 DEF RangeInv, CleanInv
    <3> QED BY <1>2, <2>1, <3>1, <3>2
  <2>3. CleanInv'
    BY <1>1, <2>2 DEF CleanInv
  <2>4. \A b, d \in Buffers : b # d /\ Target(b)' \cap Target(d)' # {} => at \notin Target(b)'
    <3> SUFFICES ASSUME NEW b \in Buffers, NEW d \in Buffers, b # d,
                        Target(b)' \cap Target(d)' # {}
                 PROVE  at \notin Target(b)'
      OBVIOUS
    <3>1. at \notin Whole(o)
      BY <1>2, NotInNext
    <3>2. CASE b = k
      BY <2>1, <3>1, <3>2
    <3>3. CASE b # k
      <4>1. d = k
        BY <1>2, <3>3, OtherIs
      <4>2. Target(b) \cap Whole(o) # {}
        BY <2>1, <3>3, <4>1
      <4>3. Target(b) = Whole(o)
        BY <1>2, <4>2, TargetsMeet
      <4> QED BY <2>1, <3>1, <3>3, <4>3
    <3> QED BY <3>2, <3>3
  <2>5. TargetInv'
    BY <1>1, <1>3, <2>2, <2>4 DEF TargetInv, Holding
  <2> QED BY <2>3, <2>5
<1> QED BY <1>1, <1>5, <1>6

LEMMA RangeFlushBuffer ==
    ASSUME RangeInv, OneWorker, FlushBuffer
    PROVE  CleanInv' /\ TargetInv'
<1>1. /\ pc \in Flushing /\ at \in Buffers /\ UNCHANGED <<buffer, cur, pc>>
      /\ IF buffer[at].dirtyBit THEN Post(at, "WRITEBACK", 0) ELSE UNCHANGED <<locked, pool>>
  BY DEF FlushBuffer, Flushing
<1>2. PoolInv
  BY DEF RangeInv
<1>3. /\ \A b \in Buffers : Target(b)' = Target(b) /\ (Fetching(b)' <=> Fetching(b))
      /\ \A b \in Buffers : locked[b] => locked'[b]
  <2>1. CASE buffer[at].dirtyBit
    BY <1>1, <1>2, <2>1, TargetPost
  <2>2. CASE ~ buffer[at].dirtyBit
    BY <1>1, <2>2 DEF Target, Fetching, Pending, pool
  <2> QED BY <2>1, <2>2
<1>4. CleanInv'
  BY <1>1, <1>3 DEF RangeInv, CleanInv, Flushing
<1>5. TargetInv'
  <2>1. pc \notin Holding
    BY <1>1 DEF Flushing, Holding
  <2>2. \A b, d \in Buffers : b # d => Target(b) \cap Target(d) = {}
    BY <2>1 DEF RangeInv, TargetInv
  <2> QED BY <1>1, <1>3, <2>1, <2>2 DEF TargetInv, Holding
<1> QED BY <1>4, <1>5

(* A worker only makes buffers clean. *)
LEMMA RangeWorker ==
    ASSUME RangeInv, OneWorker, NEW w \in Workers, WorkerStep(w)
    PROVE  CleanInv' /\ TargetInv'
<1>1. PoolInv
  BY DEF RangeInv
<1>2. UNCHANGED <<pc, cur, holder, at, done, req>> /\ \A b \in Buffers : Target(b)' = Target(b)
  BY <1>1, WorkerDoes DEF client
<1>3. Wanted' = Wanted
  BY <1>2 DEF Wanted
<1>4. \A b \in Buffers : \/ buffer'[b] = buffer[b] /\ locked'[b] = locked[b]
                         \/ ~ buffer'[b].dirtyBit
  BY <1>1, WorkerCleans DEF PoolInv
<1>5. \A b \in Buffers : (Fetching(b)' => Fetching(b)) /\ (locked'[b] => locked[b])
  <2>1. locked \in [Buffers -> BOOLEAN]
    BY <1>1 DEF PoolInv, TypeInv, PoolType
  <2>2. CASE UNCHANGED locked /\ \A b \in Buffers : Fetching(b)' <=> Fetching(b)
    BY <2>2
  <2>3. CASE \E b \in Buffers : /\ locked' = [locked EXCEPT ![b] = FALSE]
                                /\ ~ Fetching(b)'
                                /\ \A c \in Buffers : c # b => (Fetching(c)' <=> Fetching(c))
    BY <2>1, <2>3
  <2> QED BY <1>1, <2>2, <2>3, WorkerDoes
<1>6. \A b \in Buffers : buffer'[b].dirtyBit => buffer[b].dirtyBit /\ locked'[b] = locked[b]
  BY <1>4
<1>7. CleanInv'
  <2>1. cur \in Buffers
    BY DEF RangeInv, PoolInv, TypeInv, ClientType
  <2> QED BY <1>2, <1>5, <1>6, <2>1 DEF RangeInv, CleanInv
<1>8. TargetInv'
  <2>1. \A b, d \in Buffers : b # d /\ Target(b)' \cap Target(d)' # {} =>
            pc \in Holding /\ Wanted' \notin Target(b)' /\ ~ buffer'[b].dirtyBit
    BY <1>2, <1>3, <1>6 DEF RangeInv, TargetInv
  <2>2. /\ pc \in Holding \ {"access"} => at = Wanted'
        /\ pc \in {"writeBack", "search"} => \A b \in Buffers : at \in Target(b)' => b # cur
        /\ pc = "fetch" => \A b \in Buffers : at \in Target(b)' => b = cur
    BY <1>2, <1>3 DEF RangeInv, TargetInv
  <2> QED BY <1>2, <2>1, <2>2 DEF TargetInv
<1> QED BY <1>7, <1>8

(* An access leaves the buffers their ranges; it may make the working      *)
(* buffer dirty.                                                           *)
LEMMA AccessTargets ==
    ASSUME TypeInv, Access
    PROVE  \A b \in Buffers :
              /\ Target(b)' = Target(b) /\ (Fetching(b)' <=> Fetching(b))
              /\ buffer'[b].startAddress = buffer[b].startAddress
              /\ Extent(buffer'[b]) = Extent(buffer[b])
<1>1. UNCHANGED <<queue, worker>>
  BY DEF Access, pool
<1>2. Pending' = Pending
  BY <1>1 DEF Pending
<1>3. \A b \in Buffers : buffer'[b].startAddress = buffer[b].startAddress
                         /\ buffer'[b].contentSize = buffer[b].contentSize
  <2> DEFINE B == buffer[cur]
             s == req[holder].size - done
             v == req[holder].val
  <2>1. /\ cur \in Buffers /\ Wanted \in Addresses /\ s \in Nat \ {0} /\ req[holder] \in Requests
        /\ Taken = {} <=> ~ containOffset(B, Wanted)
        /\ \A c \in Buffers : c # cur => buffer'[c] = buffer[c]
        /\ buffer'[cur] = IF Taken = {} THEN B
                          ELSE IF req[holder].op = "read" THEN fetchPages(B, "read", s, Wanted)
                          ELSE writeToBuffer(B, s, Wanted, v)
    BY AccessDoes
  <2>2. BufferOK(B) /\ DiskType
    BY <2>1 DEF TypeInv, DiskType
  <2>3. req[holder].op # "read" => v \in Values
    BY <2>1 DEF Requests
  <2> HIDE DEF B, s, v
  <2>4. CASE Taken = {}
    BY <2>1, <2>4 DEF B
  <2>5. CASE Taken # {} /\ req[holder].op = "read"
    BY <2>1, <2>2, <2>5, FetchPagesIs DEF B
  <2>6. CASE Taken # {} /\ req[holder].op # "read"
    BY <2>1, <2>2, <2>3, <2>6, WriteToIs DEF B
  <2> QED BY <2>4, <2>5, <2>6
<1>4. \A b \in Buffers : Extent(buffer'[b]) = Extent(buffer[b])
  BY <1>3 DEF Extent
<1> QED BY <1>2, <1>3, <1>4 DEF Target, Fetching

(* The transfer: what it takes is in one buffer only. *)
LEMMA RangeAccess ==
    ASSUME RangeInv, OneWorker, TwoBuffers, Access
    PROVE  CleanInv' /\ TargetInv'
<1>1. TypeInv /\ PoolInv
  BY DEF RangeInv, PoolInv
<1>2. /\ cur \in Buffers /\ ~ locked[cur] /\ pc = "access"
      /\ req[holder].offset \in Nat
      /\ \A b \in Buffers : b # cur => buffer'[b] = buffer[b]
      /\ Taken = {} <=> ~ containOffset(buffer[cur], Wanted)
      /\ at' = req[holder].offset + done'
      /\ done' # req[holder].size => at' \notin Extent(buffer[cur])
      /\ done < req[holder].size /\ done # req[holder].size
  <2>1. done \in Nat /\ req[holder] \in Requests /\ done < req[holder].size
    BY <1>1, AccessDoes DEF TypeInv, ClientType
  <2>2. req[holder].offset \in Nat /\ req[holder].size \in Nat
    BY <2>1 DEF Requests
  <2> QED BY <1>1, <2>1, <2>2, AccessDoes
<1>3. /\ UNCHANGED <<locked, cur>>
      /\ IF done' = req[holder].size THEN pc' = "free"
         ELSE pc' = "writeBack" /\ UNCHANGED <<req, holder>>
  <2>1. IF done' = req[holder].size THEN pc' = "free"
         ELSE pc' = "writeBack" /\ UNCHANGED <<req, holder>>
    BY Zenon DEF Access
  <2> QED BY <2>1 DEF Access
<1>4. \A b \in Buffers : Target(b)' = Target(b) /\ (Fetching(b)' <=> Fetching(b))
  BY <1>1, AccessTargets
<1>5. ~ Fetching(cur) /\ Target(cur) = Extent(buffer[cur])
  <2>1. ~ Fetching(cur)
    BY <1>1, <1>2, PendingAre DEF Fetching
  <2> QED BY <1>1, <1>2, <2>1, TargetIs
<1> PICK k \in Buffers : k = cur /\ ~ Fetching(k) /\ Target(k) = Extent(buffer[cur])
  BY <1>2, <1>5
<1>6. CleanInv'
  <2>1. \A b \in Buffers : Fetching(b)' => ~ buffer'[b].dirtyBit
    BY <1>2, <1>4 DEF RangeInv, CleanInv
  <2>2. pc' \notin {"search", "fetch", "wait", "prefetch"}
    BY <1>3
  <2>3. \A b \in Buffers : buffer'[b].dirtyBit /\ b # cur => locked[b]
    BY <1>2 DEF RangeInv, CleanInv
  <2> QED BY <1>3, <2>1, <2>2, <2>3 DEF CleanInv
<1>7. CASE Taken = {}
  <2>1. buffer' = buffer /\ done' = done
    <3>1. buffer'[cur] = buffer[cur]
      BY <1>1, <1>7, AccessDoes
    <3>2. DOMAIN buffer = Buffers /\ DOMAIN buffer' = Buffers /\ buffer = [b \in Buffers |-> buffer[b]]
          /\ buffer' = [b \in Buffers |-> buffer'[b]]
      <4>1. buffer \in [Buffers -> BufferShape]
        BY <1>1 DEF TypeInv, DiskType
      <4>2. buffer' \in [Buffers -> BufferShape]
        BY <1>1, TypeAccess DEF TypeInv, DiskType
      <4> QED BY <4>1, <4>2
    <3>3. buffer' = buffer
      BY <1>2, <3>1, <3>2
    <3>4. done' = done
      <4> PICK d \in Nat : d = done
        BY <1>1 DEF TypeInv, ClientType
      <4>1. done' = done + Cardinality(Taken)
        BY Zenon DEF Access, Taken, Wanted
      <4>2. Cardinality(Taken) = 0
        BY <1>7, FS_EmptySet
      <4> QED BY <4>1, <4>2
    <3> QED BY <3>3, <3>4
  <2>2. pc' = "writeBack" /\ UNCHANGED <<req, holder>>
    BY <1>2, <1>3, <2>1
  <2>3. Wanted' = Wanted /\ at' = Wanted'
    BY <1>2, <2>1, <2>2 DEF Wanted
  <2>4. \A b \in Buffers : at' \in Target(b)' => b # cur
    <3>1. at' \notin Target(k)
      BY <1>2, <2>1
    <3> QED BY <1>4, <3>1
  <2>5. \A b, d \in Buffers : b # d /\ Target(b)' \cap Target(d)' # {} =>
            Wanted' \notin Target(b)' /\ ~ buffer'[b].dirtyBit
    BY <1>4, <2>1, <2>3 DEF RangeInv, TargetInv
  <2>6. TargetInv'
    BY <1>3, <2>2, <2>3, <2>4, <2>5 DEF TargetInv, Holding
  <2> QED BY <1>6, <2>6
<1>8. CASE Taken # {}
  <2>1. Wanted \in Target(k)
    BY <1>2, <1>8 DEF containOffset
  <2>2. \A b \in Buffers : b # k => Target(b) \cap Target(k) = {}
    BY <2>1 DEF RangeInv, TargetInv
  <2>3. \A b, d \in Buffers : b # d => Target(b) \cap Target(d) = {}
    BY <1>2, <2>2, OtherIs
  <2>4. pc' = "writeBack" => /\ \A b \in Buffers : at' \in Target(b)' => b # cur
                             /\ at' = Wanted'
    BY <1>2, <1>3, <1>4, <1>5 DEF Wanted
  <2>5. TargetInv'
    BY <1>3, <1>4, <2>3, <2>4 DEF TargetInv, Holding
  <2> QED BY <1>6, <2>5
<1> QED BY <1>7, <1>8

(* Every step keeps the ranges of the two buffers apart. *)
LEMMA RangeNext ==
    ASSUME OneWorker, TwoBuffers
    PROVE  RangeInv /\ [Next]_vars => RangeInv'
<1> SUFFICES ASSUME RangeInv, [Next]_vars PROVE RangeInv'
  OBVIOUS
<1>1. PoolInv'
  BY TypeNext, JobsNext DEF RangeInv, PoolInv, OneWorker
<1>2. CASE \/ \E c \in Clients, r \in Ranges :
                 \/ Call(c, "read", r[1], r[2], 0)
                 \/ \E v \in Values : Call(c, "write", r[1], r[2], v)
           \/ \E c \in Clients : lockMutex(c)
  BY <1>1, <1>2, RangeCall DEF RangeInv
<1>3. CASE Open \/ OpenAgain \/ Close \/ Destroy \/ FlushBufferEnd \/ WaitJobs \/ Opened \/ EndPool
  <2>1. BuffersStay /\ cur' = cur
    BY <1>3, StaySteps DEF RangeInv, PoolInv, Open, OpenAgain, Close, Destroy, Start,
                           FlushBufferEnd, WaitJobs, Opened, EndPool
  <2>2. pc \notin Holding /\ pc' \notin Holding
    BY <1>3 DEF Open, OpenAgain, Close, Destroy, Start, FlushBufferEnd, WaitJobs, Opened,
                EndPool, Holding
  <2> QED BY <1>1, <2>1, <2>2, RangeIdle DEF RangeInv
<1>4. CASE UNCHANGED vars
  <2>1. BuffersStay /\ UNCHANGED <<buffer, locked, cur, pc, at, holder, done, req>>
    BY <1>4, StaySteps DEF RangeInv, PoolInv, vars, client
  <2>2. \A b \in Buffers : Target(b)' = Target(b) /\ (Fetching(b)' <=> Fetching(b))
    BY <2>1, StayTargets
  <2>3. Wanted' = Wanted
    BY <2>1 DEF Wanted
  <2>4. CleanInv' /\ TargetInv'
    BY <2>1, <2>2, <2>3 DEF RangeInv, CleanInv, TargetInv
  <2> QED BY <1>1, <2>4 DEF RangeInv
<1>5. CASE Access
  BY <1>1, <1>5, RangeAccess DEF RangeInv
<1>6. CASE FlushWriteBack \/ FlushSearch \/ FlushWait \/ FlushFetch \/ FlushPrefetch \/ FlushBuffer
  BY <1>1, <1>6, RangeWriteBack, RangeSearch, RangeFetch, RangePrefetch, RangeFlushBuffer DEF RangeInv
<1>7. ASSUME NEW w \in Workers, WorkerStep(w) PROVE RangeInv'
  BY <1>1, <1>7, RangeWorker DEF RangeInv
<1> QED BY <1>2, <1>3, <1>4, <1>5, <1>6, <1>7 DEF Next, ClientStep, Finished

-----------------------------------------------------------------------------
LEMMA OneWorkerNext == OneWorker => OneWorker'
BY DEF OneWorker

LEMMA TwoBuffersNext == TwoBuffers => TwoBuffers'
BY DEF TwoBuffers

(* The invariant of the ranges, at both ends of a step. *)
LEMMA HeldNext ==
    ASSUME RangeInv, OneWorker, TwoBuffers, [Next]_vars
    PROVE  HeldSeen /\ HeldSeen'
<1>1. RangeInv'
  BY RangeNext
<1>2. OneWorker'
  BY OneWorkerNext
<1>3. HeldSeen'
  BY <1>1, <1>2, HeldIs, PTL
<1> QED BY <1>3, HeldIs

(* What an address of the open file counts for in a buffer that has it. *)
LEMMA HoldsIs ==
    ASSUME HeldSeen, NEW b \in Buffers, ~ Fetching(b), NEW a \in Addresses, a \in Extent(buffer[b])
    PROVE  Holds(a) = See(buffer[b], a)
<1>1. CASE a \in Dirty(b)
  BY <1>1 DEF HeldSeen, See, Dirty
<1>2. CASE a \notin Dirty(b)
  <2>1. \A c \in Buffers : a \notin Dirty(c)
    BY <1>2 DEF HeldSeen
  <2>2. BlockOf(buffer[b], a) \notin buffer[b].dirtyBlock
    BY <1>2 DEF Dirty
  <2> QED BY <2>1, <2>2 DEF HeldSeen, See
<1> QED BY <1>1, <1>2

(* A worker changes where the contents are, not what the file holds. *)
LEMMA HoldsWorker ==
    ASSUME RangeInv, OneWorker, TwoBuffers, NEW w \in Workers, WorkerStep(w)
    PROVE  \A a \in Addresses : Holds(a)' = Holds(a)
<1>1. HeldSeen /\ HeldSeen'
  BY HeldNext DEF Next
<1>2. PoolInv /\ path' = path
  BY WorkerDoes DEF RangeInv, client
<1>3. CASE UNCHANGED <<disk, buffer>>
  BY <1>2, <1>3 DEF Holds, Held, Dirty
<1>4. ASSUME NEW b \in Buffers, NEW B, buffer' = [buffer EXCEPT ![b] = B],
             Renewed(b, B) \/ WrittenBack(b, B)
      PROVE  \A a \in Addresses : Holds(a)' = Holds(a)
  <2>0. buffer \in [Buffers -> BufferShape] /\ path \in Paths
        /\ disk \in [Paths -> [Addresses -> Contents]]
    BY DEF RangeInv, PoolInv, TypeInv, DiskType
  <2>1. buffer'[b] = B /\ \A c \in Buffers : c # b => buffer'[c] = buffer[c]
    BY <1>4, <2>0
  <2>2. \A c \in Buffers : c # b => Dirty(c)' = Dirty(c)
    BY <2>1 DEF Dirty, Extent, BlockOf
  <2>3. B.dirtyBlock = {}
    BY <1>4, <2>0 DEF Renewed, WrittenBack, Cleaned, BufferShape
  <2>4. Dirty(b)' = {}
    BY <2>1, <2>3 DEF Dirty
  <2>5. ASSUME NEW a \in Addresses, NEW c \in Buffers, c # b, a \in Dirty(c)
        PROVE  Holds(a)' = Holds(a)
    BY <1>1, <2>1, <2>2, <2>5 DEF HeldSeen
  <2>6. ASSUME NEW a \in Addresses, a \notin Dirty(b), \A c \in Buffers : c # b => a \notin Dirty(c)
        PROVE  Holds(a)' = Holds(a)
    <3>1. Holds(a)' = disk'[path][a] /\ Holds(a) = disk[path][a]
      BY <1>1, <1>2, <2>2, <2>4, <2>6 DEF HeldSeen
    <3>2. disk'[path][a] = disk[path][a]
      BY <1>4, <2>0, <2>6 DEF Renewed, WrittenBack
    <3> QED BY <3>1, <3>2
  <2>7. ASSUME NEW a \in Addresses, a \in Dirty(b)
        PROVE  Holds(a)' = Holds(a)
    <3>1. ~ Fetching(b) /\ \A c \in Buffers : c # b => a \notin Dirty(c)
      BY <1>1, <2>7 DEF HeldSeen
    <3>2. Holds(a)' = disk'[path][a]
      BY <1>1, <1>2, <2>2, <2>4, <3>1 DEF HeldSeen
    <3>3. disk'[path][a] = buffer[b].content[a - buffer[b].startAddress]
      BY <1>4, <2>0, <2>7, <3>1 DEF Renewed, WrittenBack
    <3> QED BY <1>1, <2>7, <3>2, <3>3 DEF HeldSeen
  <2> QED BY <2>5, <2>6, <2>7
<1> QED BY <1>2, <1>3, <1>4, WorkerDoes

LEMMA CoherentWorker ==
    ASSUME RangeInv, OneWorker, TwoBuffers, Coherent, NEW w \in Workers, WorkerStep(w)
    PROVE  Coherent'
<1>1. HeldSeen
  BY HeldIs
<1>2. PoolInv /\ path' = path
  BY WorkerDoes DEF RangeInv, client
<1>3. CASE UNCHANGED <<disk, buffer>> /\ \A c \in Buffers : Fetching(c)' <=> Fetching(c)
  BY <1>2, <1>3 DEF Coherent, SameAsDisk
<1>4. ASSUME NEW b \in Buffers, NEW B, buffer' = [buffer EXCEPT ![b] = B],
             Renewed(b, B) \/ WrittenBack(b, B),
             \A c \in Buffers : c # b => (Fetching(c)' <=> Fetching(c))
      PROVE  Coherent'
  <2>0. buffer \in [Buffers -> BufferShape] /\ path \in Paths
        /\ disk \in [Paths -> [Addresses -> Contents]]
    BY DEF RangeInv, PoolInv, TypeInv, DiskType
  <2>1. buffer'[b] = B /\ \A c \in Buffers : c # b => buffer'[c] = buffer[c]
    BY <1>4, <2>0
  <2> SUFFICES ASSUME NEW c \in Buffers, ~ Fetching(c)',
                      NEW a \in Addresses, a \in Extent(buffer'[c]),
                      PageOf(buffer'[c], a) \in buffer'[c].fetched,
                      BlockOf(buffer'[c], a) \notin buffer'[c].dirtyBlock
               PROVE  buffer'[c].content[a - buffer'[c].startAddress] = disk'[path][a]
    BY <1>2 DEF Coherent, SameAsDisk
  <2>2. CASE c # b
    <3>1. ~ Fetching(c) /\ buffer'[c] = buffer[c]
      BY <1>4, <2>1, <2>2
    <3>2. buffer[c].content[a - buffer[c].startAddress] = disk[path][a]
      BY <3>1 DEF Coherent, SameAsDisk
    <3>3. Renewed(b, B) \/ (WrittenBack(b, B) /\ a \notin Dirty(b))
      BY <1>1, <1>4, <2>2, <3>1 DEF HeldSeen
    <3>4. disk'[path][a] = disk[path][a]
      BY <2>0, <3>3 DEF Renewed, WrittenBack
    <3> QED BY <3>1, <3>2, <3>4
  <2>3. CASE c = b
    <3>1. WrittenBack(b, B)
      BY <1>4, <2>1, <2>3 DEF Renewed
    <3>2. /\ B.startAddress = buffer[b].startAddress /\ Extent(B) = Extent(buffer[b])
          /\ B.fetched = buffer[b].fetched /\ B.content = buffer[b].content
      BY <2>0, <3>1 DEF WrittenBack, Cleaned, BufferShape, Extent
    <3>3. PageOf(buffer[b], a) \in buffer[b].fetched /\ a \in Extent(buffer[b])
      BY <2>1, <2>3, <3>2 DEF PageOf
    <3>4. disk'[path][a] = IF a \in Dirty(b) THEN buffer[b].content[a - buffer[b].startAddress]
                           ELSE disk[path][a]
      BY <2>0, <3>1 DEF WrittenBack
    <3>5. a \notin Dirty(b) => buffer[b].content[a - buffer[b].startAddress] = disk[path][a]
      BY <3>1, <3>3 DEF WrittenBack, Coherent, SameAsDisk, Dirty
    <3> QED BY <2>1, <2>3, <3>2, <3>4, <3>5
  <2> QED BY <2>2, <2>3
<1> QED BY <1>2, <1>3, <1>4, WorkerDoes

(* A turn of the loop: a write gives what it takes of its range its value, *)
(* a read returns of it what the file holds.                               *)
LEMMA AccessBuffer ==
    ASSUME TypeInv, Access, NEW B, B = buffer[cur], SameAsDisk(B)
    PROVE  LET C == buffer'[cur]
               r == req[holder]
           IN  /\ C.startAddress = B.startAddress /\ Extent(C) = Extent(B) /\ SameAsDisk(C)
               /\ \A a \in Extent(B) :
                     See(C, a) = IF r.op = "write" /\ a \in Taken THEN r.val ELSE See(B, a)
               /\ r.op = "read" => \A a \in Taken :
                     fetchPages(B, "read", r.size - done, Wanted).content[a - B.startAddress] = See(B, a)
<1> DEFINE r == req[holder]
           C == buffer'[cur]
           s == r.size - done
           o == Wanted
           F == fetchPages(B, "read", s, o)
           W == writeToBuffer(B, s, o, r.val)
<1>1. /\ cur \in Buffers /\ o \in Addresses /\ s \in Nat \ {0} /\ r \in Requests
      /\ Taken = {} <=> ~ containOffset(B, o)
      /\ Taken # {} => Taken = Part(B, s, o)
      /\ C = IF Taken = {} THEN B ELSE IF r.op = "read" THEN F ELSE W
  BY AccessDoes
<1>2. BufferOK(B) /\ DiskType
  BY <1>1 DEF TypeInv, DiskType
<1>3. r.op \in {"read", "write"} /\ r.val \in Nat /\ (r.op = "write" => r.val \in Values)
  BY <1>1 DEF Requests
<1> PICK op \in {"read", "write"}, v \in Nat : op = r.op /\ v = r.val
  BY <1>3
<1> HIDE DEF r, C, s, o
<1>4. CASE Taken = {}
  BY <1>1, <1>4 DEF C, o
<1>5. CASE Taken # {} /\ op = "read"
  <2>1. C = F /\ containOffset(B, o) /\ Taken = Part(B, s, o)
    BY <1>1, <1>5
  <2>2. /\ F.startAddress = B.startAddress /\ F.contentSize = B.contentSize /\ SameAsDisk(F)
        /\ \A a \in Extent(B) : See(F, a) = See(B, a)
        /\ \A a \in Part(B, s, o) : F.content[a - B.startAddress] = See(B, a)
    BY <1>1, <1>2, <2>1, ReadLeaves
  <2> HIDE DEF F
  <2>3. Extent(C) = Extent(B)
    BY <2>1, <2>2 DEF Extent
  <2>4. r.op = "read" /\ r.op # "write"
    BY <1>5
  <2> QED BY <2>1, <2>2, <2>3, <2>4 DEF C, F, r, s, o
<1>6. CASE Taken # {} /\ op = "write"
  <2>0. r.op = "write" /\ r.op # "read" /\ v \in Values
    BY <1>3, <1>6
  <2>1. C = W /\ containOffset(B, o) /\ Taken = Part(B, s, o)
    BY <1>1, <1>6, <2>0
  <2>2. /\ W.startAddress = B.startAddress /\ W.contentSize = B.contentSize /\ SameAsDisk(W)
        /\ \A a \in Extent(B) : See(W, a) = IF a \in Part(B, s, o) THEN v ELSE See(B, a)
    BY <1>1, <1>2, <2>0, <2>1, WriteLeaves
  <2> HIDE DEF W
  <2>3. Extent(C) = Extent(B)
    BY <2>1, <2>2 DEF Extent
  <2>4. \A a \in Extent(B) : See(C, a) = IF r.op = "write" /\ a \in Taken THEN r.val ELSE See(B, a)
    BY <2>0, <2>1, <2>2
  <2> QED BY <2>0, <2>1, <2>2, <2>3, <2>4 DEF C, r
<1> QED BY <1>4, <1>5, <1>6

LEMMA AccessHolds ==
    ASSUME RangeInv, OneWorker, TwoBuffers, Coherent, Access
    PROVE  /\ Coherent'
           /\ \A a \in Addresses :
                 Holds(a)' = IF req[holder].op = "write" /\ a \in Taken THEN req[holder].val
                             ELSE Holds(a)
           /\ out' = [out EXCEPT ![holder] = [a \in (DOMAIN @) \cup Taken |->
                                                IF a \in Taken THEN Holds(a)' ELSE @[a]]]
<1> DEFINE r == req[holder]
           s == r.size - done
<1>1. HeldSeen /\ HeldSeen'
  BY HeldNext DEF Next, ClientStep
<1>2. TypeInv /\ PoolInv /\ UNCHANGED <<disk, path>>
  BY DEF RangeInv, PoolInv, Access
<1>3. /\ cur \in Buffers /\ ~ locked[cur] /\ holder \in Clients /\ r \in Requests
      /\ \A c \in Buffers : c # cur => buffer'[c] = buffer[c]
      /\ Taken \subseteq Extent(buffer[cur]) /\ Taken \subseteq Addresses
  <2>1. TypeInv
    BY <1>2
  <2>2. /\ cur \in Buffers /\ ~ locked[cur] /\ holder \in Clients /\ r \in Requests
        /\ \A c \in Buffers : c # cur => buffer'[c] = buffer[c]
        /\ Taken \subseteq Extent(buffer[cur]) /\ Wanted \in Addresses
        /\ Taken = {} <=> ~ containOffset(buffer[cur], Wanted)
    BY <2>1, AccessDoes
  <2>3. BufferOK(buffer[cur])
    BY <2>1, <2>2 DEF TypeInv, DiskType
  <2>4. Taken \subseteq Addresses
    BY <2>2, <2>3, InFile
  <2> QED BY <2>2, <2>4
<1> PICK k \in Buffers : k = cur
  BY <1>3
<1> PICK B : B = buffer[k]
  OBVIOUS
<1> PICK C : C = buffer'[k]
  OBVIOUS
<1>4. ~ Fetching(k)
  BY <1>2, <1>3, PendingAre DEF Fetching
<1>5. \A b \in Buffers : /\ Fetching(b)' <=> Fetching(b)
                         /\ Extent(buffer'[b]) = Extent(buffer[b])
  BY <1>2, AccessTargets
<1>6. SameAsDisk(B)
  BY <1>4 DEF Coherent
<1>7. /\ C.startAddress = B.startAddress /\ Extent(C) = Extent(B) /\ SameAsDisk(C)
      /\ \A a \in Extent(B) :
            See(C, a) = IF r.op = "write" /\ a \in Taken THEN r.val ELSE See(B, a)
      /\ r.op = "read" => \A a \in Taken :
            fetchPages(B, "read", s, Wanted).content[a - B.startAddress] = See(B, a)
  BY <1>2, <1>6, AccessBuffer
<1>8. Coherent'
  <2> SUFFICES ASSUME NEW b \in Buffers, ~ Fetching(b)'
               PROVE  SameAsDisk(buffer[b])'
    BY DEF Coherent
  <2>1. CASE b = k
    BY <1>2, <1>7, <2>1 DEF SameAsDisk
  <2>2. CASE b # k
    <3>1. SameAsDisk(buffer[b])
      BY <1>5 DEF Coherent
    <3>2. buffer'[b] = buffer[b]
      BY <1>3, <2>2
    <3> QED BY <1>2, <3>1, <3>2 DEF SameAsDisk
  <2> QED BY <2>1, <2>2
<1>9. \A c \in Buffers : c # k => Dirty(c)' = Dirty(c)
  BY <1>3 DEF Dirty, Extent, BlockOf
<1>10. ASSUME NEW a \in Addresses, a \in Extent(B)
       PROVE  Holds(a) = See(B, a) /\ Holds(a)' = See(C, a)
  <2>1. Holds(a) = See(B, a)
    BY <1>1, <1>4, <1>10, HoldsIs
  <2>2. \A c \in Buffers : c # k => a \notin Dirty(c)'
    BY <1>1, <1>4, <1>9, <1>10 DEF HeldSeen
  <2>3. a \in Dirty(k)' <=> BlockOf(C, a) \in C.dirtyBlock
    BY <1>7, <1>10 DEF Dirty
  <2>4. CASE a \in Dirty(k)'
    <3>1. Holds(a)' = C.content[a - C.startAddress]
      BY <1>1, <2>4 DEF HeldSeen
    <3> QED BY <2>1, <2>3, <2>4, <3>1 DEF See
  <2>5. CASE a \notin Dirty(k)'
    <3>1. Holds(a)' = disk[path][a]
      BY <1>1, <1>2, <2>2, <2>5 DEF HeldSeen
    <3> QED BY <2>1, <2>3, <2>5, <3>1 DEF See
  <2> QED BY <2>4, <2>5
<1>11. ASSUME NEW a \in Addresses, a \notin Extent(B)
       PROVE  Holds(a)' = Holds(a)
  <2>1. a \notin Dirty(k) /\ a \notin Dirty(k)'
    BY <1>7, <1>11 DEF Dirty
  <2>2. CASE \E c \in Buffers : a \in Dirty(c)
    <3> PICK c \in Buffers : a \in Dirty(c)
      BY <2>2
    <3>1. c # k /\ a \in Dirty(c)' /\ buffer'[c] = buffer[c]
      BY <1>3, <1>9, <2>1
    <3> QED BY <1>1, <3>1 DEF HeldSeen
  <2>3. CASE \A c \in Buffers : a \notin Dirty(c)
    <3>1. \A c \in Buffers : a \notin Dirty(c)'
      BY <1>9, <2>1, <2>3
    <3> QED BY <1>1, <1>2, <2>3, <3>1 DEF HeldSeen
  <2> QED BY <2>2, <2>3
<1>12. \A a \in Addresses : Holds(a)' = IF r.op = "write" /\ a \in Taken THEN r.val ELSE Holds(a)
  BY <1>3, <1>7, <1>10, <1>11
<1>13. out' = [out EXCEPT ![holder] = [a \in (DOMAIN @) \cup Taken |->
                                        IF a \in Taken THEN Holds(a)' ELSE @[a]]]
  <2> DEFINE F == fetchPages(B, "read", s, Wanted)
             new == [a \in Taken |-> F.content[a - B.startAddress]]
  <2>1. out' = [out EXCEPT ![holder] = [a \in (DOMAIN @) \cup Taken |->
                   IF a \notin Taken THEN @[a] ELSE IF r.op = "read" THEN new[a] ELSE r.val]]
    BY Zenon DEF Access, Taken, Wanted
  <2>2. ASSUME NEW a \in Taken
        PROVE  Holds(a)' = IF r.op = "read" THEN new[a] ELSE r.val
    <3>1. a \in Addresses /\ a \in Extent(B) /\ r.op \in {"read", "write"}
      BY <1>3 DEF Requests
    <3>2. CASE r.op = "read"
      <4>1. new[a] = See(B, a)
        BY <1>7, <3>2
      <4>2. Holds(a)' = Holds(a) /\ Holds(a) = See(B, a)
        BY <1>10, <1>12, <3>1, <3>2
      <4> QED BY <3>2, <4>1, <4>2
    <3>3. CASE r.op = "write"
      BY <1>12, <3>1, <3>3
    <3> QED BY <3>1, <3>2, <3>3
  <2> HIDE DEF new
  <2> DEFINE f(x) == [a \in (DOMAIN x) \cup Taken |->
                   IF a \notin Taken THEN x[a] ELSE IF r.op = "read" THEN new[a] ELSE r.val]
             g(x) == [a \in (DOMAIN x) \cup Taken |-> IF a \in Taken THEN Holds(a)' ELSE x[a]]
  <2>3. f(out[holder]) = g(out[holder])
    BY <2>2
  <2>4. out' = [out EXCEPT ![holder] = f(out[holder])]
    BY <2>1
  <2> HIDE DEF f
  <2>5. out' = [out EXCEPT ![holder] = g(out[holder])]
    BY <2>3, <2>4
  <2> QED BY <2>5
<1> QED BY <1>8, <1>12, <1>13

-----------------------------------------------------------------------------
OnePath == \A p, q \in Paths : p = q

RefInv == RangeInv /\ Coherent /\ AnswerInv

(* The steps but Access and those of the workers. *)
Elsewhere ==
    \/ \E c \in Clients, r \in Ranges :
          \/ Call(c, "read", r[1], r[2], 0)
          \/ \E v \in Values : Call(c, "write", r[1], r[2], v)
    \/ Open \/ OpenAgain \/ Close \/ Destroy \/ \E c \in Clients : lockMutex(c)
    \/ FlushWriteBack \/ FlushSearch \/ FlushFetch \/ FlushWait \/ FlushPrefetch
    \/ FlushBuffer \/ FlushBufferEnd \/ WaitJobs \/ Opened \/ EndPool
    \/ UNCHANGED vars

LEMMA StepIs ==
    ASSUME [Next]_vars
    PROVE  Access \/ Elsewhere \/ \E w \in Workers : WorkerStep(w)
BY DEF Next, ClientStep, Finished, Elsewhere

LEMMA CoherentElsewhere ==
    ASSUME RefInv, OneWorker, OnePath, Elsewhere, TypeInv'
    PROVE  Coherent' /\ UNCHANGED <<disk, buffer, path>> /\ \A a : Holds(a)' = Holds(a)
<1>1. TypeInv /\ PoolType /\ cur \in Buffers /\ at \in Nat /\ (cur + 1) % numOfBuffer \in Buffers
      /\ at + bufferSize \in Nat
  BY Sizes DEF RefInv, RangeInv, PoolInv, TypeInv, ClientType
<1>2. path' = path
  BY <1>1 DEF OnePath, TypeInv, DiskType
<1>3. CASE BuffersStay
  <2>1. \A b \in Buffers : Fetching(b)' <=> Fetching(b)
    BY <1>3, StayTargets
  <2> QED BY <1>2, <1>3, <2>1 DEF BuffersStay, RefInv, Coherent, SameAsDisk, Holds, Held, Dirty
<1>4. CASE FlushWriteBack \/ FlushFetch \/ FlushPrefetch \/ FlushBuffer
  <2>1. UNCHANGED <<disk, buffer>>
    BY <1>4 DEF FlushWriteBack, FlushFetch, FlushPrefetch, FlushBuffer
  <2>2. UNCHANGED pool \/ \E b \in Buffers, type \in {"WRITEBACK", "FETCH", "PREFETCH"}, o \in Nat :
                              Post(b, type, o)
    BY <1>1, <1>4 DEF FlushWriteBack, FlushFetch, FlushPrefetch, FlushBuffer
  <2>3. Pending \subseteq Pending'
    <3>1. CASE UNCHANGED pool
      BY <3>1 DEF Pending, pool
    <3>2. CASE \E b \in Buffers, type \in {"WRITEBACK", "FETCH", "PREFETCH"}, o \in Nat : Post(b, type, o)
      BY <1>1, <3>2, PendingPost
    <3> QED BY <2>2, <3>1, <3>2
  <2>4. \A b \in Buffers : Fetching(b) => Fetching(b)'
    BY <2>3 DEF Fetching
  <2> QED BY <1>2, <2>1, <2>4 DEF RefInv, Coherent, SameAsDisk, Holds, Held, Dirty
<1>5. CASE ~ (FlushWriteBack \/ FlushFetch \/ FlushPrefetch \/ FlushBuffer)
  BY <1>1, <1>3, <1>5, StaySteps DEF Elsewhere
<1> QED BY <1>4, <1>5

(* A range asked for is in the file. *)
LEMMA RangeOfCall ==
    ASSUME TypeInv, pc \in Holding
    PROVE  /\ holder \in Clients /\ req[holder] \in Requests /\ req[holder] # NoRequest
           /\ \A a \in req[holder].offset .. Wanted - 1 : a \in Addresses
           /\ \A a \in req[holder].offset .. req[holder].offset + req[holder].size - 1 : a \in Addresses
<1>1. holder \in Clients /\ req[holder] \in Requests /\ req[holder] # NoRequest
      /\ done < req[holder].size /\ done \in Nat
  BY DEF TypeInv, ClientType
<1>2. PICK f \in Nat, z \in Nat : f = req[holder].offset /\ z = req[holder].size /\ f + z - 1 <= Last
  BY <1>1 DEF Requests
<1>3. PICK d \in Nat : d = done
  BY <1>1
<1>4. Last \in Nat
  BY Sizes
<1>5. d < z
  BY <1>1, <1>2, <1>3
<1>6. \A a \in f .. f + d - 1 : a \in 0 .. Last
  BY <1>2, <1>4, <1>5
<1>7. \A a \in f .. f + z - 1 : a \in 0 .. Last
  BY <1>2, <1>4
<1> QED BY <1>1, <1>2, <1>3, <1>6, <1>7 DEF Addresses, Wanted

(* Steps that leave the calls alone. *)
LEMMA AnswerSame ==
    ASSUME RefInv, UNCHANGED <<req, out, holder, done>>, pc' \in Holding <=> pc \in Holding,
           \A a \in Addresses : Holds(a)' = Holds(a)
    PROVE  AnswerInv'
<1>1. AnswerInv /\ TypeInv
  BY DEF RefInv, RangeInv, PoolInv
<1>2. Wanted' = Wanted
  BY DEF Wanted
<1>3. ASSUME pc \in Holding, NEW a \in req[holder].offset .. Wanted - 1
      PROVE  /\ out[holder][a] = Holds(a)'
             /\ req[holder].op = "write" => Holds(a)' = req[holder].val
  <2>1. a \in Addresses
    BY <1>1, <1>3, RangeOfCall
  <2> QED BY <1>1, <1>3, <2>1 DEF AnswerInv
<1> QED BY <1>1, <1>2, <1>3 DEF AnswerInv

(* A request and a null pointer differ. *)
LEMMA RequestIs == Requests \subseteq CallRecords /\ NoRequest \notin Requests
<1>1. Requests \subseteq CallRecords
  BY DEF Requests, CallRecords
<1> QED BY <1>1, NoRequestAssumption

LEMMA AnswerCall ==
    ASSUME RefInv, NEW c \in Clients, NEW r \in Ranges,
           Call(c, "read", r[1], r[2], 0) \/ \E v \in Values : Call(c, "write", r[1], r[2], v)
    PROVE  AnswerInv'
<1>1. AnswerInv /\ TypeInv
  BY DEF RefInv, RangeInv, PoolInv
<1>2. /\ req[c] = NoRequest /\ out' = [out EXCEPT ![c] = <<>>]
      /\ UNCHANGED <<disk, buffer, path, holder, pc, done>>
      /\ \A d \in Clients : d # c => req'[d] = req[d]
  BY <1>1 DEF Call, TypeInv, ClientType
<1>3. DOMAIN out' = Clients /\ out'[c] = <<>> /\ \A d \in Clients : d # c => out'[d] = out[d]
  BY <1>1, <1>2 DEF AnswerInv
<1>4. pc \in Holding => holder \in Clients /\ holder # c
  BY <1>1, <1>2 DEF TypeInv, ClientType
<1>5. pc \in Holding => req'[holder] = req[holder] /\ out'[holder] = out[holder] /\ Wanted' = Wanted
  BY <1>2, <1>3, <1>4 DEF Wanted
<1>6. \A a : Holds(a)' = Holds(a)
  BY <1>2 DEF Holds, Held, Dirty
<1>7. pc \in Holding =>
          /\ DOMAIN out'[holder] = req'[holder].offset .. Wanted' - 1
          /\ \A a \in req'[holder].offset .. Wanted' - 1 :
                /\ out'[holder][a] = Holds(a)'
                /\ req'[holder].op = "write" => Holds(a)' = req'[holder].val
  BY <1>1, <1>5, <1>6 DEF AnswerInv
<1>8. \A d \in Clients : req'[d] # NoRequest /\ d # holder => out'[d] = <<>>
  BY <1>1, <1>2, <1>3 DEF AnswerInv
<1> QED BY <1>1, <1>2, <1>3, <1>7, <1>8 DEF AnswerInv

(* With the lock, nothing has been transferred. *)
LEMMA AnswerLock ==
    ASSUME RefInv, NEW c \in Clients, lockMutex(c)
    PROVE  AnswerInv'
<1>1. AnswerInv /\ TypeInv
  BY DEF RefInv, RangeInv, PoolInv
<1>2. /\ pc = "free" /\ pc' = "access" /\ req[c] # NoRequest /\ holder' = c /\ done' = 0
      /\ UNCHANGED <<req, out>>
  BY DEF lockMutex
<1>3. holder = NoRequest /\ c # holder
  BY <1>1, <1>2, NoRequestAssumption DEF AnswerInv, Holding
<1>4. out[c] = <<>>
  BY <1>1, <1>2, <1>3 DEF AnswerInv
<1>5. PICK f \in Nat : f = req[c].offset
  BY <1>1, <1>2 DEF TypeInv, ClientType, Requests
<1>6. Wanted' = f
  BY <1>2, <1>5 DEF Wanted
<1>7. req'[holder'].offset .. Wanted' - 1 = {} /\ DOMAIN out'[holder'] = {}
  <2>1. f .. f - 1 = {}
    OBVIOUS
  <2>2. DOMAIN <<>> = {}
    OBVIOUS
  <2> QED BY <1>2, <1>4, <1>5, <1>6, <2>1, <2>2
<1>8. \A d \in Clients : req'[d] # NoRequest /\ d # holder' => out'[d] = <<>>
  BY <1>1, <1>2, <1>3, NoRequestAssumption DEF AnswerInv
<1> QED BY <1>1, <1>2, <1>7, <1>8 DEF AnswerInv, Holding

(* What is transferred continues what has been. *)
LEMMA AnswerAccess ==
    ASSUME RefInv, OneWorker, TwoBuffers, Access
    PROVE  /\ AnswerInv'
           /\ out' = [out EXCEPT ![holder] = out'[holder]]
           /\ out'[holder] = [a \in req[holder].offset .. req[holder].offset + done' - 1 |-> Holds(a)']
           /\ \A a \in Addresses : Holds(a)' =
                 IF req[holder].op = "write"
                    /\ a \in req[holder].offset .. req[holder].offset + done' - 1
                 THEN req[holder].val ELSE Holds(a)
<1>1. AnswerInv /\ TypeInv /\ RangeInv /\ Coherent
  BY DEF RefInv, RangeInv, PoolInv
<1> PICK r \in Requests : r = req[holder] /\ holder \in Clients /\ r # NoRequest
  BY <1>1, AccessDoes
<1> PICK f \in Nat : f = r.offset
  BY DEF Requests
<1> PICK d \in Nat : d = done
  BY <1>1 DEF TypeInv, ClientType
<1>2. pc = "access" /\ Taken = f + d .. f + done' - 1 /\ done' \in d .. r.size
  BY <1>1, AccessDoes DEF Wanted
<1> PICK e \in Nat : e = done' /\ d <= e
  BY <1>2 DEF Requests
<1>3. Wanted = f + d
  BY DEF Wanted
<1>4. /\ DOMAIN out = Clients
      /\ DOMAIN out[holder] = f .. f + d - 1
      /\ \A a \in f .. f + d - 1 : out[holder][a] = Holds(a) /\ (r.op = "write" => Holds(a) = r.val)
      /\ \A c \in Clients : req[c] # NoRequest /\ c # holder => out[c] = <<>>
      /\ \A a \in f .. f + d - 1 : a \in Addresses
  <2>1. pc \in Holding
    BY <1>2 DEF Holding
  <2>2. req[holder].offset .. Wanted - 1 = f .. f + d - 1
    BY <1>3
  <2>3. \A a \in f .. f + d - 1 : a \in Addresses
    BY <1>1, <2>1, <2>2, RangeOfCall
  <2> QED BY <1>1, <2>1, <2>2, <2>3 DEF AnswerInv
<1>5. /\ \A a \in Addresses : Holds(a)' = IF r.op = "write" /\ a \in Taken THEN r.val ELSE Holds(a)
      /\ out' = [out EXCEPT ![holder] = [a \in (DOMAIN @) \cup Taken |->
                                           IF a \in Taken THEN Holds(a)' ELSE @[a]]]
  BY <1>1, AccessHolds
<1>6. (f .. f + d - 1) \cup Taken = f .. f + e - 1
  BY <1>2, SMTT(30)
<1>7. \A a \in f .. f + d - 1 : Holds(a)' = Holds(a)
  BY <1>4, <1>5
<1>8. out'[holder] = [a \in f .. f + e - 1 |-> Holds(a)']
  <2>1. out'[holder] = [a \in (DOMAIN out[holder]) \cup Taken |->
                          IF a \in Taken THEN Holds(a)' ELSE out[holder][a]]
    BY <1>4, <1>5
  <2>2. \A a \in f .. f + d - 1 : out[holder][a] = Holds(a)'
    BY <1>4, <1>7
  <2> QED BY <1>4, <1>6, <2>1, <2>2
<1>9. /\ DOMAIN out' = Clients /\ \A c \in Clients : c # holder => out'[c] = out[c]
      /\ out' = [out EXCEPT ![holder] = out'[holder]]
  BY <1>4, <1>5
<1>10. \A a \in Addresses : Holds(a)' = IF r.op = "write" /\ a \in f .. f + e - 1 THEN r.val ELSE Holds(a)
  BY <1>4, <1>5, <1>6
<1>11. \A a \in f .. f + e - 1 : r.op = "write" => Holds(a)' = r.val
  <2>1. \A a \in Taken : a \in Addresses
    <3>1. BufferOK(buffer[cur]) /\ cur \in Buffers
      BY <1>1, AccessDoes DEF TypeInv, DiskType
    <3>2. /\ Wanted \in Addresses /\ Taken \subseteq Extent(buffer[cur])
          /\ Taken = {} <=> ~ containOffset(buffer[cur], Wanted)
      BY <1>1, AccessDoes
    <3> QED BY <3>1, <3>2, InFile
  <2> QED BY <1>4, <1>5, <1>6, <1>7, <2>1
<1>12. IF e = r.size THEN req' = [req EXCEPT ![holder] = NoRequest] /\ holder' = NoRequest /\ pc' = "free"
       ELSE pc' = "writeBack" /\ UNCHANGED <<req, holder>>
  <2>1. IF done' = req[holder].size
        THEN req' = [req EXCEPT ![holder] = NoRequest] /\ holder' = NoRequest /\ pc' = "free"
        ELSE pc' = "writeBack" /\ UNCHANGED <<req, holder>>
    BY Zenon DEF Access
  <2> QED BY <2>1
<1>13. AnswerInv'
  <2>1. CASE e = r.size
    <3>1. \A c \in Clients : req'[c] # NoRequest => c # holder /\ req'[c] = req[c]
      BY <1>1, <1>12, <2>1 DEF TypeInv, ClientType
    <3>2. \A c \in Clients : req'[c] # NoRequest => out'[c] = <<>>
      BY <1>4, <1>9, <3>1
    <3>3. pc' \notin Holding /\ holder' = NoRequest
      BY <1>12, <2>1 DEF Holding
    <3> QED BY <1>9, <3>2, <3>3 DEF AnswerInv
  <2>2. CASE e # r.size
    <3>1. pc' \in Holding /\ UNCHANGED <<req, holder>>
      BY <1>12, <2>2 DEF Holding
    <3>2. Wanted' = f + e
      BY <3>1 DEF Wanted
    <3>3. DOMAIN out'[holder] = f .. f + e - 1 /\ \A a \in f .. f + e - 1 : out'[holder][a] = Holds(a)'
      BY <1>8
    <3>4. \A c \in Clients : req'[c] # NoRequest /\ c # holder => out'[c] = <<>>
      BY <1>4, <1>9, <3>1
    <3> QED BY <1>9, <1>11, <3>1, <3>2, <3>3, <3>4, SMTT(30) DEF AnswerInv
  <2> QED BY <2>1, <2>2
<1> QED BY <1>8, <1>9, <1>10, <1>13

LEMMA AnswerElsewhere ==
    ASSUME RefInv, OneWorker, OnePath, Elsewhere, TypeInv'
    PROVE  AnswerInv'
<1>1. \A a \in Addresses : Holds(a)' = Holds(a)
  BY CoherentElsewhere
<1>2. CASE \/ \E c \in Clients, r \in Ranges :
                 \/ Call(c, "read", r[1], r[2], 0)
                 \/ \E v \in Values : Call(c, "write", r[1], r[2], v)
           \/ \E c \in Clients : lockMutex(c)
  BY <1>2, AnswerCall, AnswerLock
<1>3. CASE ~ \/ \E c \in Clients, r \in Ranges :
                 \/ Call(c, "read", r[1], r[2], 0)
                 \/ \E v \in Values : Call(c, "write", r[1], r[2], v)
             \/ \E c \in Clients : lockMutex(c)
  <2>1. UNCHANGED <<req, out, holder, done>>
    BY <1>3 DEF Elsewhere, Open, OpenAgain, Close, Destroy, Start, FlushWriteBack, FlushSearch,
                FlushFetch, FlushWait, FlushPrefetch, FlushBuffer, FlushBufferEnd, WaitJobs,
                Opened, EndPool, vars, client
  <2>2. pc' \in Holding <=> pc \in Holding
    BY <1>3 DEF Elsewhere, Open, OpenAgain, Close, Destroy, Start, FlushWriteBack, FlushSearch,
                FlushFetch, FlushWait, FlushPrefetch, FlushBuffer, FlushBufferEnd, WaitJobs,
                Opened, EndPool, vars, client, Holding
  <2> QED BY <1>1, <2>1, <2>2, AnswerSame
<1> QED BY <1>2, <1>3

LEMMA AnswerWorker ==
    ASSUME RefInv, OneWorker, TwoBuffers, NEW w \in Workers, WorkerStep(w)
    PROVE  AnswerInv'
<1>1. RangeInv /\ PoolInv
  BY DEF RefInv, RangeInv
<1>2. UNCHANGED <<req, out, holder, done, pc>>
  BY <1>1, WorkerDoes DEF client
<1>3. \A a \in Addresses : Holds(a)' = Holds(a)
  BY <1>1, HoldsWorker
<1> QED BY <1>2, <1>3, AnswerSame

LEMMA RefNext ==
    ASSUME OneWorker, TwoBuffers, OnePath
    PROVE  RefInv /\ [Next]_vars => RefInv'
<1> SUFFICES ASSUME RefInv, [Next]_vars PROVE RefInv'
  OBVIOUS
<1>1. RangeInv /\ Coherent /\ RangeInv' /\ TypeInv'
  BY RangeNext DEF RefInv, RangeInv, PoolInv
<1>2. CASE Access
  BY <1>1, <1>2, AccessHolds, AnswerAccess DEF RefInv
<1>3. CASE Elsewhere
  BY <1>1, <1>3, CoherentElsewhere, AnswerElsewhere DEF RefInv
<1>4. ASSUME NEW w \in Workers, WorkerStep(w) PROVE RefInv'
  BY <1>1, <1>4, CoherentWorker, AnswerWorker DEF RefInv
<1> QED BY <1>2, <1>3, <1>4, StepIs

LEMMA RefInit ==
    ASSUME OneWorker
    PROVE  Init => RefInv
<1> SUFFICES ASSUME Init PROVE RefInv
  OBVIOUS
<1>1. PoolInv
  BY TypeInit DEF PoolInv, Init, JobsInv
<1>2. \A b \in Buffers : buffer[b] = clearContent
  BY DEF Init
<1>3. pc = "free" /\ pc \notin Holding
  BY DEF Init, Holding
<1>4. Pending = {}
  BY DEF Init, Pending
<1>5. \A b \in Buffers : ~ Fetching(b) /\ ~ buffer[b].dirtyBit
  BY <1>2, <1>4 DEF Fetching, clearContent
<1>6. \A b \in Buffers : Extent(buffer[b]) = {}
  <2>1. clearContent.startAddress = -1 /\ clearContent.contentSize = 0
    BY DEF clearContent
  <2>2. -1 .. -1 + 0 - 1 = {}
    OBVIOUS
  <2>3. Extent(clearContent) = {}
    BY <2>1, <2>2 DEF Extent
  <2> QED BY <1>2, <2>3
<1>7. CleanInv
  BY <1>3, <1>5 DEF CleanInv
<1>8. TargetInv
  <2>1. \A b \in Buffers : Target(b) = {}
    BY <1>5, <1>6 DEF Target
  <2> QED BY <1>3, <2>1 DEF TargetInv, Holding
<1>9. Coherent
  BY <1>6 DEF Coherent, SameAsDisk
<1>10. AnswerInv
  BY <1>3 DEF AnswerInv, Init
<1> QED BY <1>1, <1>7, <1>8, <1>9, <1>10 DEF RefInv, RangeInv

-----------------------------------------------------------------------------
(* The state of the atomic file. *)
Mem ==
    [p \in Paths |-> [a \in Addresses |->
        IF \E c \in Writing : p = path /\ a \in req[c].offset .. req[c].offset + req[c].size - 1
        THEN req[holder].val ELSE Held(p, a)]]

Out == [c \in Clients |-> IF req[c] = NoRequest THEN out[c] ELSE <<>>]

(* A write that has the lock has taken effect as a whole. *)
Value(a) ==
    IF holder \in Writing /\ a \in req[holder].offset .. req[holder].offset + req[holder].size - 1
    THEN req[holder].val ELSE Holds(a)

WritingIs == Writing = IF pc \in Holding /\ req[holder].op = "write" THEN {holder} ELSE {}

MemIs == Mem = [p \in Paths |-> [a \in Addresses |-> Value(a)]]

LEMMA WritingIsHolder == RefInv => WritingIs
<1> SUFFICES ASSUME RefInv PROVE WritingIs
  OBVIOUS
<1>1. CASE pc \in Holding
  BY <1>1 DEF WritingIs, Writing, RefInv, RangeInv, PoolInv, TypeInv, ClientType
<1>2. CASE pc \notin Holding
  BY <1>2, NoRequestAssumption DEF WritingIs, Writing, RefInv, AnswerInv
<1> QED BY <1>1, <1>2

LEMMA MemIsValue == OnePath /\ RefInv => MemIs
<1> SUFFICES ASSUME OnePath, RefInv PROVE MemIs
  OBVIOUS
<1>1. \A p \in Paths : p = path
  BY DEF OnePath, RefInv, RangeInv, PoolInv, TypeInv, DiskType
<1>2. \A c \in Writing : c = holder
  BY DEF Writing
<1>3. ASSUME NEW p \in Paths, NEW a \in Addresses
      PROVE  (IF \E c \in Writing : p = path /\ a \in req[c].offset .. req[c].offset + req[c].size - 1
              THEN req[holder].val ELSE Held(p, a)) = Value(a)
  BY <1>1, <1>2 DEF Value, Holds
<1> QED BY <1>3 DEF MemIs, Mem

(* At both ends of a step. *)
LEMMA MemNext ==
    ASSUME RefInv, OneWorker, TwoBuffers, OnePath, [Next]_vars
    PROVE  WritingIs /\ WritingIs' /\ MemIs /\ MemIs' /\ RefInv'
<1>1. RefInv'
  BY RefNext
<1>2. OnePath'
  BY DEF OnePath
<1>3. WritingIs' /\ MemIs'
  BY <1>1, <1>2, WritingIsHolder, MemIsValue, PTL
<1> QED BY <1>1, <1>3, WritingIsHolder, MemIsValue

LEMMA MemSame ==
    ASSUME MemIs, MemIs', \A a \in Addresses : Value(a)' = Value(a)
    PROVE  Mem' = Mem
BY DEF MemIs

AtomicStutter == UNCHANGED <<Mem, req, Writing, Out>>

LEMMA AtomicIs ==
    /\ \A c : Atomic!Call(c) <=>
          /\ req[c] = NoRequest
          /\ \E r \in Atomic!Requests : req' = [req EXCEPT ![c] = r]
          /\ Out' = [Out EXCEPT ![c] = <<>>]
          /\ UNCHANGED <<Mem, Writing>>
    /\ \A c : Atomic!Write(c) <=>
          /\ c \notin Writing
          /\ req[c] # NoRequest /\ req[c].op = "write"
          /\ Mem' = [Mem EXCEPT ![req[c].path] =
                        [a \in Addresses |-> IF a \in Atomic!Range(req[c]) THEN req[c].val ELSE @[a]]]
          /\ Writing' = Writing \cup {c}
          /\ UNCHANGED <<req, Out>>
    /\ \A c : Atomic!Return(c) <=>
          /\ req[c] # NoRequest
          /\ req[c].op = "write" <=> c \in Writing
          /\ Out' = [Out EXCEPT ![c] = [a \in Atomic!Range(req[c]) |-> Mem[req[c].path][a]]]
          /\ req' = [req EXCEPT ![c] = NoRequest]
          /\ Writing' = Writing \ {c}
          /\ UNCHANGED Mem
<1>2. \A c : Atomic!Call(c) <=>
          /\ req[c] = NoRequest
          /\ \E r \in Atomic!Requests : req' = [req EXCEPT ![c] = r]
          /\ Out' = [Out EXCEPT ![c] = <<>>]
          /\ UNCHANGED <<Mem, Writing>>
  BY Zenon DEF Atomic!Call, Mem, Out
<1>3. \A c : Atomic!Write(c) <=>
          /\ c \notin Writing
          /\ req[c] # NoRequest /\ req[c].op = "write"
          /\ Mem' = [Mem EXCEPT ![req[c].path] =
                        [a \in Addresses |-> IF a \in Atomic!Range(req[c]) THEN req[c].val ELSE @[a]]]
          /\ Writing' = Writing \cup {c}
          /\ UNCHANGED <<req, Out>>
  BY Zenon DEF Atomic!Write, Mem, Out
<1>4. \A c : Atomic!Return(c) <=>
          /\ req[c] # NoRequest
          /\ req[c].op = "write" <=> c \in Writing
          /\ Out' = [Out EXCEPT ![c] = [a \in Atomic!Range(req[c]) |-> Mem[req[c].path][a]]]
          /\ req' = [req EXCEPT ![c] = NoRequest]
          /\ Writing' = Writing \ {c}
          /\ UNCHANGED Mem
  BY Zenon DEF Atomic!Return, Mem, Out
<1> QED BY <1>2, <1>3, <1>4, Zenon

(* Workers, and what a thread does between the call and the return of a    *)
(* read or write, are no step of the atomic file.                          *)
LEMMA AtomicSame ==
    ASSUME MemIs, MemIs', UNCHANGED <<req, out, holder>>, \A a \in Addresses : Holds(a)' = Holds(a)
    PROVE  AtomicStutter
<1>1. Writing' = Writing
  BY DEF Writing
<1>2. \A a \in Addresses : Value(a)' = Value(a)
  BY <1>1 DEF Value
<1>3. Out' = Out
  BY DEF Out
<1> QED BY <1>1, <1>2, <1>3, MemSame DEF AtomicStutter

(* A call of the file. *)
LEMMA AtomicCall ==
    ASSUME RefInv, MemIs, MemIs', NEW c \in Clients, NEW r \in Ranges,
           Call(c, "read", r[1], r[2], 0) \/ \E v \in Values : Call(c, "write", r[1], r[2], v)
    PROVE  Atomic!Call(c)
<1> USE Sizes
<1>1. TypeInv /\ AnswerInv
  BY DEF RefInv, RangeInv, PoolInv
<1>2. PICK op \in {"read", "write"}, v \in Values \cup {0} : Call(c, op, r[1], r[2], v)
  OBVIOUS
<1> PICK o \in Nat, s \in Nat \ {0} : o = r[1] /\ s = r[2] /\ o + s - 1 <= Last
  BY CacheAssumption
<1> PICK q : q = [op |-> op, path |-> path, offset |-> o, size |-> s, val |-> v]
  OBVIOUS
<1>3. /\ req[c] = NoRequest /\ req' = [req EXCEPT ![c] = q] /\ out' = [out EXCEPT ![c] = <<>>]
      /\ UNCHANGED <<disk, buffer, path, holder>>
  BY <1>2 DEF Call
<1>4. q \in Atomic!Requests
  <2>1. Cardinality(Addresses) = Last + 1
    <3>1. 0 \in Int /\ Last \in Int /\ ~ 0 > Last /\ Last - 0 + 1 = Last + 1
      OBVIOUS
    <3>2. Cardinality(0 .. Last) = IF 0 > Last THEN 0 ELSE Last - 0 + 1
      BY <3>1, FS_Interval
    <3> QED BY <3>1, <3>2 DEF Addresses
  <2>4. Atomic!Cardinality(Addresses) = Cardinality(Addresses)
    BY DEF Cardinality, Atomic!Cardinality
  <2>2. o \in Addresses /\ s \in 1 .. Last + 1 /\ o .. o + s - 1 \subseteq Addresses
    BY SMTT(30) DEF Addresses
  <2>3. path \in Paths
    BY <1>1 DEF TypeInv, DiskType
  <2> QED BY <2>1, <2>2, <2>3, <2>4 DEF Atomic!Requests, Atomic!Range
<1>5. q # NoRequest
  <2>1. q \in CallRecords
    <3>1. path \in Paths /\ v \in Nat
      BY <1>1 DEF TypeInv, DiskType
    <3> QED BY <3>1 DEF CallRecords
  <2> QED BY <2>1, NoRequestAssumption
<1>6. req \in [Clients -> Requests \cup {NoRequest}] /\ DOMAIN out = Clients
  BY <1>1 DEF TypeInv, ClientType, AnswerInv
<1>7. /\ req'[c] = q /\ \A d \in Clients : d # c => req'[d] = req[d]
      /\ out'[c] = <<>> /\ \A d \in Clients : d # c => out'[d] = out[d]
  BY <1>3, <1>6
<1>8. Out' = [Out EXCEPT ![c] = <<>>]
  BY <1>5, <1>7, ZenonT(30) DEF Out
<1>9. holder # c
  <2>1. pc \in Holding => holder # c
    BY <1>1, <1>3 DEF TypeInv, ClientType
  <2>2. pc \notin Holding => holder = NoRequest
    BY <1>1 DEF AnswerInv
  <2> QED BY <2>1, <2>2, NoRequestAssumption
<1>10. Writing' = Writing
  BY <1>3, <1>7, <1>9 DEF Writing
<1>11. \A a \in Addresses : Value(a)' = Value(a)
  <2>1. \A a : Holds(a)' = Holds(a)
    BY <1>3 DEF Holds, Held, Dirty
  <2>2. holder \in Writing => req'[holder] = req[holder]
    BY <1>7, <1>9 DEF Writing
  <2> QED BY <1>3, <1>10, <2>1, <2>2 DEF Value
<1>12. Mem' = Mem
  BY <1>11, MemSame
<1> QED BY <1>3, <1>4, <1>8, <1>10, <1>12, AtomicIs

(* A write takes effect when it gets the lock. *)
LEMMA AtomicLock ==
    ASSUME RefInv, WritingIs, WritingIs', MemIs, MemIs', OnePath, NEW c \in Clients, lockMutex(c)
    PROVE  AtomicStutter \/ Atomic!Write(c)
<1>1. TypeInv /\ AnswerInv
  BY DEF RefInv, RangeInv, PoolInv
<1>2. /\ pc = "free" /\ pc' = "access" /\ req[c] # NoRequest /\ holder' = c
      /\ UNCHANGED <<disk, buffer, path, req, out>>
  BY DEF lockMutex
<1>3. Writing = {} /\ Writing' = IF req[c].op = "write" THEN {c} ELSE {}
  BY <1>2 DEF WritingIs, Holding
<1>4. \A a : Holds(a)' = Holds(a)
  BY <1>2 DEF Holds, Held, Dirty
<1>5. Out' = Out
  BY <1>2 DEF Out
<1>6. \A a \in Addresses : Value(a) = Holds(a)
  BY <1>3 DEF Value
<1>7. CASE req[c].op # "write"
  <2>1. \A a \in Addresses : Value(a)' = Value(a)
    BY <1>3, <1>4, <1>6, <1>7 DEF Value
  <2> QED BY <1>2, <1>3, <1>5, <1>7, <2>1, MemSame DEF AtomicStutter
<1>8. CASE req[c].op = "write"
  <2>1. \A a \in Addresses : Value(a)' = IF a \in Atomic!Range(req[c]) THEN req[c].val ELSE Value(a)
    BY <1>2, <1>3, <1>4, <1>6, <1>8 DEF Value, Atomic!Range
  <2>2. req[c].path \in Paths /\ \A p \in Paths : p = req[c].path
    BY <1>1, <1>2 DEF TypeInv, ClientType, Requests, OnePath
  <2>3. Mem' = [Mem EXCEPT ![req[c].path] =
                  [a \in Addresses |-> IF a \in Atomic!Range(req[c]) THEN req[c].val ELSE @[a]]]
    <3> DEFINE q == req[c].path
               m == [p \in Paths |-> [a \in Addresses |-> Value(a)]]
               n == [p \in Paths |-> [a \in Addresses |->
                        IF a \in Atomic!Range(req[c]) THEN req[c].val ELSE Value(a)]]
               M == [Mem EXCEPT ![req[c].path] =
                  [a \in Addresses |-> IF a \in Atomic!Range(req[c]) THEN req[c].val ELSE @[a]]]
    <3>1. Mem' = [p \in Paths |-> [a \in Addresses |-> Value(a)']]
      BY DEF MemIs
    <3>2. Mem' = n
      BY <2>1, <3>1
    <3>3. Mem = m
      BY DEF MemIs
    <3>4. Mem[q] = [a \in Addresses |-> Value(a)]
      BY <2>2, <3>3
    <3>5. [a \in Addresses |-> IF a \in Atomic!Range(req[c]) THEN req[c].val ELSE Mem[q][a]]
            = [a \in Addresses |-> IF a \in Atomic!Range(req[c]) THEN req[c].val ELSE Value(a)]
      BY <3>4
    <3>6. M = n
      BY <2>2, <3>3, <3>5
    <3> QED BY <3>2, <3>6
  <2> QED BY <1>2, <1>3, <1>5, <1>8, <2>3, AtomicIs
<1> QED BY <1>7, <1>8

(* The last turn of the loop is the return. *)
LEMMA AtomicAccess ==
    ASSUME RefInv, OneWorker, TwoBuffers, OnePath, Access, WritingIs, WritingIs', MemIs, MemIs'
    PROVE  AtomicStutter \/ \E c \in Clients : Atomic!Return(c)
<1>1. TypeInv /\ AnswerInv
  BY DEF RefInv, RangeInv, PoolInv
<1> PICK c \in Clients : c = holder
  BY <1>1, AccessDoes
<1> PICK r \in Requests : r = req[c] /\ r # NoRequest
  BY <1>1, AccessDoes
<1> PICK f \in Nat, z \in Nat : f = r.offset /\ z = r.size
  BY DEF Requests
<1> PICK e \in Nat : e = done' /\ e <= z
  <2>1. done' \in done .. r.size
    BY <1>1, AccessDoes
  <2> QED BY <1>1, <2>1 DEF TypeInv, ClientType
<1>2. pc = "access" /\ pc \in Holding
  BY <1>1, AccessDoes DEF Holding
<1>3. /\ out' = [out EXCEPT ![c] = out'[c]]
      /\ out'[c] = [a \in f .. f + e - 1 |-> Holds(a)']
      /\ \A a \in Addresses : Holds(a)' =
             IF r.op = "write" /\ a \in f .. f + e - 1 THEN r.val ELSE Holds(a)
  BY AnswerAccess
<1>4. Writing = IF r.op = "write" THEN {c} ELSE {}
  BY <1>2 DEF WritingIs
<1>5. \A a \in Addresses : Value(a) = IF r.op = "write" /\ a \in f .. f + z - 1 THEN r.val ELSE Holds(a)
  BY <1>4 DEF Value
<1>6. DOMAIN out = Clients /\ req \in [Clients -> Requests \cup {NoRequest}]
  BY <1>1 DEF AnswerInv, TypeInv, ClientType
<1>7. IF e = z THEN req' = [req EXCEPT ![c] = NoRequest] /\ holder' = NoRequest /\ pc' = "free"
      ELSE pc' = "writeBack" /\ UNCHANGED <<req, holder>>
  <2>1. IF done' = req[holder].size
        THEN req' = [req EXCEPT ![holder] = NoRequest] /\ holder' = NoRequest /\ pc' = "free"
        ELSE pc' = "writeBack" /\ UNCHANGED <<req, holder>>
    BY Zenon DEF Access
  <2> QED BY <2>1
<1>8. \A d \in Clients : d # c => out'[d] = out[d]
  BY <1>3, <1>6
<1>9. CASE e # z
  <2>1. UNCHANGED <<req, holder>> /\ pc' = "writeBack"
    BY <1>7, <1>9
  <2>2. Writing' = Writing
    BY <2>1 DEF Writing
  <2>3. \A d \in Clients : (IF req'[d] = NoRequest THEN out'[d] ELSE <<>>)
                             = (IF req[d] = NoRequest THEN out[d] ELSE <<>>)
    BY <1>8, <2>1
  <2>4. Out' = Out
    BY <2>3 DEF Out
  <2>5. \A a \in f .. f + e - 1 : a \in f .. f + z - 1
    OBVIOUS
  <2>6. \A a \in Addresses : Value(a)' = IF r.op = "write" /\ a \in f .. f + z - 1 THEN r.val ELSE Holds(a)'
    BY <1>4, <2>1, <2>2 DEF Value
  <2>7. \A a \in Addresses : Value(a)' = Value(a)
    BY <1>3, <1>5, <2>5, <2>6
  <2> QED BY <2>1, <2>2, <2>4, <2>7, MemSame DEF AtomicStutter
<1>10. CASE e = z
  <2>1. req' = [req EXCEPT ![c] = NoRequest] /\ holder' = NoRequest /\ pc' = "free"
    BY <1>7, <1>10
  <2>2. Writing' = {}
    BY <2>1 DEF WritingIs, Holding
  <2>3. \A a \in Addresses : Value(a)' = Holds(a)'
    BY <2>2 DEF Value
  <2>4. \A a \in Addresses : Value(a)' = Value(a)
    BY <1>3, <1>5, <1>10, <2>3
  <2>5. Mem' = Mem
    BY <2>4, MemSame
  <2>6. \A a \in f .. f + z - 1 : a \in Addresses
    BY <1>1, <1>2, RangeOfCall
  <2>7. r.path \in Paths
    BY DEF Requests
  <2>8. out'[c] = [a \in Atomic!Range(r) |-> Mem[r.path][a]]
    <3>1. \A a \in Addresses : Mem[r.path][a] = Value(a)
      BY <2>7 DEF MemIs
    <3>2. \A a \in f .. f + z - 1 : Holds(a)' = Mem[r.path][a]
      BY <2>3, <2>4, <2>6, <3>1
    <3>3. Atomic!Range(r) = f .. f + z - 1
      BY DEF Atomic!Range
    <3> QED BY <1>3, <1>10, <3>2, <3>3
  <2>9. Out' = [Out EXCEPT ![c] = out'[c]]
    <3>1. req'[c] = NoRequest /\ \A d \in Clients : d # c => req'[d] = req[d]
      BY <1>6, <2>1
    <3> QED BY <1>8, <3>1 DEF Out
  <2>10. r.op = "write" <=> c \in Writing
    BY <1>4
  <2>11. Writing' = Writing \ {c}
    BY <1>4, <2>2
  <2>12. Out' = [Out EXCEPT ![c] = [a \in Atomic!Range(r) |-> Mem[r.path][a]]]
    BY <2>8, <2>9
  <2>13. Atomic!Return(c)
    BY <2>1, <2>5, <2>10, <2>11, <2>12, AtomicIs
  <2> QED BY <2>13
<1> QED BY <1>9, <1>10

LEMMA AtomicNext ==
    ASSUME OneWorker, TwoBuffers, OnePath
    PROVE  RefInv /\ [Next]_vars => [Atomic!Next]_Atomic!vars
<1>0. AtomicStutter => UNCHANGED Atomic!vars
  BY Zenon DEF AtomicStutter, Atomic!vars, Mem, Out
<1> SUFFICES ASSUME RefInv, [Next]_vars PROVE AtomicStutter \/ Atomic!Next
  BY <1>0
<1>1. WritingIs /\ WritingIs' /\ MemIs /\ MemIs' /\ RefInv'
  BY MemNext
<1>2. RangeInv /\ PoolInv /\ TypeInv'
  BY <1>1 DEF RefInv, RangeInv, PoolInv
<1>3. CASE Access
  BY <1>1, <1>3, AtomicAccess DEF Atomic!Next
<1>4. ASSUME NEW c \in Clients, NEW r \in Ranges,
             Call(c, "read", r[1], r[2], 0) \/ \E v \in Values : Call(c, "write", r[1], r[2], v)
      PROVE  Atomic!Next
  BY <1>1, <1>4, AtomicCall DEF Atomic!Next
<1>5. ASSUME NEW c \in Clients, lockMutex(c)
      PROVE  AtomicStutter \/ Atomic!Next
  BY <1>1, <1>5, AtomicLock DEF Atomic!Next
<1>6. CASE /\ Elsewhere
           /\ ~ \E c \in Clients : \/ lockMutex(c)
                                   \/ \E r \in Ranges :
                                        \/ Call(c, "read", r[1], r[2], 0)
                                        \/ \E v \in Values : Call(c, "write", r[1], r[2], v)
  <2>1. UNCHANGED <<req, out, holder>>
    BY <1>6 DEF Elsewhere, Open, OpenAgain, Close, Destroy, Start, FlushWriteBack, FlushSearch,
                FlushFetch, FlushWait, FlushPrefetch, FlushBuffer, FlushBufferEnd, WaitJobs,
                Opened, EndPool, vars, client
  <2>2. \A a \in Addresses : Holds(a)' = Holds(a)
    BY <1>2, <1>6, CoherentElsewhere
  <2> QED BY <1>1, <2>1, <2>2, AtomicSame
<1>7. ASSUME NEW w \in Workers, WorkerStep(w)
      PROVE  AtomicStutter
  <2>1. UNCHANGED <<req, out, holder>>
    BY <1>2, <1>7, WorkerDoes DEF client
  <2>2. \A a \in Addresses : Holds(a)' = Holds(a)
    BY <1>2, <1>7, HoldsWorker
  <2> QED BY <1>1, <2>1, <2>2, AtomicSame
<1> QED BY <1>3, <1>4, <1>5, <1>6, <1>7, StepIs DEF Elsewhere

LEMMA AtomicInit ==
    ASSUME OneWorker, OnePath
    PROVE  Init => Atomic!Init
<1> SUFFICES ASSUME Init PROVE Atomic!Init
  OBVIOUS
<1>1. RefInv
  BY RefInit
<1>2. WritingIs /\ MemIs
  BY <1>1, WritingIsHolder, MemIsValue
<1>3. Writing = {}
  BY <1>2 DEF WritingIs, Init, Holding
<1>4. \A a \in Addresses : Value(a) = First
  <2>1. disk = [p \in Paths |-> [a \in Addresses |-> First]] /\ path \in Paths
        /\ \A b \in Buffers : buffer[b] = clearContent
    BY DEF Init
  <2>2. clearContent.dirtyBlock = {}
    BY DEF clearContent
  <2>3. \A b \in Buffers : Dirty(b) = {}
    BY <2>1, <2>2 DEF Dirty
  <2>4. \A a \in Addresses : Holds(a) = First
    BY <2>1, <2>3 DEF Holds, Held
  <2> QED BY <1>3, <2>4 DEF Value
<1>5. Mem = [p \in Paths |-> [a \in Addresses |-> First]]
  BY <1>2, <1>4 DEF MemIs
<1>6. req = [c \in Clients |-> NoRequest] /\ Out = [c \in Clients |-> <<>>]
  BY DEF Init, Out
<1> QED BY <1>3, <1>5, <1>6, Zenon DEF Atomic!Init, Mem, Out

(* With one worker, two buffers and one file, the cache implements the     *)
(* atomic file: whatever the fetches, the write backs and the evictions,   *)
(* and whoever else calls, a read returns one state of its whole range,    *)
(* and no write is lost.                                                   *)
THEOREM FileIsAtomic ==
    ASSUME OneWorker, TwoBuffers, OnePath
    PROVE  Spec => ImplementsAtomicFile
<1>1. Init => RefInv /\ Atomic!Init
  BY RefInit, AtomicInit
<1>2. RefInv /\ [Next]_vars => RefInv'
  BY RefNext
<1>3. RefInv /\ [Next]_vars => [Atomic!Next]_Atomic!vars
  BY AtomicNext
<1> QED BY <1>1, <1>2, <1>3, PTL DEF Spec, ImplementsAtomicFile, Atomic!Spec
=============================================================================
