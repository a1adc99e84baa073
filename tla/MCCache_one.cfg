CONSTANTS
    Clients = {c1, c2}
    Workers = {w1}
    numOfBuffer = 2
    bufferSize = 2
    pageSize = 2
    blockSize = 1
    Paths = {p1}
    Last = 5
    First = 2
    Values = {1}
    Ranges <- MCRanges
    MaxCalls = 2
    MaxOpens = 2
    NoRequest = NoRequest
    NoJob = NoJob
SPECIFICATION FairSpec
INVARIANTS
    TypeOK
    JobHasItsBuffer
    EmptiedToDisk
PROPERTIES
    ImplementsAtomicFile
    CallsReturn
