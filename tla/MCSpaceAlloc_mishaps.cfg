CONSTANTS
    N = 3
    K = 2
    StripSize = 2
    Size = 1
    SizeOfDisk0 = 1
    FreeSize <- MCFreeSize
    RaidTypes = {5, 62}
    Names = {a, b}
    NoName = NoName
    Inodes = {i1, i2}
    NoInode = NoInode
    MaxBlocks = 1
    MaxCount = 2
    MaxList = 2
    Threads = {t1}
    Serial = FALSE
    Env = {"overwrite", "sparse", "stale", "link", "replace", "truncate", "shorten", "remove", "empty", "crash"}
    BlockSize = 2
    IntHalf = 64
SPECIFICATION Spec
SYMMETRY Symmetry
INVARIANTS TypeOK
 
CHECK_DEADLOCK TRUE
