CONSTANTS
    N = 3
    K = 2
    StripSize = 2
    Size = 2
    SizeOfDisk0 = 2
    FreeSize <- MCFreeSize
    RaidTypes = {1, 5, 6, 13, 62, 63}
    Names = {a, b}
    NoName = NoName
    Inodes = {i1, i2}
    NoInode = NoInode
    MaxBlocks = 2
    MaxCount = 3
    MaxList = 20
    Threads = {t1}
    Serial = TRUE
    Env = {"overwrite", "replace", "truncate", "stale", "remove"}
    BlockSize = 2
    IntHalf = 64
SPECIFICATION Spec
SYMMETRY Symmetry
INVARIANTS NoSharedBlock ListedIsDeleted
PROPERTY RecycledOnlyWhenFull
CHECK_DEADLOCK TRUE
