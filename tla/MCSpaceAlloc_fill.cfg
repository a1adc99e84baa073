CONSTANTS
    N = 4
    K = 3
    StripSize = 2
    Size = 5
    SizeOfDisk0 = 5
    FreeSize <- MCFreeSize
    RaidTypes = {0, 1, 4, 5, 6, 13, 61, 62, 63, 64, 100, 130}
    Names = {a}
    NoName = NoName
    Inodes = {i1}
    NoInode = NoInode
    MaxBlocks = 20
    MaxCount = 6
    MaxList = 1
    Threads = {t1}
    Serial = TRUE
    Env = {"remove"}
    BlockSize = 2
    IntHalf = 64
SPECIFICATION Spec
SYMMETRY Symmetry
INVARIANTS NoSharedBlock DataNotOnParity 
CHECK_DEADLOCK TRUE
