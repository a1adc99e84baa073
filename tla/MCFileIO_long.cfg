CONSTANTS
    Paths = {f}
    NoPath = NoPath
    Geometries <- MCPlain
    Descriptors <- MCDescriptors
    NumBlocks = 3
    MaxLength = 6
    MaxRequest = 6
    MaxWrites = 1
    Usage = {"long"}
SPECIFICATION Spec
PROPERTIES ReadsExactly
\* The process may end (exit(-1) of no_cache.cc).
CHECK_DEADLOCK FALSE
