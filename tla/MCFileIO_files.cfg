CONSTANTS
    Paths = {f, g}
    NoPath = NoPath
    Geometries <- MCGeometries
    Descriptors <- MCDescriptors
    NumBlocks = 3
    MaxLength = 4
    MaxRequest = 4
    MaxWrites = 2
    Usage = {}
SYMMETRY MCSymmetry
SPECIFICATION Spec
INVARIANTS TypeOK HandleKeepsItsPath
PROPERTIES ImplementsFileStore
\* The process may end (exit(-1) of no_cache.cc).
CHECK_DEADLOCK FALSE
