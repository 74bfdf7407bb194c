SPECIFICATION Spec
CONSTANTS
    f1 = f1
    f2 = f2
    h1 = h1
    h2 = h2
    File <- TwoFiles
    Handle <- TwoHandles
    Closed = Closed
    NoInode = NoInode
    Byte = {1}
    BLK = 2
    NDIRECT = 1
    NENTRY = 2
    MaxFileSize = 8
    NBlock = 4
    Lengths = {3}
    Positions = {5}
INVARIANT IndexWithinBlocks
CHECK_DEADLOCK FALSE
