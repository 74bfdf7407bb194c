SPECIFICATION Spec
CONSTANTS
    u1 = u1
    u2 = u2
    User <- Users
    initproc = initproc
    f = f
    SfsFile <- OneFile
    root = root
    stdin = stdin
    None = None
    NFD = 3
    MAX_INODE_COUNT = 8
    MaxLost = 1
INVARIANT CountsExact
PROPERTY ExecKeepsStandard
CHECK_DEADLOCK FALSE
