SPECIFICATION Spec
CONSTANTS
    u1 = u1
    u2 = u2
    User <- TwoUsers
    idleproc = idleproc
    initproc = initproc
    BufSize = 2
    MaxLen = 2
    MaxKeys = 5
INVARIANTS
    QueueExact
    NoReaderForgotten
    ReadInOrder
