SPECIFICATION FairSpec
CONSTANTS
    p1 = p1
    p2 = p2
    p3 = p3
    idleproc = idleproc
    initproc = initproc
    AnyChild = AnyChild
    User <- TwoUsers
    Killable <- KillUsers
    MaxProcess = 4
PROPERTY KilledExits
CHECK_DEADLOCK FALSE
