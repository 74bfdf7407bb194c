SPECIFICATION Spec
CONSTANTS
    u1 = u1
    u2 = u2
    u3 = u3
    User <- Users
    initproc = initproc
    NULL = NULL
    MaxProcess = 5
    MaxPid = 6
INVARIANTS
    LinksExact
    PidsUnique
PROPERTY ImplementsLifecycle
