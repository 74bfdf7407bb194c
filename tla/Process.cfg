SPECIFICATION ChosenSpec
CONSTANTS
    p1 = p1
    p2 = p2
    p3 = p3
    idleproc = idleproc
    initproc = initproc
    AnyChild = AnyChild
    User <- ThreeUsers
    Killable <- KillAny
    MaxProcess = 5
INVARIANTS
    RunQueueExact
    NoLostWakeup
    ParentAlive
    NoAssertFails
PROPERTIES
    ImplementsLifecycle
    OrphansReaped
    SleepReturns
    KilledStopsRunning
CHECK_DEADLOCK FALSE
