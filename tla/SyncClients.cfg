SPECIFICATION FairSpec
CONSTANTS
    t0 = t0
    t1 = t1
    t2 = t2
    idleproc = idleproc
    initproc = initproc
    N = 3
    TIMES = 2
    MaxValue = 1
    User <- Threads3
    Who <- Who3
    Sem <- Sems3
    Cv <- Cv3
INVARIANTS
    NoUnitHeldBack
    NeighboursExclude
    HungryForAReason
    OneInMonitor
    CountsAgree
    SignalledIsSeated
PROPERTIES
    ImplementsCounting
    FirstComeFirstServed
    DinnerEnds
CHECK_DEADLOCK FALSE
