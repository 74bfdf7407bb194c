SPECIFICATION ChosenSpec
CONSTANTS
    p1 = p1
    p2 = p2
    p3 = p3
    idle = idle
    Nil = Nil
    Task <- ThreeTasks
    Wrap = 8
    Slices = 1
    Priorities = {1, 2, 3}
INVARIANTS
    HeapExact
    SpreadBounded
PROPERTIES
    PicksLeast
    NoStarvation
