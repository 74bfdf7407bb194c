SPECIFICATION VmSpec
CONSTANTS
    u1 = u1
    u2 = u2
    User <- Users2
    NFrame = 17
    USTACKTOP = 4
    USTACKPAGE = 2
    NStack = 1
    NPTEENTRY = 2
    Programs <- TwoPrograms
    Image = Image
    Written = {0}
    Leftover = Leftover
SYMMETRY Alike
INVARIANTS
    FramesExact
    PagesInAreas
PROPERTY ImplementsPrivateMemory
CHECK_DEADLOCK FALSE
