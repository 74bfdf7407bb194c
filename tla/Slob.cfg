SPECIFICATION Spec
CONSTANTS
    NPage = 6
    Zones <- TwoZones
    PageUnits = 6
    Sizes = {3, 4, 12}
    Blocks = {1, 2, 3}
INVARIANTS
    PagesPartitioned
    FirstFit
    RingSorted
    UnitsPartitioned
CHECK_DEADLOCK FALSE
