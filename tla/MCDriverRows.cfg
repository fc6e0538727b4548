\* A Rows and a Row held by two callers, one of which closes and re-initialises.
CONSTANTS
    g1 = g1  g2 = g2  g3 = g3  d1 = d1  d2 = d2  d3 = d3  h1 = h1  h2 = h2
    Callers <- TwoGoroutines
    Admins <- OnlyG2
    Drivers <- TwoDrivers
    Handles <- TwoHandles
    RowHandles <- OnlyH2
    MaxTxDepth = 1
    MaxInits = 2
    Closed = Closed
    None = None
SPECIFICATION Spec
SYMMETRY DriverSymmetry
INVARIANTS
    RefsMatchPins
    RowsClosedWithDriver
PROPERTIES
    TimeoutHasCause
    ImplementsGenerations
