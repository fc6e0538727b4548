\* Two callers, two goroutines that close and re-initialise (one is also a caller).
CONSTANTS
    g1 = g1  g2 = g2  g3 = g3  d1 = d1  d2 = d2  d3 = d3  h1 = h1  h2 = h2
    Callers <- TwoGoroutines
    Admins <- G2AndG3
    Drivers <- ThreeDrivers
    Handles <- NoHandles
    RowHandles <- NoHandles
    MaxTxDepth = 1
    MaxInits = 3
    Closed = Closed
    None = None
SPECIFICATION Spec
SYMMETRY DriverSymmetry
INVARIANTS
    TypeOK
    NoCallOnClosedDriver
    DrainBeforeClose
    NoConnectionLeak
    SingleCloser
