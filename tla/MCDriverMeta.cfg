\* The metadata a call in flight looks up.
CONSTANTS
    g1 = g1  g2 = g2  g3 = g3  d1 = d1  d2 = d2  d3 = d3  h1 = h1  h2 = h2
    Callers <- OneGoroutine
    Admins <- OnlyG2
    Drivers <- TwoDrivers
    Handles <- NoHandles
    RowHandles <- NoHandles
    MaxTxDepth = 0
    MaxInits = 2
    Closed = Closed
    None = None
SPECIFICATION Spec
SYMMETRY DriverSymmetry
INVARIANT PinnedCallHasItsMetadata
