\* Every call returns. Two TryInit create at most three drivers.
CONSTANTS
    g1 = g1  g2 = g2  inner = inner  d1 = d1  d2 = d2  d3 = d3  h1 = h1
    Inner = inner
    Callers <- OneCaller
    Admins <- TwoAndInner
    Drivers <- ThreeDrivers
    Handles <- OneHandle
    RowHandles <- NoHandles
    MaxTxDepth = 1
    MaxInits = 2
    Closed = Closed
    None = None
SPECIFICATION ReentrySpec
INVARIANT HandlerCloseIsForced
PROPERTIES
    CallsReturn
    RetiredIsClosed
