\* Two goroutines open, ping and close two databases and their group, a third pings them.
CONSTANTS
    g1 = g1  g2 = g2  g3 = g3  a = a  b = b
    Goroutines <- ThreeGoroutines
    Owners <- TwoOwners
    DBs <- TwoDBs
    None = None
SPECIFICATION Spec
INVARIANTS
    TypeOK
    NothingForgotten
PROPERTIES
    GroupReports
    NoCloseUnderPing
    CallsReturn
