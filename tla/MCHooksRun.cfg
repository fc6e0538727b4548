\* Handlers registered before and during calls on two tables.
CONSTANTS
    h1 = h1  h2 = h2  h3 = h3  t1 = t1  t2 = t2  c1 = c1  c2 = c2
    Goroutines = {1}
    Handlers <- ThreeHandlers
    Tables <- TwoTables
    Ops <- AllOps
    Accepts <- AcceptMost
    Implements <- MixedRoles
    InnerDrivers <- AnyDriver
    Global = Global
    Contents <- TwoContents
    Nil = Nil
SPECIFICATION Spec
INVARIANTS
    TypeOK
    GuardsRun
    AfterCoversBefore
