\* Three clients of Tcaplus, or of a SQL driver with the default isolation.
CONSTANTS
    c1 = c1  c2 = c2  c3 = c3
    Clients <- ThreeClients
    Stores <- AllStores
    NewVersions <- FirstVersion
    MaxUpdates = 2
    MaxVersion = 3
    MaxDeletes = 1
    None = None
SPECIFICATION Spec
SYMMETRY ClientSymmetry
INVARIANTS
    TypeOK
    VersionIdentifies
PROPERTIES
    NoLostUpdate
    SavedIsStored
    ReplacesWhatItRead
