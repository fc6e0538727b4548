\* Two saves overlap under the default isolation.
CONSTANTS
    c1 = c1  c2 = c2  c3 = c3
    Clients <- TwoClients
    Stores <- SqlStores
    NewVersions <- FirstVersion
    MaxUpdates = 2
    MaxVersion = 3
    MaxDeletes = 0
    None = None
SPECIFICATION Spec
SYMMETRY ClientSymmetry
PROPERTY VersionsCountUp
