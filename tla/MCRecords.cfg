\* All key parts, also those left out of the key map, in four databases.
CONSTANTS
    Msgs = {0, 1, 2}
    MapKeys = {5, 7}
    Backends = {"mysql", "postgres", "redis", "mongo"}
    Parts = {0, 1, 2}
    Inputs <- SomeValues
    MaxRows = 2
SPECIFICATION Spec
INVARIANTS
    TypeOK
    ReadYourWrites
PROPERTY OthersUntouched
