\* Every shard mode; keys of both signs and unsigned keys above the signed range.
CONSTANTS
    t1 = t1  t2 = t2
    Tables <- TwoTables
    Fields <- SaneFields
    Confs <- SaneConfs
    Width = 4
    Base = Base
    Unset = Unset
SPECIFICATION Spec
INVARIANTS
    TypeOK
    RoutesAreMigrated
    FindsWhatWasSaved
    NoPoolLeak
