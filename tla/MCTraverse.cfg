\* Two traversals, one after the other or at the same time; a channel smaller than the table.
CONSTANTS
    t1 = t1  t2 = t2
    Traversals <- TwoTraversals
    Responses = 3
    Capacity = 1
SPECIFICATION Spec
INVARIANTS
    TypeOK
    OwnInOrder
    ClosedIsComplete
PROPERTY TraversalEnds
CHECK_DEADLOCK FALSE
