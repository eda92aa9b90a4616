CONSTANTS
    Ids = {1, 2, 3, 4, 5}
    Limits = {1, 2, 3}

SPECIFICATION Spec
INVARIANTS
    TypeOK
    ListedInOrder
    StableRowsListed
CHECK_DEADLOCK FALSE
