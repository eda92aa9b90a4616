CONSTANTS
    Readers = {g1, g2, g3}
    Writers = {w1, w2}
    Pages = {first}
    First = First

SPECIFICATION Spec
SYMMETRY Symmetry
CHECK_DEADLOCK FALSE
INVARIANTS
    TypeOK
    PagesShowTheirVersion
    StaleOnlyBehindLateStore
PROPERTIES
    ReadsKept
