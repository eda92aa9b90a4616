CONSTANTS
    Readers = {g1, g2}
    Writers = {w1}
    Pages = {first}
    First = First

SPECIFICATION Spec
SYMMETRY Symmetry
CHECK_DEADLOCK FALSE
INVARIANTS
    InvalidatedForGood
