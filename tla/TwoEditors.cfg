SPECIFICATION GraphSpec
CONSTANTS
    Tasks = {t1, t2, t3}
    Requests = {r1, r2}
    Editors = {r1, r2}
SYMMETRY Symmetry
INVARIANTS NoCycle
CHECK_DEADLOCK FALSE
