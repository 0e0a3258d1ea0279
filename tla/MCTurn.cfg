SPECIFICATION Spec
CONSTANTS
    c1 = c1
    c2 = c2
    c3 = c3
    e1 = e1
    e2 = e2
    e3 = e3
    Exec = {e1, e2, e3}
    Cmd = {c1, c2, c3}
    Classes <- MainClasses
    none = none
SYMMETRY Symmetry
CHECK_DEADLOCK FALSE
INVARIANTS
    SoleOwner
    NothingLost
    WakeupPending
PROPERTIES
    ImplementsTurnOwner
