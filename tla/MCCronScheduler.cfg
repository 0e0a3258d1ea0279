CONSTANTS
    p1 = p1
    p2 = p2
    p3 = p3
    t1 = t1
    Processes = {p1, p2, p3}
    Sessions = {1, 2}
    Tasks = {t1}
    MaxDue = 1
SPECIFICATION Spec
INVARIANTS
    OneOwner
    OnceUnlessRaced
    NoTaskLost
CONSTRAINT Explored
SYMMETRY Alike
CHECK_DEADLOCK FALSE
