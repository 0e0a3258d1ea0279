SPECIFICATION FairSpec
CONSTANTS
    c1 = c1
    c2 = c2
    c3 = c3
    e1 = e1
    e2 = e2
    Exec = {e1, e2}
    Cmd = {c1, c2, c3}
    Classes <- LiveClasses
    none = none
CHECK_DEADLOCK FALSE
PROPERTIES
    Served
