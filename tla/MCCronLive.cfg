CONSTANTS
    p1 = p1
    p2 = p2
    t1 = t1
    Processes = {p1, p2}
    Sessions = {1, 2}
    Tasks = {t1}
    MaxDue = 1
SPECIFICATION LiveOneShots
PROPERTIES
    FailOver
    DueFires
CHECK_DEADLOCK FALSE
