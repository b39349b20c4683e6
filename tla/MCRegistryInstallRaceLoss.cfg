SPECIFICATION Spec
CONSTANTS
    p = p
    q = q
    Process <- Both
    Installers <- Nobody
    Killed = Killed
    Old = Old
    Absent = Absent
INVARIANTS
    LoadsPreviousSet
CHECK_DEADLOCK FALSE
