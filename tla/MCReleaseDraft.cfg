SPECIFICATION Spec
CONSTANTS
    r1 = r1
    r2 = r2
    p1 = p1
    p2 = p2
    Source <- TwoSources
    Unadapted <- OneUnadapted
    Process <- TwoProcesses
    Absent = Absent
    Torn = Torn
    MaxCommands = 2
SYMMETRY Interchangeable
INVARIANTS
    TypeOK
    VerifiedIsCoherent
    IntactReleaseVerifies
    ReadyOnlyWithProbe
