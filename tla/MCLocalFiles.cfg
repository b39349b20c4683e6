SPECIFICATION Spec0
CONSTANTS
    p = p
    q = q
    s1 = s1
    Process <- TwoCommands
    Subject <- OneSubject
    Given <- OneOrTwoFields
    Observable <- TwoSeconds
    Writer <- ThreeWriters
    Reader <- OneReader
    MaxFaults = 2
    Made <- ThreeGenerations
    MaxFailures = 4
    Installers <- OnlyP
    w1 = w1
    w2 = w2
    w3 = w3
    r1 = r1
    g1 = g1
    g2 = g2
    g3 = g3
    Killed = Killed
    Old = Old
    Absent = Absent
CHECK_DEADLOCK FALSE
INVARIANTS
    TypesOK
    FailureLeavesNothing
    Transactional
    NeverLoadsInterrupted
PROPERTIES
    RegressesOnlyOverUnreadFile
    TouchesOnlyItsFields
    MissingOnlyInWindow
    UnverifiedOnlyInWindow
    MismatchOnlyFromRollback
    EveryoneReturns
