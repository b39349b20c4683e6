SPECIFICATION Spec
CONSTANTS
    a = a
    b = b
    p1 = p1
    p2 = p2
    Process <- TwoCommands
    Release <- TwoReleases
    Decided <- OneDecided
    Updated = Updated
    Torn = Torn
    Absent = Absent
    MaxWrites = 2
INVARIANTS
    TypeOK
    VerifiedIsWhatWasLoaded
    DecisionIsOfTheRelease
PROPERTIES
    BackupKeepsReplaced
    GoneOnlyByRetry
SYMMETRY Symmetry
