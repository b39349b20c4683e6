SPECIFICATION FairSpec
CONSTANTS
    s1 = s1
    s2 = s2
    Absent = Absent
    Torn = Torn
    Snapshots <- MCSnapshots
    Bare <- MCBare
    MaxFaults = 4
INVARIANTS
    TypeOK
    WriteAhead
    ReturnsClean
PROPERTIES
    InstallsWholeSet
    ImplementsPromise
    LoadsWholeSet
    RecoveryConverges
