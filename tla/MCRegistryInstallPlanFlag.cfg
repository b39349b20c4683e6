SPECIFICATION SpecWithPlanFlag
CONSTANTS
    s1 = s1
    s2 = s2
    Absent = Absent
    Torn = Torn
    Snapshots <- MCSnapshots
    Bare <- MCBare
    MaxFaults = 1
PROPERTIES
    LoadsWholeSet
