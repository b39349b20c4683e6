SPECIFICATION Spec0
CONSTANTS
    MaxRow = 3
    LinkRow <- FirstAndLast
    Linked <- OnlyLast
    PerPage = 1
    MaxPages = 3
    Retries = 1
    MaxChanges = 1
    MaxFaults = 2
    Listings <- TwoListings
    Forbidden <- OneForbidden
    Gateway <- FirstAndSecond
    External <- OnlyThird
    Shown <- OnePage
    MaxFailures = 1
    Torn = Torn
    Absent = Absent
INVARIANTS
    TypesOK
    SummaryAddsUp
    MissesOnlyOverWithdrawals
PROPERTIES
    SubmissionsStayRecorded
    EveryCommandEnds
