SPECIFICATION Spec
CONSTANTS
    Probes <- ManyProbes
    Answers <- ManyAnswers
    Release <- TwoReleases
    Absent = Absent
CHECK_DEADLOCK FALSE
INVARIANTS
    LevelsAreMonotonic
