SPECIFICATION Spec
CONSTANTS
    Probes <- ManyProbes
    Answers <- ManyAnswers
    Release <- TwoReleases
    Absent = Absent
CHECK_DEADLOCK FALSE
INVARIANTS
    TypeOK
    HealthyIsAnswered
    SpendsWithinBudget
    RetriesOnlyTransient
    VerifiedCanBeFetched
    NoHostIsOrphaned
    MixesOnlyAcrossInstall
PROPERTIES
    EveryProbeEnds
