CONSTANTS
    Kinds <- OneOfEach
    NumTorrents = 1
    StopBudget = 2
    Grace <- ShortGrace
SPECIFICATION FairSpec
INVARIANTS
    TypeOK
    NoOrphanSampler
    TrackerOutlivesEngines
    LeaksExplained
    SamplesSurvive
PROPERTIES
    DriversUsedAsSpecified
    RunEnds
