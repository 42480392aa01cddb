CONSTANTS
    Kinds <- Pair
    NumTorrents = 1
    StopBudget = 6
    Grace <- RealGrace
SPECIFICATION Spec
INVARIANT EnginesTornDown
