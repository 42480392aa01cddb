CONSTANTS
    e1 = e1
    e2 = e2
    Engines = {e1, e2}
    TTL = 2
    GcPeriod = 2
    Interval = 1
    MaxBoots <- OneRestart
SPECIFICATION FairSpec
INVARIANTS
    TypeOK
    Rendezvous
    SteadyPeersListed
    GhostsVanish
PROPERTY EveryoneMeets
