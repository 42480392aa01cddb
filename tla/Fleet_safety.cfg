CONSTANTS
    Lists <- AllLists
    Swarms <- AllSwarms
SPECIFICATION Spec
INVARIANTS
    TypeOK
    NothingShared
    OtherSeedersHold
    LeechersEmpty
