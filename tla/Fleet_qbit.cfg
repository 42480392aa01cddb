CONSTANTS
    Lists <- QbitList
    Swarms <- QbitSwarm
SPECIFICATION Spec
INVARIANT SeedersHold
