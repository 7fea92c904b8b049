SPECIFICATION FairSpec
CONSTANTS
    None = None
    c1 = c1
    c2 = c2
    Calls = {c1, c2}
    Mixes <- PairsOfSizes
INVARIANTS
    TypeOK
    PipesAreOwned
PROPERTIES
    EveryCallReturns
    StopEndsTheProcess
    ImplementsExchange
CHECK_DEADLOCK FALSE
