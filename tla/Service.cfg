SPECIFICATION FairSpec
CONSTANTS
    Requests = {r1, r2, r3}
    Kinds <- MCKinds
    Chains <- TwoChains
    Default <- Chain2
    Rows <- RowsOfChain1
    EnvKey = FALSE
    OwnerRow = TRUE
    None = None
    r1 = r1
    r2 = r2
    r3 = r3
INVARIANTS TypeOK OneClient NoConnectionLeak PoolIsComplete RoundRobin
PROPERTIES EveryRequestAnswered
CHECK_DEADLOCK FALSE
