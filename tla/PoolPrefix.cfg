SPECIFICATION Spec
CONSTANTS
    Requests = {r2, r3}
    Kinds <- MCKinds
    Chains <- LikeChains
    Default <- Chain1
    Rows <- RowsOfBoth
    EnvKey = FALSE
    OwnerRow = FALSE
    None = None
    r1 = r1
    r2 = r2
    r3 = r3
INVARIANTS PoolIsOfChain
CHECK_DEADLOCK FALSE
