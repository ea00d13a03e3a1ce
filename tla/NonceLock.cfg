\* Three calls on one key, two of them in one process; a lease of 30 s and
\* callbacks of up to 75 s, the default configuration.
SPECIFICATION FairSpec
CONSTANTS
    Calls = {1, 2, 3}
    Procs = {"p1", "p2"}
    Keys = {"k1"}
    ProcOf <- MCProcOf
    KeyOf <- MCKeyOf
    UseRedis = TRUE
    RetryCount = 2
    LockTTL = 30
    FnBound = 75
    NoCall = NoCall
INVARIANTS TypeOK ExclusionUnlessLapsed LocalExclusion
PROPERTIES EveryCallReturns LeaseRecovers Refinement
CHECK_DEADLOCK FALSE
