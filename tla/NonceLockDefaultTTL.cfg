\* The default lease of 30 s under the batcher's callbacks of up to 75 s.
SPECIFICATION Spec
CONSTANTS
    Calls = {1, 3}
    Procs = {"p1", "p2"}
    Keys = {"k1"}
    ProcOf <- MCProcOf
    KeyOf <- MCKeyOf
    UseRedis = TRUE
    RetryCount = 2
    LockTTL = 30
    FnBound = 75
    NoCall = NoCall
INVARIANTS MutualExclusion
CHECK_DEADLOCK FALSE
