SPECIFICATION Spec
CONSTANTS
    Ops = {o1, o2, o3}
    Wallets = {w1, w2}
    MaxBatch = 2
    ChanCap = 2
    NoOp = NoOp
SYMMETRY OpSymmetry
INVARIANTS TypeOK OpInOnePlace AnswerNeverBlocks FailureIsIsolated ResentOnlyIfUnsure ErrorIsFinal
CHECK_DEADLOCK FALSE
