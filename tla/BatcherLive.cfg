SPECIFICATION FairSpec
CONSTANTS
    Ops = {o1, o2}
    Wallets = {w1}
    MaxBatch = 2
    ChanCap = 1
    NoOp = NoOp
PROPERTIES EveryOpAnswered EveryOpSettled Refinement
CHECK_DEADLOCK FALSE
