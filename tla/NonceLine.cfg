SPECIFICATION FairSpec
CONSTANTS
    Wallets = {"w1"}
    Txs = {1, 2, 3}
    NoTx = 0
    MaxNonce = 3
    WalletOf <- MCWalletOf
    Waits = {1, 2}
    MayLapse = TRUE
INVARIANTS TypeOK UniqueNonce NoHole AnsweredTxStands
PROPERTIES LineMoves
CHECK_DEADLOCK FALSE
