SPECIFICATION Spec
CONSTANTS
    Wallets = {"w1"}
    Txs = {1, 2, 3}
    NoTx = 0
    MaxNonce = 3
    WalletOf <- MCWalletOf
    Waits = {1, 2}
    MayLapse = TRUE
INVARIANTS RevertIsReported
CHECK_DEADLOCK FALSE
