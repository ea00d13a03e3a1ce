SPECIFICATION FairSpec
CONSTANTS
    Wallets = {"server_key1"}
    Txs <- MCTxs
    NoTx = NoTx
    MaxNonce = 7
    Calls = {c1, c2}
    PayerKey <- MCPayerKey
    Erc20 = {c1, c2}
    Need = 2
    Strict = TRUE
    MayLapse = TRUE
INVARIANTS TypeOK PaysOnce NoHole RevertsOnlyIfStale
PROPERTIES EverySplitEnds
CHECK_DEADLOCK FALSE
