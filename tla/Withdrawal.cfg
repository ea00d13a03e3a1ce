SPECIFICATION Spec
CONSTANTS
    Payments = {"p1"}
    Attempts <- MCAttempts
    Accounts = {"a1"}
    AccountOf <- MCAccountOf
    Envs <- MCEnvs
    Markets <- MCMarkets
    MaxForeign = 2
    MaxLost = 2
    Gwei = 1
INVARIANTS TypeOK NonceNotShared PaidOnce RevertIsDeserved FeeFieldsFit
CHECK_DEADLOCK FALSE
