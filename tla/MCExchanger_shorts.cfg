SPECIFICATION Spec
CONSTANTS
    a1 = a1
    a2 = a2
    pBTC = pBTC
    iBTC = iBTC
    pUSD = pUSD
    FeeAddress = FeeAddress
    Unit = 10
    Keys = {pUSD, pBTC}
    Accounts = {a1}
    InverseKeys = {}
    Batches <- BTCBatches
    InverseConfigs <- NoConfigs
    InitialRates <- AllAt10
    InitialInverse <- NoInverseKeys
    RateStalePeriod = 3
    StartTime = 4
    FutureLimit = 1
    OracleLag = 1
    MaxRounds = 3
    MaxTime = 6
    MaxAdminCalls = 0
    ExchangeAmounts = {60}
    TransferAmounts = {60}
    InitialBalances <- Balances
    Longs <- NoLoans
    Shorts <- BTCShort
    ExchangeFeeRate <- FeeRates
    WaitingPeriodSecs = 1
    PriceDeviationThresholdFactor = 20
    MaxEntriesInQueue = 2
    MaxUserCalls = 2
INVARIANT CacheRequirementHolds
CHECK_DEADLOCK FALSE
