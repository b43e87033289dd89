SPECIFICATION Spec
CONSTANTS
    a1 = a1
    a2 = a2
    pBTC = pBTC
    iBTC = iBTC
    pUSD = pUSD
    FeeAddress = FeeAddress
    Unit = 10
    Keys = {pUSD, pBTC, iBTC}
    Accounts = {a1}
    InverseKeys = {iBTC}
    Batches <- BothBatches
    InverseConfigs <- iBTCConfigs
    InitialRates <- AllAt10
    InitialInverse <- iBTCMirrored
    RateStalePeriod = 3
    StartTime = 4
    FutureLimit = 1
    OracleLag = 0
    MaxRounds = 2
    MaxTime = 6
    MaxAdminCalls = 1
    ExchangeAmounts = {60}
    TransferAmounts = {18}
    InitialBalances <- Balances
    Longs <- NoLoans
    Shorts <- NoLoans
    ExchangeFeeRate <- FeeRates
    WaitingPeriodSecs = 1
    PriceDeviationThresholdFactor = 20
    MaxEntriesInQueue = 2
    MaxUserCalls = 1
PROPERTIES
    OwedIsFinal
    FrozenPriceHolds
CHECK_DEADLOCK FALSE
