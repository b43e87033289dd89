SPECIFICATION PoolSpec
CONSTANTS
    a1 = a1
    a2 = a2
    pBTC = pBTC
    pUSD = pUSD
    FeeAddress = FeeAddress
    Unit = 10
    PreciseUnit = 1000
    Keys = {pUSD, pBTC}
    Accounts = {a1}
    InverseKeys = {}
    Batches <- BTCDoubles
    InverseConfigs <- NoConfigs
    InitialRates <- AllAt10
    InitialInverse <- NoInverseKeys
    RateStalePeriod = 3
    StartTime = 4
    FutureLimit = 1
    OracleLag = 0
    MaxRounds = 2
    MaxTime = 4
    MaxAdminCalls = 0
    ExchangeAmounts = {40, 20}
    TransferAmounts = {}
    InitialBalances <- NoBalances
    Longs <- NoLoans
    Shorts <- NoLoans
    ExchangeFeeRate <- NoFees
    WaitingPeriodSecs = 0
    PriceDeviationThresholdFactor = 30
    MaxEntriesInQueue = 2
    MaxUserCalls = 2
    CollateralValue <- Collateral
    IssuanceRatio = 4
    MinimumStakeTime = 0
    DebtSnapshotStaleTime = 3
    BurnDust = 2
    IssueAmounts = {40}
    BurnAmounts = {40}
    BridgeAmounts = {}
    NetworkDebts <- QuietReports
    MaxDebtCalls = 3
    MaxCrossCalls = 1
    DebtRounding = 3
PROPERTY LedgerRestartsAtOne
CHECK_DEADLOCK FALSE
