SPECIFICATION PoolSpec
CONSTANTS
    a1 = a1
    a2 = a2
    pBTC = pBTC
    pUSD = pUSD
    FeeAddress = FeeAddress
    Unit = 10
    PreciseUnit = 1000
    Keys = {pUSD, pBTC}
    Accounts = {a1, a2}
    InverseKeys = {}
    Batches <- BTCDoubles
    InverseConfigs <- NoConfigs
    InitialRates <- AllAt10
    InitialInverse <- NoInverseKeys
    RateStalePeriod = 3
    StartTime = 4
    FutureLimit = 1
    OracleLag = 0
    MaxRounds = 2
    MaxTime = 5
    MaxAdminCalls = 0
    ExchangeAmounts = {30}
    TransferAmounts = {}
    InitialBalances <- NoBalances
    Longs <- NoLoans
    Shorts <- NoLoans
    ExchangeFeeRate <- NoFees
    WaitingPeriodSecs = 1
    PriceDeviationThresholdFactor = 30
    MaxEntriesInQueue = 2
    MaxUserCalls = 1
    CollateralValue <- Collateral
    IssuanceRatio = 4
    MinimumStakeTime = 1
    DebtSnapshotStaleTime = 3
    BurnDust = 2
    IssueAmounts = {30}
    BurnAmounts = {20}
    BridgeAmounts = {10}
    NetworkDebts <- Reports
    MaxDebtCalls = 3
    MaxCrossCalls = 1
    DebtRounding = 3
INVARIANTS
    DebtWithinTotal
PROPERTIES
    DebtFollowsIssuer
    CollateralRespected
    BridgingMovesNoDebt
CHECK_DEADLOCK FALSE
