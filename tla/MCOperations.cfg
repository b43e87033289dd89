SPECIFICATION Spec
CONSTANTS
    Keys = {k1}
    Holders = {h1, h2}
    BatchSize = 1
    HolderLimit = 1
    MaxNonce = 4
    MaxExchanges = 2
    MaxTroubles = 2
    MaxLateTroubles = 0
    MaxFailures = 1
    Markets = {m1, m2, m3}
    ChunkSize = 2
    MaxDeposit = 2
    MaxBridges = 3
    Borrowers = {b1, b2}
    MaxRewards = 3
    MaxShorts = 3
    MaxDeaths = 1
INVARIANTS
    NobodyStranded
    MarketsCounted
    ShortsCanClose
PROPERTIES
    PynthsGo
    ExchangesSettle
    MarketsMove
    BridgesConnect
CHECK_DEADLOCK FALSE
