SPECIFICATION FairSpec
CONSTANTS
    Projects <- SmallAndWhole
    NonUpgradeable <- NonUpgradeableNames
    Required <- RequiredNames
    Pynths <- TwoPynths
    PynthOrder <- KeyOrder
    Bridged = "pUSD"
    Roles <- RoleList
    Networks <- NetworkList
    Feeds <- FeedList
    OwnFeeds <- OwnFeedList
    StakingTokens <- TokenList
    OnTestnet = TRUE
    Settings = {"targetThreshold"}
    Releases <- ReleaseSets
    MaxInstances = 3
    MaxReleases = 1
    CrashAt = {"FeePool"}
INVARIANTS
    FilesKnowTheChain
    WiredIsRecorded
    WiredWhenClean
PROPERTIES
    QuietWhenClean
    TunedSettingsKept
    PeriodsFromLivePool
    EventuallyWired
CHECK_DEADLOCK FALSE
