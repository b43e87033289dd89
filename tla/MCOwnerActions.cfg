SPECIFICATION FairSpec
CONSTANTS
    Entries <- TwoEntries
    Contracts <- OneContract
    Other = "other"
    MaxNonce = 6
    MaxOthers = 1
    MaxFailures = 2
    MaxCrashes = 1
INVARIANTS
    OnePendingPerCall
    AgainOnlyAfterLoss
    OrderKept
PROPERTIES
    EntriesExecuted
    OwnershipAccepted
