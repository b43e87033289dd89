SPECIFICATION FairSpec
CONSTANTS
    a1 = a1
    a2 = a2
    v1 = v1
    v2 = v2
    c1 = c1
    c2 = c2
    NoJob = NoJob
    Chains = {c1, c2}
    Accounts = {a1, a2}
    Validators = {v1, v2}
    Amounts = {1}
    Signatures <- Signed1By1
    PeriodSizes = {2}
    PeriodDurations = {1}
    InitialBalance = 2
    MaxOutboundings <- TwoAndNone
    MaxTime = 1
    MaxAdminCalls = 1
    MaxCrashes = 1
INVARIANTS
    ProcessedMeansRelayed
PROPERTIES
    LedgerSpec
    ClosedPeriodsProcessed
    TransfersClaimed
CHECK_DEADLOCK FALSE
