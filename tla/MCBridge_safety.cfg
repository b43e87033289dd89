SPECIFICATION Spec
CONSTANTS
    a1 = a1
    a2 = a2
    v1 = v1
    v2 = v2
    c1 = c1
    c2 = c2
    NoJob = NoJob
    Chains = {c1, c2}
    Accounts = {a1, a2}
    Validators = {v1, v2}
    Amounts = {1, 2}
    Signatures <- Signed1By1
    PeriodSizes = {1, 2}
    PeriodDurations = {1}
    InitialBalance = 3
    MaxOutboundings <- TwoAndNone
    MaxTime = 3
    MaxAdminCalls = 1
    MaxCrashes = 0
INVARIANTS
    TypeOK
    RelayedOnce
    InboxExact
    PeriodsWellFormed
    ClaimLoopEmptiesInbox
    SupplyConserved
    MovedAmountsAgree
SYMMETRY ValidatorSymmetry
CHECK_DEADLOCK FALSE
