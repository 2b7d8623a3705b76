SPECIFICATION Spec
CONSTANTS
    b1 = b1
    b2 = b2
    usd = usd
    byn = byn
    Bonds <- MCBonds
    Currencies <- MCCurrencies
    Calls <- MCCalls
    CurrencyOf <- MCCurrencyOf
    MaxRetries = 2
    FailureThreshold = 2
    MaxConcurrency = 1
    BackfillDays = 0
    LastDay = 3
    RunDays = {1, 3}
    MaxRuns = 2
INVARIANTS
    DelistedOnlyWhenGone
    HistoryHasNoHoles
    RunNeverStuck
PROPERTIES
    KnownCouponKept
    OkMeansRefreshed
    ScoresReflectRows
    SourceLeftAlone
CHECK_DEADLOCK FALSE
