SPECIFICATION Spec
CONSTANTS
    i1 = i1
    i2 = i2
    Instruments = {i1}
    LastDay = 3
    WeekOf <- MCWeekOf
    InitialCapital = 6
    MaxUnits = 2
    MaxLot = 1
    BuyCost <- MCBuyCost
    SellProceeds <- MCSellProceeds
    ClosePrice <- MCClosePrice
    MarketValue <- MCMarketValue
    Split <- NoSplits
    GuardOn = TRUE
    TriggerPct = 20
    RecoveryPct = 10
    MinCoverage = 1
    Publishers = {"live", "evening", "recovery"}
    Instants <- OncePerDay
    IntradayEnabled = FALSE
INVARIANT NoRetrospectiveFill
