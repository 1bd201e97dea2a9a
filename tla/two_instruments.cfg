SPECIFICATION FairSpec
CONSTANTS
    i1 = i1
    i2 = i2
    Instruments = {i1, i2}
    LastDay = 3
    WeekOf <- OneWeek
    InitialCapital = 6
    MaxUnits = 4
    MaxLot = 1
    BuyCost <- MCBuyCost
    SellProceeds <- MCSellProceeds
    ClosePrice <- MCClosePrice
    MarketValue <- MCMarketValue
    Split <- SplitOnDay3
    GuardOn = TRUE
    TriggerPct = 20
    RecoveryPct = 10
    MinCoverage = 2
    Publishers = {"recovery"}
    Instants = {3, 7}
    IntradayEnabled = FALSE
INVARIANTS
    TypeOK
    HoldingsMatchFills
    FillsAreMarked
    NavUsesPastFills
PROPERTIES
    CatchesUp
