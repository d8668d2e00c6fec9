SPECIFICATION FairSpec
CONSTANTS
    None = None
    Symbols = {s1}
    Watchlist = {s1}
    s1 = s1
    DayLength = 5
    PreOpen = 0
    Open = 1
    EntryCutoff = 3
    Close = 4
    TradingDays <- WeekWithHoliday
    SpecialSessions <- ShortSession
    Quotes <- DayQuotes
    Base = 10
    SlippageBps = 1
    LastSlippageBps = 2
    MaxSpreadBps = 1
    HardStopPct = 4
    TakeProfitPct = 3
    DailyLossLimitPct = 1
    RollingDrawdownPct = 1
    RiskPerTrade = 1
    BuyFee = 20
    SellFee = 20
    MinimumCashReserve = 200
    MaxGrossPosition = 200
    StartingCapital = 700
    MaxOpenPositions = 2
    RollingDays = 2
    RollingBlock = 10
    StopCooldown = 1
    MaintenanceTime = 4
    StartTime = 5
    Horizon = 24
    MaxBuys = 1
    MaxCrashes = 1
    MaxToggles = 1
    GoodDays = {3, 4}
INVARIANTS
    EodStateIsNewestMark
    DailyLossHaltsEntries
PROPERTIES
    MarksAreFinal
    EntriesInWindow
    PositionsAreClosed
    BreakerReleases
CHECK_DEADLOCK FALSE
