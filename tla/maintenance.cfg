SPECIFICATION Spec
CONSTANTS
    None = None
    Symbols = {s1}
    Watchlist = {s1}
    s1 = s1
    DayLength = 5
    PreOpen = 0
    Open = 1
    EntryCutoff = 3
    Close = 4
    TradingDays <- EveryDay
    SpecialSessions <- NoSpecials
    Quotes <- TrendQuotes
    Base = 10
    SlippageBps = 1
    LastSlippageBps = 2
    MaxSpreadBps = 1
    HardStopPct = 2
    TakeProfitPct = 3
    DailyLossLimitPct = 1
    RollingDrawdownPct = 1
    RiskPerTrade = 1
    BuyFee = 20
    SellFee = 20
    MinimumCashReserve = 200
    MaxGrossPosition = 200
    StartingCapital = 700
    MaxOpenPositions = 1
    RollingDays = 2
    RollingBlock = 10
    StopCooldown = 1
    MaintenanceTime = 4
    StartTime = 6
    Horizon = 14
    MaxBuys = 2
    MaxCrashes = 1
    MaxToggles = 0
    GoodDays = {}
INVARIANTS
    DailyLossBreaker
CHECK_DEADLOCK FALSE
