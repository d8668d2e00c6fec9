SPECIFICATION Spec
CONSTANTS
    up = up
    down = down
    index = index
    Symbols = {up, down, index}
    Benchmark = index
    RegimeOf <- MCRegimeOf
    Bars <- MCBars
    DayLength = 9
    PreOpen = 0
    Open = 1
    EntryCutoff = 7
    Close = 8
    TradingDays <- EveryDay
    SpecialSessions <- NoSpecials
    Zone = 0
    SmaPeriod = 2
    RsiPeriod = 2
    MinHistory = 3
    StopDistance = 3
    TargetDistance = 4
    StopCooldown = 2
    MaxOpenPositions = 1
    MaxRuns = 1
    MaxCrashes = 2
INVARIANTS
    TypeOK
    EveryBarOnce
    RoundTrips
    ReplayIsFunction
CHECK_DEADLOCK FALSE
