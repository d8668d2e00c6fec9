SPECIFICATION Spec
CONSTANTS
    None = None
    share = share
    index = index
    tail = tail
    v1 = v1
    other = other
    canonical = canonical
    unsafe = unsafe
    Symbols = {share, index, tail}
    Benchmark = index
    Baseline = v1
    CanonicalRisk = canonical
    Plans <- MCPlans
    Bars <- MCBars
    RegimeOf <- MCRegimeOf
    DayLength = 8
    PreOpen = 0
    Open = 1
    EntryCutoff = 6
    Close = 7
    TradingDays <- EveryDay
    SpecialSessions <- NoSpecials
    MiddayStart = 4
    AfternoonStart = 5
    SmaPeriod = 2
    RsiPeriod = 2
    MinHistory = 3
    StopDistance = 3
    TargetDistance = 4
    StopCooldown = 2
    MaxOpenPositions = 1
    MinTradingDays = 2
    MaxRuns = 2
    MaxCrashes = 1
INVARIANTS
    TypeOK
    HistoryIsThePast
    TargetIsAvoided
    ValidationIsFunction
CHECK_DEADLOCK FALSE
