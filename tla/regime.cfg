SPECIFICATION MarketSpec
CONSTANTS
    Missing = Missing
    nifty = nifty
    infy = infy
    Symbols = {nifty, infy}
    Benchmark = nifty
    Market <- MCMarket
    Volatility <- MCVolatility
    Addresses = {1, 2, 3}
    MinBars = 3
    Fast = 1
    Slow = 2
    VolWindow = 1
    VolHistory = 2
    BreadthWindow = 2
    BreadthMinSymbols = 1
INVARIANTS
    DailyBarsAreOfTheList
