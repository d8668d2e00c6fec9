SPECIFICATION Spec
CONSTANTS
    None = None
    Versions = {1, 2}
    Symbols = {"s1", "s2"}
    Regimes = {"RISK_ON", "CAUTIOUS"}
    AllowedRegimes <- SecondOnlyInRiskOn
    Priority <- SamePriority
    Deployments <- MCDeployments
    Results <- MCResults
    StartingEquity = 50
    MinSamples = 2
    MinRegimeSamples = 1
    RecentWindow = 1
    DegradationFactor = 50
    MaxDrawdownLimit = 10
    MaxTrades = 4
INVARIANTS
    TypeOK
    OneIsBest
PROPERTIES
    PausedNeverBuys
    EntriesAreEarned
