SPECIFICATION Spec
CONSTANTS
    None = None
    Unknown = Unknown
    v1 = v1
    v2 = v2
    symbolA = symbolA
    symbolB = symbolB
    Versions = {v1}
    RecentWindow = 2
    Scale = 840
    Buckets <- MCBuckets
    Evidences <- MCEvidences
    RiskConfigs = {canonical, other}
    canonical = canonical
    other = other
    MinOverallSamples = 4
    MinBucketSamples = 2
    DegradationPct = 50
    ForcedPct = 50
    MaxFindings = 3
    MaxProposals = 2
INVARIANTS
    TypeOK
    PlanFitsStoredProposal
    OneChangePerVersion
PROPERTIES
    StoresAreAppendOnly
CHECK_DEADLOCK FALSE
