SPECIFICATION Spec
CONSTANTS
    None = None
    infy = infy
    tcs = tcs
    SymbolList <- MCSymbolList
    StartDay = 1
    EndDay = 4
    MaxDays = 2
    FirstDay = 3
    MinInterval = 2
    Backoff = 2
    MaxRetries = 2
    MaxCrashes = 1
INVARIANTS
    FilesAreWhole
PROPERTIES
    RequestsArePaced
    DownloadCompletes
