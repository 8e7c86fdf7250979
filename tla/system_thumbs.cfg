SPECIFICATION SystemSpec
CONSTANTS
    Principals <- OneUser
    FileIds = {f1}
    JobIds = {j1, j2}
    Handlers = {h1}
    ClientContents <- Photos
    MaxUpload = 2
    QuotaLimit = 1
    MaxEntries = 2
    Faults = {}
    None = None
    Workers = {w1}
    ClaimCount = 5
    MaxCrashes = 0
    SlowHandling = FALSE
SYMMETRY Symmetric
CHECK_DEADLOCK FALSE
INVARIANTS ThumbnailsAppear
