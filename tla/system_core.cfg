SPECIFICATION SystemSpec
CONSTANTS
    Principals <- OneUser
    FileIds = {f1}
    JobIds = {j1, j2}
    Handlers = {h1, h2}
    ClientContents <- SameSize
    MaxUpload = 2
    QuotaLimit = 3
    MaxEntries = 2
    Faults = {}
    None = None
    Workers = {w1}
    ClaimCount = 5
    MaxCrashes = 0
    SlowHandling = FALSE
SYMMETRY Symmetric
CHECK_DEADLOCK FALSE
INVARIANTS NoLostJob StatusAgrees 
