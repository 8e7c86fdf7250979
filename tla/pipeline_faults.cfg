SPECIFICATION PipelineSpec
CONSTANTS
    Principals <- OneUser
    FileIds = {f1}
    JobIds = {j1}
    Handlers = {h1}
    ClientContents <- SameSize
    MaxUpload = 2
    QuotaLimit = 3
    MaxEntries = 2
    Faults = {"abort", "object", "queue", "store", "worker"}
    None = None
    Workers = {w1}
    ClaimCount = 5
    MaxCrashes = 1
    SlowHandling = TRUE
SYMMETRY Symmetric
INVARIANTS SystemTypeOK SucceededIsPublished
