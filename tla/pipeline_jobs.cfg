SPECIFICATION PipelineSpec
CONSTANTS
    Principals <- OneUser
    FileIds = {f1}
    JobIds = {j1}
    Handlers = {h1}
    ClientContents <- AnyImage
    MaxUpload = 2
    QuotaLimit = 3
    MaxEntries = 2
    Faults = {"queue", "worker"}
    None = None
    Workers = {w1, w2}
    ClaimCount = 5
    MaxCrashes = 1
    SlowHandling = TRUE
SYMMETRY Symmetric
INVARIANTS NoLostJob PublishedExists
