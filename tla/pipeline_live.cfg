SPECIFICATION FairPipelineSpec
CONSTANTS
    Principals <- OneUser
    FileIds = {f1}
    JobIds = {j1}
    Handlers = {h1}
    ClientContents <- AnyImage
    MaxUpload = 2
    QuotaLimit = 3
    MaxEntries = 2
    Faults = {"worker"}
    None = None
    Workers = {w1, w2}
    ClaimCount = 5
    MaxCrashes = 1
    SlowHandling = FALSE
PROPERTIES QueuedIsSettled EntriesAreSettled
