SPECIFICATION UploadsSpec
CONSTANTS
    Principals <- OrgMates
    FileIds = {f1, f2}
    JobIds = {j1}
    Handlers = {h1, h2}
    ClientContents <- Docs
    MaxUpload = 2
    QuotaLimit = 3
    MaxEntries = 1
    Faults = {}
    None = None
SYMMETRY Symmetric
CHECK_DEADLOCK FALSE
INVARIANTS UsedWithinLimit QuotaCoversCompleted
