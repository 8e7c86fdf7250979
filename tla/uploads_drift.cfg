SPECIFICATION UploadsSpec
CONSTANTS
    Principals <- OneUser
    FileIds = {f1, f2}
    JobIds = {j1}
    Handlers = {h1}
    ClientContents <- Docs
    MaxUpload = 2
    QuotaLimit = 3
    MaxEntries = 1
    Faults = {}
    None = None
SYMMETRY Symmetric
CHECK_DEADLOCK FALSE
INVARIANTS QuotaMatchesDrive
