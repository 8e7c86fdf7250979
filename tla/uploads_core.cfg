SPECIFICATION UploadsSpec
CONSTANTS
    Principals <- OneUser
    FileIds = {f1}
    JobIds = {j1, j2}
    Handlers = {h1, h2}
    ClientContents <- Assorted
    MaxUpload = 2
    QuotaLimit = 3
    MaxEntries = 1
    Faults = {"abort", "ack", "object", "queue", "store"}
    None = None
SYMMETRY Symmetric
CHECK_DEADLOCK FALSE
INVARIANTS TypeOK RefundOnce RefundInv CompletedIsCharged 
PROPERTIES NothingOutlivesDelete
