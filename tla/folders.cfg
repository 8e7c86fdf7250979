SPECIFICATION FoldersSpec
CONSTANTS
    Callers <- MCCallers
    FolderIds = {d1, d2}
    FileIds = {f1, f2}
    Names = {n}
    Handlers = {h1, h2}
    Batch = 1
    MaxAborts = 1
    Root = Root
    None = None
INVARIANTS  TreeHasOneOwner UndisturbedDeleteSucceeds OkMeansGone TestStoreIsFaithful
PROPERTIES OnlyTheTreeGoes DeleteIsAnswered
CHECK_DEADLOCK FALSE
