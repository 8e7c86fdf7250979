SPECIFICATION SharesSpec
CONSTANTS
    Owners = {ann, bob}
    FileIds = {f1}
    Tokens = {t1}
    Passwords <- MCPasswords
    Trimmed <- MCTrimmed
    Seconds <- MCSeconds
    NsPerSecond = 2
    Half = 16
    DefaultTTL = 2
    MaxTTL = 4
    PresignTTL = 1
    MaxLag = 1
    MaxTime = 3
    MaxCost = 2
    Handlers = {h1, h2}
    None = None
SYMMETRY Symmetric
CHECK_DEADLOCK FALSE
INVARIANTS SharesTypeOK EveryLinkIsListed LinksAreBounded GrantsEnd OnlyThePasswordOpens GoodLinkIsServed
