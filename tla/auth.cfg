SPECIFICATION AuthSpec
CONSTANTS
    Settings <- MCSettings
    Lowered <- MCLowered
    Keys = {k1}
    Tokens <- MCTokens
    Handlers = {h1, h2}
    CacheTTL = 1
    Patience = 1
    MaxLag = 1
    MaxTime = 2
    Dev = Dev
    Bare = Bare
    k1 = k1
    None = None
CHECK_DEADLOCK FALSE
INVARIANTS AuthTypeOK VouchedIsAccepted NoDevUserInProduction
PROPERTIES FetchesAreApart StaleKeysExpire  EveryoneIsAnswered
