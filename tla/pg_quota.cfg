SPECIFICATION PgSpec
CONSTANTS
    Subjects = {s1, s2}
    Clients = {c1, c2, c3}
    Deltas <- Amounts
    Limit = 3
    None = None
SYMMETRY Symmetric
INVARIANTS PgInv CommittedWithinLimit
PROPERTY ImplementsLedger
