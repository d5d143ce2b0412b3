CONSTANTS
    Doors = {d1, d2}
    Customers = {c1, c2}
    Lockers = {l1}
    Packages = {p1}
    Codes = {k1, k2}
    MaxAttempts = 1
    Lockout = 2
    MaxReissues = 1
    Window = 2
    CountBound = 3
    RedisMayFail = FALSE
    RequestsMayFail = TRUE
    None = None
    AskedFor = {p1}
SPECIFICATION FairSpec
VIEW WithoutVoided
INVARIANTS
    CodeIsKnown
PROPERTIES
    BlockLifts
    LostCodeRecovered
