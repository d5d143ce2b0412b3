CONSTANTS
    Doors = {d1, d2}
    Customers = {c1, c2}
    Lockers = {l1}
    Packages = {p1, p2}
    Codes = {k1, k2}
    MaxAttempts = 1
    Lockout = 1
    MaxReissues = 1
    Window = 1
    CountBound = 3
    RedisMayFail = TRUE
    RequestsMayFail = TRUE
    None = None
    AskedFor = {p1}
SPECIFICATION PickupSpec
SYMMETRY Symmetry
VIEW WithTallies
INVARIANTS
    TypeOK
    HandedOutOnce
    GuessesBounded
    ReissuesBounded
PROPERTIES
    NoCodeForEmptyLocker
