CONSTANTS
    Doors = {d1, d2}
    Customers = {c1, c2}
    Lockers = {l1}
    Packages = {p1}
    Codes = {k1, k2}
    MaxAttempts = 5
    Lockout = 1
    MaxReissues = 3
    Window = 1
    CountBound = 7
    RedisMayFail = FALSE
    RequestsMayFail = FALSE
    None = None
    AskedFor = {p1}
SPECIFICATION Spec
SYMMETRY Symmetry
VIEW WithTallies
INVARIANTS
    SomeCapKept
