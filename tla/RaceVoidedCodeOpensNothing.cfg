CONSTANTS
    Doors = {d1, d2}
    Customers = {c1, c2}
    Lockers = {l1}
    Packages = {p1}
    Codes = {k1, k2}
    MaxAttempts = 2
    Lockout = 1
    MaxReissues = 2
    Window = 1
    CountBound = 6
    RedisMayFail = FALSE
    RequestsMayFail = FALSE
    None = None
    AskedFor = {p1}
SPECIFICATION Spec
PROPERTIES
    VoidedCodeOpensNothing
