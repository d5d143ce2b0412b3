CONSTANTS
    DAY = 2
    None = None
    Publishers = {o1, o2}
    Parcels = {p1}
    Inputs <- MCInputs
    Seed <- MCSeed
    MaxTime = 4
    MaxDay = 3
    MaxRate = 2
    MaxBands = 4
SPECIFICATION RatesSpec
SYMMETRY Symmetry
CHECK_DEADLOCK FALSE
INVARIANTS
    TypeOK
    VersionsTile
    EveryStayPriced
    TilesMeansOneRatePerDay
    FeeIsDayByDay
PROPERTIES
    PostedPriceCharged
