SPECIFICATION FairSpec
CONSTANTS
    Ids = {1, 2, 3}
    Customers = {1}
    Stations = {1, 2}
    Codes = {1, 2}
    Times = {1, 2}
    Requests <- MCRequests
    DefaultLimit = 2
    MaxLimit = 2
    MaxWrites <- MCMaxWrites
    None = None
INVARIANTS QuietWalkIsExact NothingVanishes
PROPERTIES WalkEnds
CHECK_DEADLOCK FALSE
