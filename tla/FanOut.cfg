CONSTANTS
    Agents = {a1, a2, a3, a4}
    Doors = {}
    Stations = {s1}
    TheStation = s1
    Lockers = {1, 2, 3}
    SmallLockers = {1, 2}
    Packages = {1, 2, 3, 4}
    SmallPackages = {1, 2, 3, 4}
    AssignmentIds = {i1, i2, i3, i4}
    LockerStation <- MCLockerStation
    LockerRank <- MCLockerRank
    LockerCode <- MCLockerCode
    PackageRank <- MCPackageRank
    MAX_ATTEMPTS = 3
    PoolSize = 4
    ManagedLockers = {}
    ManagedStations = {}
    None = None
SPECIFICATION FanOutSpec
CHECK_DEADLOCK FALSE
SYMMETRY Symmetry
INVARIANTS
    NoSpuriousRefusal
