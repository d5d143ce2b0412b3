CONSTANTS
    Agents = {a1, a2, a3}
    Doors = {}
    Stations = {s1}
    TheStation = s1
    Lockers = {1, 2, 3}
    SmallLockers = {1, 2}
    Packages = {1, 2, 3}
    SmallPackages = {1, 2, 3}
    AssignmentIds = {i1, i2, i3}
    LockerStation <- MCLockerStation
    LockerRank <- MCLockerRank
    LockerCode <- MCLockerCode
    PackageRank <- MCPackageRank
    MAX_ATTEMPTS = 2
    PoolSize = 2
    ManagedLockers = {}
    ManagedStations = {s1}
    Repeaters = {a1, a3}
    RepeatedPackages = {1}
    None = None
SPECIFICATION AnsweredSpec
VIEW WithoutAnswers
PROPERTIES
    EveryStoreIsAnswered
