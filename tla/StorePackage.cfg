CONSTANTS
    Agents = {a1, a2}
    Doors = {d1}
    Stations = {s1}
    TheStation = s1
    Lockers = {1, 2}
    SmallLockers = {1}
    Packages = {1, 2, 3}
    SmallPackages = {1, 2}
    AssignmentIds = {i1, i2, i3}
    LockerStation <- MCLockerStation
    LockerRank <- MCLockerRank
    LockerCode <- MCLockerCode
    PackageRank <- MCPackageRank
    MAX_ATTEMPTS = 2
    PoolSize = 2
    ManagedLockers = {2}
    ManagedStations = {}
    None = None
SPECIFICATION FitSpec
SYMMETRY Symmetry
INVARIANTS
    TypeOK
    OneActivePackagePerLocker
    OneAssignmentPerPackage
    StatusMatchesAssignment
    AllocatedLockerInService
    AnswersAreTrue
PROPERTIES
    SmallestFit
    RefusedOnlyWhenFull
    HistoryKept
    ImplementsLockerBank
