CONSTANTS
    Operators = {o1, o2}
    Stations = {s1, s2}
    Lockers = {l1, l2}
    Codes = {k1, k2}
    None = None
SPECIFICATION Spec
SYMMETRY Symmetry
INVARIANTS
    TypeOK
    CodesUniquePerStation
    RetiredStationIsEmpty
    RetiredHoldsNoParcel
PROPERTIES
    LockerStaysPut
    LockerStaysRetired
    StationStaysRetired
    OmittedFieldKept
