CONSTANTS
    Operators = {o1, o2}
    Stations = {s1}
    Lockers = {l1}
    Codes = {k1, k2}
    None = None
SPECIFICATION Spec
PROPERTIES
    LockerRetirementIsTerminal
