SPECIFICATION TrafficSpec
CONSTANTS
    Names = {a, b}
    Ports = {p1}
    Locals = {v4, v6}
    Confirmers = {c1, c2}
SYMMETRY Alike
CONSTRAINT Apart
INVARIANTS
    AddressesAreListed
    MeasuredHere
    OneProber
