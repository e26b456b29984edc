SPECIFICATION FdbSpec
CONSTANTS
    e1 = e1
    e2 = e2
    e3 = e3
    a = a
    b = b
    EndpointIds = {e1, e2, e3}
    Stations = {a, b}
    Groups = {"broadcast"}
    Vlans = {"untagged", "vlan1"}
    Capacity = 2
    Unknown = Unknown
SYMMETRY MCSymmetry
INVARIANTS ReachesStation LearntStationIsPrivate
