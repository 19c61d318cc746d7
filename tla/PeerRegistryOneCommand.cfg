SPECIFICATION Spec
CONSTANTS
    Procs = {p1}
    Names = {personal, business, coggo}
    MaxPeers = 3
    CanFail = TRUE
    None = None
    Absent = Absent
SYMMETRY Symmetry
INVARIANTS
    Consistent
    PeersKept
