SPECIFICATION Spec
CONSTANTS
    c1 = c1
    c2 = c2
    p1 = p1
    p2 = p2
    Clients = {c1, c2}
    Peers = {p1, p2}
    PeersOf <- SharedPeers
    Fields = {"f"}
    Ops = {"entity.create", "entity.update", "entity.archive", "relation.create", "relation.dissolve"}
    Faults = {"statement", "crash"}
    TicksPerSecond = 2
    Widths = {1, 2}
    MaxClock = 3
    Nil = Nil
SYMMETRY Symmetry
INVARIANTS
    TypeOK
    LoggedBeforeProjected
    AckedWritesLast
    AckedWritesShown
PROPERTIES
    CreationImmutable
    NoEdgeRevival
    HistoryStable
