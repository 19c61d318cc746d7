SPECIFICATION Spec
CONSTANTS
    c1 = c1
    c2 = c2
    p1 = p1
    p2 = p2
    Clients = {c1, c2}
    Peers = {p1}
    PeersOf <- SharedPeers
    Fields = {"f", "g"}
    Ops = {"entity.create", "entity.update"}
    Faults = {}
    TicksPerSecond = 1
    Widths = {1}
    MaxClock = 3
    Nil = Nil
INVARIANTS
    ReplayAgrees
