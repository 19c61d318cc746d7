SPECIFICATION Spec
CONSTANTS
    Requests = {r1, r2}
    Emails = {a, b}
    Rate = 2
    Burst = 5
    Cost = 2
    Idle = 4
    MaxDelay = 1
    MaxTime = 8
    Gain = 2
    None = None
SYMMETRY Symmetry
INVARIANTS
    WindowBound
PROPERTIES
    KeepsBuckets
