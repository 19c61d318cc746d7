SPECIFICATION FairSpec
CONSTANTS
    mine = mine
    Nil = Nil
    Requests = {r1, r2}
    Local = {r1}
    Entities = {1}
    Groups <- MCGroups
    GroupOf <- MCGroupOf
    Limits = {0}
    DefaultLimit = 1
    OverFetch = 2
    MinFetch = 2
INVARIANTS
    TypeOK
    AnsweredDurable
    StopLosesNone
PROPERTIES
    RequestsEnd
    SignalStops
