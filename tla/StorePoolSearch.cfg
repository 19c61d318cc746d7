SPECIFICATION PoolSpec
CONSTANTS
    mine = mine
    theirs = theirs
    Nil = Nil
    Requests = {r1, r2, r3}
    Entities = {1, 2, 3}
    Groups <- MCGroups
    GroupOf <- MCGroupOf
    Limits = {0, 2}
    DefaultLimit = 1
    OverFetch = 2
    MinFetch = 2
SYMMETRY Symmetry
INVARIANTS
    SearchRight
    EmbeddingsPaired
