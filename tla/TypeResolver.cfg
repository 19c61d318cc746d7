SPECIFICATION Spec
CONSTANTS
    p1 = p1
    p2 = p2
    h1 = h1
    h2 = h2
    Procs = {p1}
    Handlers = {h1, h2}
    ProcOf <- OneProcess
    Names = {"Project", "Task", "Recipe"}
    Seeds = {"Project", "Task"}
    Limit = 3
    Faults = {"statement", "query", "crash"}
    MaxDefs = 4
SYMMETRY Symmetry
INVARIANTS
    DefinitionsVisible
    TypeLoggedFirst
    UsedTypesStored
