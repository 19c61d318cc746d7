SPECIFICATION Spec
CONSTANTS
    Limit = 2
    RecentDays = 2
    StaleDays = 2
    Depth = 3
    MaxDay = 2
    QueryLimit = 1
    TicksPerSecond = 4
    Widths = {1, 2, 4}
    SearchLimit = 1
INVARIANTS
    ValidationSound
    PromptsFaithful
    ProjectionExact
    BriefingComplete
    QueriesAgree
    SearchContains
CHECK_DEADLOCK FALSE
