SPECIFICATION FairSpec
CONSTANTS
    server = server
    command = command
    Procs = {server, command}
    MaxTokens = 2
    CanFail = TRUE
    Absent = Absent
    Empty = Empty
    Garbled = Garbled
INVARIANTS
    TokensTrue
    FileWhole
PROPERTIES
    LockReleased
CHECK_DEADLOCK FALSE
