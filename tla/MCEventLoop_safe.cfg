SPECIFICATION Spec
CONSTANTS
    Sockets = {s}
    Delays = {0, 3}
    MaxTimes = {0, 1}
    Throws = TRUE
    Word = 4
    MaxIds = 3
    MaxRuns = 2
    None = None
INVARIANTS TypeOK CountExact
PROPERTIES ClearedNotCalled

