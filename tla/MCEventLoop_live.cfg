SPECIFICATION FairSpec
CONSTANTS
    Sockets = {s}
    Delays = {0, 1}
    MaxTimes = {0, 1}
    Throws = FALSE
    Word = 4
    MaxIds = 2
    MaxRuns = 1
    None = None

PROPERTIES TimersServed ListenersServed

