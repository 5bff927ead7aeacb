SPECIFICATION FairSpec
CONSTANTS
    Fibers = {m, f, g}
    Main = m
    MaxCalls = 7
    None = None
INVARIANTS TypeOK OneRuns CurrentRuns RunningFibers
PROPERTIES NoLostSignal LockIsGiven
CHECK_DEADLOCK FALSE
