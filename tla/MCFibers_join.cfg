SPECIFICATION Spec
CONSTANTS
    Fibers = {m, f, g}
    Main = m
    MaxCalls = 6
    None = None
INVARIANTS JoinFindsThread
CHECK_DEADLOCK FALSE
