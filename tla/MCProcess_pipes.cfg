SPECIFICATION Spec
CONSTANTS
    N = 2
    Kinds <- AllKinds
    Faults <- AllFaults
    Cap = 1
    MAX_BUFFER = 2
    MaxIn = 2
    MaxOut = 1
    MaxErr = 2
INVARIANTS TypeOK OutputComplete NothingLeft OnlyJamsStop
PROPERTIES CallReturns
CHECK_DEADLOCK FALSE
