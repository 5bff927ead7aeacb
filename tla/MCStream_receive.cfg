SPECIFICATION Spec
CONSTANTS
    CR = CR
    LF = LF
    Bytes = {CR, LF}
    Counts = {0, 4}
    Block = 3
    Room = 7
    MaxBytes = 8
INVARIANTS TypeOK NothingSkipped HeaderSplit CountKept
CHECK_DEADLOCK FALSE
