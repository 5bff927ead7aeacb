SPECIFICATION Spec
CONSTANTS
    CR = CR
    LF = LF
    Bytes = {CR, LF}
    Counts = {0}
    Block = 5
    Room = 5
    MaxBytes = 6
INVARIANT AllSplit
CHECK_DEADLOCK FALSE
