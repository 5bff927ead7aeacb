SPECIFICATION Spec
CONSTANTS
    Scripts = {s1}
    Libs = {l1}
    Faults <- Safe
    MaxWrites = 3
    MaxRefs = 3
    None = None
INVARIANTS FreshScripts HandleAlive

CHECK_DEADLOCK FALSE
