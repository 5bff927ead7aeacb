SPECIFICATION Spec
CONSTANTS
    Objs = {b1, b2, b3}
    Storages = {s1, s2}
    None = None
    MaxLen = 2
    Chunk = 1
    Word = 16
    IntMax = 1
INVARIANTS TypeOK InstancesExact ViewsInside AccessInside AccountCovers
SYMMETRY Identical
CHECK_DEADLOCK FALSE
