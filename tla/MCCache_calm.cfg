SPECIFICATION FairSpec
CONSTANTS
    Scripts = {s1}
    Libs = {l1}
    Faults <- Calm
    MaxWrites = 4
    MaxRefs = 3
    None = None
INVARIANTS TypeOK HitHasEntry FreshLibs RefsExact
PROPERTIES GoodFilesServed

CHECK_DEADLOCK FALSE

