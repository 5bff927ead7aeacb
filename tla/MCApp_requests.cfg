SPECIFICATION Spec
CONSTANTS
    config = config
    a = a
    b = b
    missing = missing
    None = None
    Modules <- SomeModules
    Parts <- SomeParts
    Key <- OwnKey
    Config = config
    Codes = {0, 3}
    MaxRequests = 2
    MaxLoads = 5
    MaxOnexit = 2
INVARIANTS TypeOK NoStaleExports CachedIsLoaded OnexitOnce
PROPERTIES RequireKept

CHECK_DEADLOCK FALSE
