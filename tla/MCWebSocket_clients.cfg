SPECIFICATION Spec
CONSTANTS
    c1 = c1
    c2 = c2
    Clients = {c1, c2}
    None = None
    Kinds <- AllKinds
    MaxFrames <- Frames
    Room = 1
    Secure = TRUE
    Polite = TRUE
INVARIANTS TypeOK
PROPERTIES AppSees ClientsServed
CHECK_DEADLOCK FALSE
