SPECIFICATION Spec
CONSTANTS
    c1 = c1
    c2 = c2
    Client <- TwoClients
    Limits <- OneEach
    MaxMessages = 1
    Capacity = 1
    None = None
INVARIANTS FramingIsKept
CHECK_DEADLOCK FALSE
