SPECIFICATION FairSpec
CONSTANTS
    c1 = c1
    c2 = c2
    Arrivals <- OneClient
    MaxInbox = 0
    Improper = {}
PROPERTIES CallbackAddsToWork
CHECK_DEADLOCK FALSE
