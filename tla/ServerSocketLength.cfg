SPECIFICATION FairSpec
CONSTANTS
    c1 = c1
    c2 = c2
    c3 = c3
    Client <- TwoClients
    MaxOpens = 1
    AddressLength <- Uninitialized
INVARIANTS AcceptsWhileOpen
CHECK_DEADLOCK FALSE
