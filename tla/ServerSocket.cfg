SPECIFICATION FairSpec
CONSTANTS
    c1 = c1
    c2 = c2
    c3 = c3
    Client <- ThreeClients
    MaxOpens = 2
    AddressLength <- Initialized
INVARIANTS TypeOK AcceptsWhileOpen
PROPERTIES NothingServedAfterStop ArrivedIsAccepted AcceptorIsJoined
CHECK_DEADLOCK FALSE
