SPECIFICATION FairSpec
CONSTANTS
    c1 = c1
    c2 = c2
    Arrivals <- TwoClients
    MaxInbox = 1
    Improper = {c2}
INVARIANTS TypeOK WorkIsRegistered DestroyedIsUnreachable JoinNeedsNoServerMutex EndsForAKnownReason
PROPERTIES DisconnectedIsDestroyed ExitEnds ImplementsRegistry
CHECK_DEADLOCK FALSE
