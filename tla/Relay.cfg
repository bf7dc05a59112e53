SPECIFICATION FairSpec
CONSTANTS
    c1 = c1
    c2 = c2
    Client <- TwoClients
    Limits <- Users
    MaxMessages = 3
    Capacity = 1
    None = None
INVARIANTS TypeOK FramedUnlessCrossed OutlivesPoliteClients
PROPERTIES JamIsForEver MessageArrives ExitComesToAnEnd
CHECK_DEADLOCK FALSE
