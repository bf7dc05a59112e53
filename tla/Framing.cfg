SPECIFICATION FairSpec
CONSTANTS
    BufferSize = 7
    Payload <- LongMessages
    MaxMessages = 2
    CopyOrders = {"up", "down"}
    Junk = {0}
INVARIANTS
    TypeOK
    InOrderDelivery
PROPERTIES
    SentIsDelivered ImplementsChannel
CHECK_DEADLOCK FALSE
