SPECIFICATION Spec
CONSTANTS
    BufferSize = 11
    Payload <- ShortMessages
    MaxMessages = 2
    CopyOrders = {"up"}
    Junk = {0}
PROPERTIES
    ReservedBytesAreTheLastOnes
CHECK_DEADLOCK FALSE
