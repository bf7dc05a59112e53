SPECIFICATION FairSpec
CONSTANTS
    socket = socket
    main = main
    worker = worker
    Socket <- OneSocket
    Caller <- TwoCallers
    MaxConnections = 2
    MaxInbox = 1
INVARIANTS TypeOK OneDisconnectPerConnection TerminatesOnlyByLocalClose
PROPERTIES ClosedForAReason ConnectedIsRead LeavingIsNoticed ReaderIsJoined
CHECK_DEADLOCK FALSE
