SPECIFICATION Spec
CONSTANTS
    socket = socket
    main = main
    worker = worker
    Socket <- OneSocket
    Caller <- Main
    MaxConnections = 1
    MaxInbox = 1
INVARIANTS ExitIsNotAnAbort
CHECK_DEADLOCK FALSE
