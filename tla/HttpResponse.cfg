SPECIFICATION Spec
CONSTANTS
    Input <- Messages
    Json <- Bodies
INVARIANTS TypeOK CompletesExactly OwnMessagesArrive
CHECK_DEADLOCK FALSE
