SPECIFICATION Spec
CONSTANTS
    Conns <- OneConn
    IoThreads = 1
    MaxRequests <- OneRequest
PROPERTY BrokenIsDeleted
CHECK_DEADLOCK FALSE
