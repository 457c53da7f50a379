SPECIFICATION Spec
CONSTANTS
    Conns <- TwoConns
    IoThreads = 2
    MaxRequests <- TwoRequestsAndNone
INVARIANTS TypeOK StaysReachable
PROPERTIES RequestsAreRead ClosedIsDeleted RepliesAreSent
CHECK_DEADLOCK FALSE
