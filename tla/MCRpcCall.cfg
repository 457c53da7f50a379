SPECIFICATION Spec
CONSTANTS
    MaxCalls = 2
    Fds <- OneFd
INVARIANTS TypeOK OneOutcome OwnedSockets WritableGoesToTheOwner
PROPERTY CallFinishes
CHECK_DEADLOCK FALSE
