SPECIFICATION Spec
CONSTANTS
    MaxCalls = 2
    Fds <- OneFd
PROPERTY ConnectedIsDone
CHECK_DEADLOCK FALSE
