SPECIFICATION Spec
CONSTANTS
    MaxCalls = 1
    Fds <- OneFd
INVARIANT NoDanglingThis
CHECK_DEADLOCK FALSE
