SPECIFICATION Spec
CONSTANTS
    MaxCalls = 1
    Fds <- OneFd
PROPERTY ClosureRuns
CHECK_DEADLOCK FALSE
