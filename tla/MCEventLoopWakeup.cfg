SPECIFICATION Spec
CONSTANTS
    Loop = loop
    a1 = a1
    f1 = f1
    NoFd = NoFd
    Adders <- OneAdder
    Fds <- OneFd
    MaxCalls = 2
    MaxReady = 1
INVARIANT QueuedTaskWakesLoop
CHECK_DEADLOCK FALSE
