SPECIFICATION Spec
CONSTANTS
    Documents <- MCDocuments
    Clients = {c1, c2, c3, c4}
    MaxThreads = 2
    MaxFds = 3
    Ephemeral <- MCEphemeral
    Faults = {"thread", "epoll", "socket"}
CHECK_DEADLOCK FALSE
INVARIANTS TypeOK CrashesForItsConfig HeldUntilStart
PROPERTIES StartupEnds ConnectedAreRegistered
