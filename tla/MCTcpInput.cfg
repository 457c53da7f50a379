SPECIFICATION Spec
CONSTANTS
    Messages <- SomeMessages
    BufferSize = 18
    Window = 2
    MaxMessages = 4
    SplitHeaders = FALSE
    Outside = {0, 3}
INVARIANTS TypeOK NeverFull
PROPERTIES ShortReadsAreKept ImplementsChannel
CHECK_DEADLOCK FALSE
