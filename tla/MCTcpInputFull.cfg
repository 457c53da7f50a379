SPECIFICATION Spec
CONSTANTS
    Messages <- SomeMessages
    BufferSize = 12
    Window = 2
    MaxMessages = 4
    SplitHeaders = FALSE
    Outside = {0, 3}
PROPERTY ReadBytesAreKept
CHECK_DEADLOCK FALSE
