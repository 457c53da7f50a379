SPECIFICATION Spec
CONSTANTS
    Messages <- SomeMessages
    BufferSize = 18
    Window = 2
    MaxMessages = 4
    SplitHeaders = TRUE
    Outside = {0}
PROPERTY MessagesGetThrough
CHECK_DEADLOCK FALSE
