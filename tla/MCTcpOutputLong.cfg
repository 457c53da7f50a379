SPECIFICATION Spec
CONSTANTS
    Types <- Server
    Encoded <- SomeEncoded
    BufferSize = 4
    SendBuffer = 5
PROPERTY MessagesGetThrough
CHECK_DEADLOCK FALSE
