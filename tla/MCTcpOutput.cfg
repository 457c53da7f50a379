SPECIFICATION Spec
CONSTANTS
    Types <- BothTypes
    Encoded <- SomeEncoded
    BufferSize = 4
    SendBuffer = 7
INVARIANTS TypeOK WatchesWhileUnsent HoldsEverything
PROPERTY ImplementsChannel
CHECK_DEADLOCK FALSE
