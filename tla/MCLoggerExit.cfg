SPECIFICATION Spec
CONSTANTS
    w = w
    Main = main
    Handler = handler
    Loggers <- OneLogger
    Hosts <- OneLogger
    SetLevel = 1
    MaxLines = 0
    MaxFileSize = 1
    Earlier = 0
    MaxDay = 1
PROPERTY SignalEndsProcess
CHECK_DEADLOCK FALSE
