SPECIFICATION Spec
CONSTANTS
    w = w
    Main = main
    Handler = handler
    Loggers <- OneLogger
    Hosts <- OnlyMain
    SetLevel = 1
    MaxLines = 2
    MaxFileSize = 0
    Earlier = 1
    MaxDay = 2
INVARIANTS TypeOK LinesOnceInOrder NoSleepOverLines FilesInOrder
PROPERTY LinesReachFiles
CHECK_DEADLOCK FALSE
