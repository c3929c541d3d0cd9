SPECIFICATION LiveSpec
CONSTANTS
    Sizes = {1, 3, 4, 5}
    HeadSize = 2
    ExtraSize = 1
    MaxBody = 5
    SocketSendBuf = 3
    PipeMax = 4
    MaxSent = 3
    Links <- SafeLinks
INVARIANTS TypeOK BuffersLinear NothingLost WriteWatched ClassifiedInTime
PROPERTY ImplementsChannel
CHECK_DEADLOCK FALSE
