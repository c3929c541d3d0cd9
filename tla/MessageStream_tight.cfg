SPECIFICATION Spec
CONSTANTS
    Sizes = {1, 3}
    HeadSize = 2
    ExtraSize = 1
    MaxBody = 5
    SocketSendBuf = 4
    PipeMax = 8
    MaxSent = 3
    Links <- TightLinks
INVARIANT MessagesIntact
CHECK_DEADLOCK FALSE
