SPECIFICATION Spec
CONSTANTS
    Fd = {f1, f2, f3}
    NoFd = NoFd
    CreateSessionNum = 2
    MaxID = 4
    MaxPackets = 1
    FdReuse = TRUE
SYMMETRY Descriptors
INVARIANT WorkSessionsWatched
