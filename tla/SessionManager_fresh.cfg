SPECIFICATION FairSpec
CONSTANTS
    Fd = {f1, f2}
    NoFd = NoFd
    CreateSessionNum = 2
    MaxID = 4
    MaxPackets = 1
    FdReuse = FALSE
INVARIANTS
    TypeOK
    ServerSessionsPartitioned
    ClientSessionsDisjoint
    CountersAgree
    MessagesMatchSessions
    SpareSessionsClean
    DescriptorsOwned
    WorkSessionsWatched
    ClosedSessionsQueued
    HeldSessionsNotSpare
PROPERTIES
    ImplementsService
    ImplementsPool
