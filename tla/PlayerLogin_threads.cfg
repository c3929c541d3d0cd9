SPECIFICATION Spec
CONSTANTS
    Player = {p1, p2}
    GameServer = {g1, g2}
    Thread = {t1, t2}
    NoServer = NoServer
    TestPlayer = p1
    TestServer = g1
    LoadsFail = TRUE
    MaxLogins = 1
    MaxRegistrations = 2
CHECK_DEADLOCK FALSE
SYMMETRY Threads
INVARIANTS
    TypeOK
    LoadedReady
    DuplicatesQueued
    FirstLoginComplete
