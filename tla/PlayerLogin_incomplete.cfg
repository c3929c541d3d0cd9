SPECIFICATION Spec
CONSTANTS
    Player = {p1, p2}
    GameServer = {g1}
    Thread = {t1, t2}
    NoServer = NoServer
    TestPlayer = p1
    TestServer = g1
    LoadsFail = FALSE
    MaxLogins = 2
    MaxRegistrations = 1
CHECK_DEADLOCK FALSE
INVARIANT CompleteHasData
