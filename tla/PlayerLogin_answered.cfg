SPECIFICATION FairSpec
CONSTANTS
    Player = {p1}
    GameServer = {g1}
    Thread = {t1, t2}
    NoServer = NoServer
    TestPlayer = p1
    TestServer = g1
    LoadsFail = FALSE
    MaxLogins = 3
    MaxRegistrations = 2
CHECK_DEADLOCK FALSE
PROPERTY LoginAnswered
