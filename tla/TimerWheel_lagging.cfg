SPECIFICATION FairSpec
CONSTANTS
    Timer = {t1}
    Granularity = 1
    WheelNum = 3
    Size1 = 4
    Size2 = 2
    TimeMod = 64
    Steps = {0, 4, 9}
    Delays = {0, 3, 7, 12}
    MaxLag = 3
    MaxTime = 24
CHECK_DEADLOCK FALSE
INVARIANTS
    TypeOK
    OnTime
PROPERTIES
    EarlyBounded
    DueFires
