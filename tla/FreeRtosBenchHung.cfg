SPECIFICATION FairSpec
CONSTANTS
    Unit = 50
    Cells = {1, 2}
    StaleLimit = 1
    TimeModulus = 6
    CountModulus = 2
    SamplePeriod <- MCSamplePeriod
    TimerPeriod <- MCTimerPeriod
    InitDelay = 0
    InitMax = 0
    ReadMax <- MCHungMax
    LogLength = 1
    Temperatures = {2500}
    Chars = {"s"}
    MaxAsked = 0
    MaxLag = 4
INVARIANTS
    PinFresh
PROPERTIES
    KeepsJudging
