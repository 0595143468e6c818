SPECIFICATION Spec
CONSTANTS
    Unit = 50
    Cells = {1, 2}
    StaleLimit <- MCStaleLimit
    TimeModulus = 10
    CountModulus = 2
    SamplePeriod <- MCSamplePeriod
    TimerPeriod <- MCTimerPeriod
    InitDelay <- MCInitDelay
    InitMax <- MCInitMax
    ReadMax <- MCReadMax
    LogLength = 1
    Temperatures = {2500}
    Chars = {"r"}
    MaxAsked = 1
    MaxLag = 7
INVARIANTS
    NoSpuriousStale
