SPECIFICATION Spec
CONSTANTS
    Unit = 50
    Cells = {1, 2}
    StaleLimit = 1
    TimeModulus = 4
    CountModulus = 2
    SamplePeriod <- MCSamplePeriod
    TimerPeriod <- MCTimerPeriod
    InitDelay = 1
    InitMax = 1
    ReadMax = 1
    LogLength = 1
    Temperatures = {2500}
    Chars = {"t", "0", "r"}
    MaxAsked = 2
    MaxLag = 1
INVARIANTS
    TypeOK
    RecoveryPaid
    SettledDecision
    ControlSeesSample
PROPERTIES
    ImplementsFaultLatch
