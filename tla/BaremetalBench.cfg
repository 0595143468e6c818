SPECIFICATION FairSpec
CONSTANTS
    Unit = 50
    Cells = {1}
    StaleLimit <- MCStaleLimit
    TimeModulus = 8
    CountModulus = 2
    TickModulus = 6
    TimerPeriod <- MCTimerPeriod
    InitDelay <- MCInitDelay
    InitMax <- MCInitMax
    ReadMax <- MCReadMax
    Temperatures = {2500}
    Chars = {"t", "0", "r", "x"}
    MaxAsked = 1
INVARIANTS
    TypeOK
    PinBounded
PROPERTIES
    ImplementsFaultLatch
    InjectionServed
