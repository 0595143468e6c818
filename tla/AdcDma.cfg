SPECIFICATION Spec
CONSTANTS
    Half <- MCHalf
    LatencyMax <- MCLatencyMax
    HandlerMax <- MCHandlerMax
    AgeLimit <- MCAgeLimit
    TimeModulus <- MCTimeModulus
    MaxTime = 18
    MaxErrors = 1
INVARIANTS
    TypeOK
    BlockIntact
    LossCounted
PROPERTIES
    ValidIsFresh
    NoFalseAlarm
