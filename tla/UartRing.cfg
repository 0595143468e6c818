SPECIFICATION FairSpec
CONSTANTS
    Size <- MCSize
    Lengths <- MCLengths
    MaxMessages = 2
    MaxBytes = 4
INVARIANTS
    TypeOK
    TxWhole
    RxOrder
    RxIntact
    RxLossCounted
PROPERTIES
    TxDelivers
CHECK_DEADLOCK FALSE
