SPECIFICATION SpscSpec
CONSTANTS
    Size <- MCSize
    Chars = {a, b}
    Nothing = Nothing
INVARIANTS
    SpscTypeOK
    CountReadable
PROPERTIES
    ImplementsByteQueue
