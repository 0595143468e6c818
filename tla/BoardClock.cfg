SPECIFICATION Spec
CONSTANTS
    Period <- MCPeriod
    TimeModulus <- MCTimeModulus
    MaxTime <- MCMaxTime
INVARIANTS
    TypeOK
    ReadsTrueTime
