SPECIFICATION Spec
CONSTANTS
    Cells = {0, 5}
    Sensors = {0, 1}
    NotFinite = NotFinite
    TestVoltages <- MCTestVoltages
INVARIANTS
    TypeOK
    LowCellsLatch
PROPERTIES
    ImplementsContactor
