SPECIFICATION FairSpec
CONSTANTS
    Registers <- MpuRegisters
    MaxSize <- MCMaxSize
    SampleSizes <- MCSampleSizes
    MaxFaults = 3
INVARIANTS
    TypeOK
    ReadExact
    NoByteTooMany
    PhasesBounded
    ConfiguredSample
PROPERTIES
    Recovers
