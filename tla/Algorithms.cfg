SPECIFICATION Spec
CONSTANTS
    FieldBits = 3
    Polynomial = 11
\* A computation ends once its output is there.
CHECK_DEADLOCK FALSE
INVARIANTS
    ChunkersAgree
    WireRoundTrips
    RepairRestores
    SharesRecover
    DeltaIsExact
    FlattenKeepsTheTop
    DropDecodes
