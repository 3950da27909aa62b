SPECIFICATION Spec
CONSTANTS
    Workers = {w1, w2}
    Publishers = {p1}
    Visibility = "conversation"
    MaxSteps = 2
    MaxCommands = 1
    MaxFaults = 2
    Grounds = {"controller"}
    StallPoints <- AfterEntry
SYMMETRY WorkerSymmetry
INVARIANTS
    TypeOK
    AtMostOneMessage
    SnapshotFrozen
    SingleWriter
    NeverStranded
    SucceededIsPublished
PROPERTIES
    StopHolds
    ResultNotRecomputed
CHECK_DEADLOCK FALSE
