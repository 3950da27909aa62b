SPECIFICATION Spec
CONSTANTS
    Workers = {w1, w2}
    Publishers = {p1}
    Visibility = "conversation"
    MaxSteps = 2
    MaxCommands = 1
    MaxFaults = 2
    Grounds = {}
    StallPoints <- AnyPoint
SYMMETRY WorkerSymmetry
INVARIANTS
    SingleWriter
CHECK_DEADLOCK FALSE
