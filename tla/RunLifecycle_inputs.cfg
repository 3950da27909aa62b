SPECIFICATION Spec
CONSTANTS
    Workers = {w1, w2}
    Publishers = {p1}
    Visibility = "conversation"
    MaxSteps = 3
    MaxCommands = 2
    MaxFaults = 1
    Grounds = {}
    StallPoints <- AfterEntry
SYMMETRY WorkerSymmetry
INVARIANTS
    ResultCoversInputs
    InputsOnceInOrder
PROPERTIES
    KeepsPromise
CHECK_DEADLOCK FALSE
