SPECIFICATION Spec
CONSTANTS
    Workers = {w1}
    Publishers = {p1}
    Visibility = "conversation"
    MaxSteps = 2
    MaxCommands = 1
    MaxFaults = 2
    Grounds = {}
    StallPoints <- AnyPoint
INVARIANTS
    StoppedPublishesNothing
CHECK_DEADLOCK FALSE
