SPECIFICATION FairSpec
CONSTANTS
    Workers = {w1, w2}
    Publishers = {p1}
    Visibility = "conversation"
    MaxSteps = 2
    MaxCommands = 1
    MaxFaults = 1
    Grounds = {"grant"}
    StallPoints <- AnyPoint
PROPERTIES
    StopConverges
    RunConverges
CHECK_DEADLOCK FALSE
