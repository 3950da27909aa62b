SPECIFICATION FairSpec
CONSTANTS
    Workers = {w1}
    Publishers = {p1}
    Visibility = "personal"
    MaxSteps = 2
    MaxCommands = 2
    MaxFaults = 1
    Grounds = {"controller", "material"}
    StallPoints <- AnyPoint
INVARIANTS
    CallBudget
PROPERTIES
    RunConverges
CHECK_DEADLOCK FALSE
