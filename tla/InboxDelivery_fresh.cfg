SPECIFICATION DeliverySpec
CONSTANTS
    Conversations = {c1}
    Users = {u1}
    Dispatchers = {d1}
    Writers = {w1, w2}
    MaxRetries = 2
    Mutations = {"send"}
    MaxChanges = 2
    MaxFaults = 1
    Aging = {}
    Established = FALSE
INVARIANTS
    NothingSkipped
CHECK_DEADLOCK FALSE
