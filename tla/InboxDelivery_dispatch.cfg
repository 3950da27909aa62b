SPECIFICATION DeliverySpec
CONSTANTS
    Conversations = {c1}
    Users = {u1}
    Dispatchers = {d1, d2}
    Writers = {w1, w2}
    MaxRetries = 2
    Mutations = {"send", "add", "remove", "read", "close"}
    MaxChanges = 3
    MaxFaults = 2
    Aging = {}
    Established = TRUE
SYMMETRY ProcessSymmetry
INVARIANTS
    SentInOrder
    OncePerChange
    OnlyRecipients
    NothingSkipped
CHECK_DEADLOCK FALSE
