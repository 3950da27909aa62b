SPECIFICATION MemberSpec
CONSTANTS
    u1 = u1
    v1 = v1
    Conversations = {c1}
    Users = {u1}
    Dispatchers = {d1}
    Writers = {w1, w2}
    MaxRetries = 2
    Mutations = {"send", "add", "remove"}
    MaxChanges = 4
    MaxFaults = 1
    Aging = {}
    Established = TRUE
    Devices = {v1}
    UserOf <- OneDevice
    Limit = 2
SYMMETRY ProcessSymmetry
INVARIANTS
    UpToDateMeansComplete
CHECK_DEADLOCK FALSE
