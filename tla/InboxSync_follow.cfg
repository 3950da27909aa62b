SPECIFICATION Spec
CONSTANTS
    u1 = u1
    v1 = v1
    Conversations = {c1}
    Users = {u1}
    Dispatchers = {d1}
    Writers = {w1}
    MaxRetries = 2
    Mutations = {"send", "read", "hide"}
    MaxChanges = 4
    MaxFaults = 0
    Aging = {u1}
    Established = TRUE
    Devices = {v1}
    UserOf <- OneDevice
    Limit = 1
INVARIANTS
    UpToDateMeansComplete
    FollowersAreKnown
    FollowersMissNothing
CHECK_DEADLOCK FALSE
