SPECIFICATION DevicesSpec
CONSTANTS
    u1 = u1
    v1 = v1
    Conversations = {c1}
    Users = {u1}
    Dispatchers = {d1}
    Writers = {w1, w2}
    MaxRetries = 2
    Mutations = {"send", "edit", "recall", "delete", "hide", "read", "add", "remove", "close"}
    MaxChanges = 2
    MaxFaults = 1
    Aging = {}
    Established = TRUE
    Devices = {v1}
    UserOf <- OneDevice
    Limit = 2
    DeviceIds = {v1}
    Nodes = {n1, n2}
    Incarnations = 2
    Intents = 0
    SessionLimit = 1
    MaxWireFaults = 1
INVARIANTS
    TypeOK
PROPERTIES
    EventuallyUpToDate
    LostRegistrationEnds
CHECK_DEADLOCK FALSE
