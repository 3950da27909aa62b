SPECIFICATION ServicesSpec
CONSTANTS
  ExecutorCount = 2
  Calls = 1
  MaxActionCommands = 2
  MaxTroubles = 1
  DeviceIds = {phone}
  Nodes = {n1, n2}
  Incarnations = 2
  Intents = 1
  SessionLimit = 1
  MaxWireFaults = 1
  Documents = {doc}
  Ingesters = {w1, w2}
  Callers = {c1, c2}
  Attempts = 2
  MaxRequests = 3
  MaxIngestFaults = 2
  Bots = {b1, b2, b3}
  External = {b2, b3}
  Unstoppable = {b3}
  Sessions = {s1, s2}
  RunCount = 4
  DepthLimit = 2
  CountLimit = 2
  OutputLimit = 2
  MaxHalts = 1
  MaxDepartures = 1
  Couriers = 1
  MaxGenerations = 2
  MaxInputs = 2
  MaxOrders = 2
  MaxReports = 2
  MaxMishaps = 1
  Guests = {g1, g2}
  Hooked = {g2}
  Readers = {r1, r2}
  MaxRules = 2
  MaxSent = 1
  MaxChoices = 1
  MaxUpsets = 1
INVARIANTS
  ServicesTypeOK WrittenOnce RefusalHolds UnknownHalts WriteKeepsItsScope
  ApprovedIsPursued
  NewestReachable DeliveredOrPushed ReadyIsExact DeletedLeavesNothing
  TreeHolds ExecutorHolds
  TurnsAreDue TurnsAreTaken
CHECK_DEADLOCK FALSE
