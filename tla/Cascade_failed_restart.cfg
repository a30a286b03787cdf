SPECIFICATION CSpec
CONSTANTS
  Clients = {c1, c2}
  Octets = {2, 3}
  Handlers = {boot}
  Boot = boot
  RouteBoot = None
  None = None
  Faults = {}
  BotHy2 = TRUE
  RelayHy2 = TRUE
  RouteFaults = TRUE
CHECK_DEADLOCK FALSE
INVARIANT InSyncMeansLoaded
