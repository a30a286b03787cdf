SPECIFICATION OrderlySpec
CONSTANTS
  Clients = {c1, c2}
  Octets = {2, 3}
  Handlers = {boot, h1}
  Boot = boot
  RouteBoot = h1
  None = None
  Faults = {"ssh", "crash", "name", "reload"}
  BotHy2 = TRUE
  RelayHy2 = TRUE
  RouteFaults = TRUE
SYMMETRY ClientSymmetry
INVARIANTS CTypeOK SyncHeals NoStolenIp NoInheritedRoute RoutesSettled
