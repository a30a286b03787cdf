SPECIFICATION FairSpec
CONSTANTS
  Clients = {c1, c2}
  Octets = {2, 3}
  Handlers = {boot, h1}
  Boot = boot
  RouteBoot = h1
  None = None
  Faults = {"ssh", "crash", "name", "reload"}
INVARIANTS TypeOK NoSharedIp
PROPERTIES LeaseSpec MutexProgress
