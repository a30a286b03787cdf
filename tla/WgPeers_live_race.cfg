SPECIFICATION Spec
CONSTANTS
  Clients = {c1, c2}
  Octets = {2, 3}
  Handlers = {boot, h1}
  Boot = boot
  RouteBoot = h1
  None = None
  Faults = {}
CHECK_DEADLOCK FALSE
INVARIANT LiveIsActive
