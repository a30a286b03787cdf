SPECIFICATION Spec
CONSTANTS
  Clients = {c1}
  h1 = h1
  Handlers = {boot, h1}
  Boot = boot
  MaxPolls = 3
  Settings <- Overlapping
INVARIANT RestartPending
