SPECIFICATION FairSpec
CONSTANTS
  Clients = {c1, c2}
  h1 = h1
  Handlers = {boot, h1}
  Boot = boot
  MaxPolls = 3
  Settings <- Everywhere
INVARIANTS TypeOK FileFollowsRows RestartPendingInTurn
PROPERTIES SuspendBites PollEnds
