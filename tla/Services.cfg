SPECIFICATION FairSpec
CONSTANTS
  Day = 2
  AnchorDay = 4
  TimerLimit = 24
  Configs <- Schedules
  Retention = 2
  MaxChanges = 2
  Labels = {1, 2}
  Horizon = 5
  MaxMade = 2
  MaxStaged = 2
  MaxRestores = 2
  PreKeep = 1
  Requests = {1, 2}
  MaxDials = 3
  Askers = {1, 2}
  MaxReadings = 2
  MaxFetches = 3
  SustainFor = 1
  Cooldown = 2
  FailLimit = 2
  Lists = {"p", "q"}
  UCooldown = 2
  Polls = {1, 2}
  MaxBytes = 2
  SubHandlers = {1, 2}
  MaxTokens = 3
  ClientNames = {"m", "n"}
  Hy2Uplink = TRUE
  Rows = {"w", "x"}
  Capable = {"x"}
CHECK_DEADLOCK FALSE
INVARIANTS ServicesTypeOK NewestKept ArmedForConfig RestoreAllOrNothing NoStaleAnswer CountedOnce LinkInHand ClientAsTapped Upgraded ScreenCatchesUp
PROPERTIES RestoreEnds EveryCallerAnswered AlertsFollow UpdatesTold
