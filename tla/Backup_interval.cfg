SPECIFICATION BackupSpec
CONSTANTS
  Day = 1
  AnchorDay = 4
  TimerLimit = 24
  Configs <- Monthly
  Retention = 2
  Labels = {1}
  Horizon = 6
  MaxMade = 2
CHECK_DEADLOCK FALSE
PROPERTIES OnSchedule
