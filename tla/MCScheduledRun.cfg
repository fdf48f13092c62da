SPECIFICATION Spec
CONSTANTS
  task = task
  hand = hand
  NoRun = NoRun
  Task = task
  Manual = {hand}
  DayHours = 7
  StartHour = 1
  EndHour = 5
  RefreshDays = {0}
  Timeout = 2
  MaxCommand = 1
  MaxNow = 9
  MaxFaults = 3
  MaxByHand = 2
INVARIANTS
  RecoveryIInv
  MarkerIsEarned
  OncePerDay
  RecoveredTheSameDay
