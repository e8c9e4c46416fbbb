\* A reminder that falls due between two runs of the fifteen-minute timer.
CONSTANTS
  Events = {single}
  StartsAt = {50}
  HalfWay = 0
  Offset = 35
  Starts <- mc_Starts
  Rule <- mc_Rule
  Half <- mc_Half
  Fanout <- mc_Fanout
  Followers = {f1}
  Wants <- mc_Wants
  Offsets <- mc_Offsets
  MinGap = 30
  MaxGap = 30
  Horizon = 52
  MaxLapses = 0
  MaxChanges = 0
SPECIFICATION Spec
INVARIANT ReminderIsSent
CHECK_DEADLOCK FALSE
