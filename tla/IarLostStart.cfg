\* A request whose start of the unit comes while the unit is about to end.
CONSTANTS
  Users = {u1, u2}
  Web = {w1, w2}
  Rows = {1, 2}
  Files = {1, 2}
  Pauses = FALSE
  MaxCrashes = 0
  MaxDeaths = 0
SPECIFICATION FairSpec
PROPERTY EventuallyNotified
CHECK_DEADLOCK FALSE
