\* A unit that is killed, a region that pauses and dies, clean-up.
CONSTANTS
  Users = {u1}
  Web = {w1, w2}
  Rows = {1, 2}
  Files = {1, 2, 3}
  Pauses = TRUE
  MaxCrashes = 1
  MaxDeaths = 1
SPECIFICATION Spec
INVARIANTS TypeOK OneInProcessing ToldOnce CompletedIsOnDisk
PROPERTY KeepsQueue
SYMMETRY mc_Symmetry
CHECK_DEADLOCK FALSE
