\* One event with two occurrences, one follower, two web workers, a request that may fail.
CONSTANTS
  Events = {e1}
  Occurrences = {o1, o2}
  Users = {u1}
  Workers = {w1, w2}
  MaxRequests = 4
  MaxFailures = 1
SPECIFICATION FairSpec
INVARIANTS TypeOK CancellationStands
PROPERTY CancellationIsTold
CHECK_DEADLOCK FALSE
