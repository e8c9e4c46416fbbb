\* A series with a follower, the timer on time to within thirty seconds, two lapses (a run that
\* dies, a log row that fails) and two changes by organisers.
CONSTANTS
  Events = {series}
  StartsAt = {31, 34}
  HalfWay = 2
  Offset = 6
  Starts <- mc_Starts
  Rule <- mc_Rule
  Half <- mc_Half
  Fanout <- mc_Fanout
  Followers = {f1}
  Wants <- mc_Wants
  Offsets <- mc_Offsets
  MinGap = 30
  MaxGap = 31
  Horizon = 35
  MaxLapses = 2
  MaxChanges = 2
SPECIFICATION Spec
INVARIANTS TypeOK SentOncePerAttempt LoggedWasQueued UpcomingIsAnnounced VoidOnlyIfOvertaken
PROPERTY KeepsLog
CHECK_DEADLOCK FALSE
