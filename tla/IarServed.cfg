\* One user, two web workers whose requests overlap; nothing dies: what is pending when
\* the unit starts is served.
CONSTANTS
  Users = {u1}
  Web = {w1, w2}
  Rows = {1, 2, 3}
  Files = {1}
  Pauses = FALSE
  MaxCrashes = 0
  MaxDeaths = 0
SPECIFICATION FairSpec
INVARIANT ActivePerUser
PROPERTY RunServesAll
CHECK_DEADLOCK FALSE
