SPECIFICATION Spec
CONSTANTS
  ann = ann
  ben = ben
  box = box
  lap = lap
  Users = {ann, ben}
  Newcomers = {ann}
  Workers = {w1, w2}
  MaxFailures = 1
  BanIds = {1, 2}
  Machines = {box, lap}
  SeenOn <- MCSeenOn
  SyncRuns = 2
  Codes = {c1}
  Resets = {r1, r2}
  MaxBumps = 2
  RegionIds = {rg}
  MaxRequests = 3
  TicketIds = {t1}
  Staff = {s1, s2}
  Files = {1, 2, 3}
  Sightings = {"x", "y"}
  Seen <- MCSeen
  MaxIngestFailures = 2
  Newest = 4
  Length <- MCLength
  Repeatable = {1, 4}
  Runners = {q1, q2}
  MaxKills = 1
  Mixes <- MCMixes
SYMMETRY Symmetry
CHECK_DEADLOCK FALSE
INVARIANTS TypeOK RejectedStaysOut BanIsOnRecord HardwareBansEnforced SpentOncePerWorker LogoutEndsAccess AgreedSinceBump NeverHalfFetched ClaimStands ShownIsNewest SchemaIsInOrder
PROPERTIES KeepsSchema KeepsStore
