\* One member, two suggestions, two web workers, a limit of one, a request that may fail.
CONSTANTS
  Suggestions = {1, 2}
  Users = {u1}
  Workers = {w1, w2}
  Limit = 1
  MaxFailures = 1
SPECIFICATION FairSpec
INVARIANTS TypeOK PublishedOncePerWorker ApprovedIsPublished PendingWithinLimit
PROPERTY DecisionIsTold
CHECK_DEADLOCK FALSE
