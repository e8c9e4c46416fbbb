\* Two workers answer two bots at once over an unreliable network; an admin retries.
CONSTANTS
  Messages = {1}
  Channel1 = "region"
  Channel2 = "im"
  Channel3 = "im"
  HighFirst = TRUE
  Uuids <- mc_Uuids
  Content <- mc_Content
  Workers = {w1, w2}
  Bots = {"b1", "b2"}
  Kind <- mc_Mixed
  Place <- mc_AtWelcome
  BatchLimit = 2
  MaxWrongRegion = 3
  MaxRescues = 1
  Lossy = TRUE
SPECIFICATION Spec
INVARIANTS TypeOK AtMostOncePerWorker DeliveredWasHeard AttemptsBounded
PROPERTY KeepsLedger
CHECK_DEADLOCK FALSE
