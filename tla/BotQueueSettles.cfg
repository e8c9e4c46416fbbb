\* Nothing is lost: every queued message that is ever acknowledged settles, although one row per
\* poll is taken, a high-priority message for another region comes back until its retries are
\* spent, and an announcement for no region is claimed and never acknowledged.
CONSTANTS
  Messages = {1, 2, 3}
  Channel1 = "im"
  Channel2 = "anywhere"
  Channel3 = "region"
  HighFirst = TRUE
  Uuids <- mc_Uuids
  Content <- mc_Content
  Workers = {w1, w2}
  Bots = {"b1"}
  Kind <- mc_LslBots
  Place <- mc_AtPlaza
  BatchLimit = 1
  MaxWrongRegion = 3
  MaxRescues = 0
  Lossy = FALSE
SPECIFICATION FairSpec
PROPERTY EventuallySettled
CHECK_DEADLOCK FALSE
