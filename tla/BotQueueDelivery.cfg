\* The in-world scripts, standing in the region of an announcement that is also posted to
\* a group chat.
CONSTANTS
  Messages = {1, 2}
  Channel1 = "region"
  Channel2 = "group_chat"
  Channel3 = "im"
  HighFirst = TRUE
  Uuids <- mc_Uuids
  Content <- mc_Content
  Workers = {w1}
  Bots = {"b1"}
  Kind <- mc_LslBots
  Place <- mc_AtWelcome
  BatchLimit = 2
  MaxWrongRegion = 2
  MaxRescues = 0
  Lossy = FALSE
SPECIFICATION Spec
INVARIANT DeliveryRulesKept
CHECK_DEADLOCK FALSE
