SPECIFICATION FairSpec
CONSTANTS
  Prospects = {ann}
  Campaigns = {c1}
  Calls = {k1}
  NoProspect = NoProspect
  SyncIds = {"lead"}
  HookIds = {"lead"}
  Judgements = {"review"}
  Pasted = {1}
  MaxReplies = 1
PROPERTIES
  QueueFills
