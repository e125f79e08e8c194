SPECIFICATION Spec
CONSTANTS
  Prospects = {ann}
  Campaigns = {c1}
  Calls = {k1, k2}
  NoProspect = NoProspect
  SyncIds = {"lead"}
  HookIds = {"lead"}
  Judgements = {"review"}
  Pasted = {}
  MaxReplies = 2
SYMMETRY CallSymmetry
INVARIANTS
  TypeOK
  
  
PROPERTIES
  NothingForgotten
