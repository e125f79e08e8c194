SPECIFICATION Spec
CONSTANTS
  Workspaces = {"osp", "client"}
  DefaultWorkspace = "osp"
  Diagnosed = {"client"}
  Calls = {k1, k2}
  Reports <- AtThresholds
  Rewritten = {"EXAMPLE"}
  MaxRecs = 1
  MaxEdits = 1
  MaxFaults = 1
SYMMETRY CallSymmetry
INVARIANTS
  TypeOK
  ProposalsRipe
  
PROPERTIES
  SavesSound
