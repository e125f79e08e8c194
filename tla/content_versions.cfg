SPECIFICATION Spec
CONSTANTS
  w1 = w1
  w2 = w2
  Leads = {l1}
  NoLead = none
  Kinds = {"email"}
  Workers = {w1, w2}
  Ops <- Regenerators
  NoText = notext
  Given = {"feedback"}
  Texts = {p1, p2}
  Tiers = {"A", "D"}
  SendTiers = {"A"}
  Verified = {l1}
  AllTiers = TRUE
  MaxRows = 3
  MaxEdits = 1
  MaxFaults = 1
CHECK_DEADLOCK FALSE
SYMMETRY Symmetry
INVARIANTS
  TypeOK
  Chains
  BulkCovers
PROPERTIES
  CopiesShown
