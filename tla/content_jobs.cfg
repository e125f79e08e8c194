SPECIFICATION FairSpec
CONSTANTS
  w1 = w1
  w2 = w2
  Leads = {l1}
  NoLead = none
  Kinds = {"email"}
  Workers = {w1, w2}
  Ops <- Senders
  NoText = notext
  Given = {}
  Texts = {p1}
  Tiers = {"A", "D"}
  SendTiers = {"A"}
  Verified = {l1}
  AllTiers = TRUE
  MaxRows = 2
  MaxEdits = 0
  MaxFaults = 0
CHECK_DEADLOCK FALSE
PROPERTIES
  
  JobsEnd
