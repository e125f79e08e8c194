SPECIFICATION FairQuietSpec
CONSTANTS
  ann = ann
  bob = bob
  Runners = {s1, s2}
  Contacts = {ann, bob}
  FirstRemote <- TwoListed
  Choices <- AllOn
  NoLead = NoLead
  Limit = 1
  PageCap = 1
  MaxPolls = 1
  MaxOverlaps = 1
  MaxFaults = 1
CHECK_DEADLOCK FALSE
PROPERTIES
  
  RunsClose
