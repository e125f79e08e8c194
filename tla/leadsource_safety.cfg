SPECIFICATION Spec
CONSTANTS
  ann = ann
  bob = bob
  Runners = {s1}
  Contacts = {ann, bob}
  FirstRemote <- OneListed
  Choices <- OnOrOff
  NoLead = NoLead
  Limit = 1
  PageCap = 1
  MaxPolls = 1
  MaxOverlaps = 1
  MaxFaults = 1
INVARIANTS
  TypeOK
  SettingsKept
  ImportsSafe
