SPECIFICATION FairSpec
CONSTANTS
  c1 = c1
  c2 = c2
  Drainers = {d1, d2}
  Handlers = {h}
  Contacts = {c1, c2}
  Unidentified = {c2}
  Requests <- OneOrTwo
  BatchSize = 1
  MaxRuns = 2
  MaxFaults = 1
CHECK_DEADLOCK FALSE
INVARIANTS
  TypeOK
  ReportsTrue
PROPERTIES
  Exclusive
  Served
