SPECIFICATION FairSpec
CONSTANTS
  Leads = {l1}
  NoLead = NoLead
  Calls = {k1, k2}
  MaxRows = 2
  MaxAttempts = 2
  Tiers = {"B", "C"}
  SendTiers = {"B"}
  VerifyAnswers = {"valid", "invalid"}
INVARIANTS
  TypeOK
  RowsTell
  AtMostOnce
  CopiesGuarded
PROPERTIES
  SendsOnce
  CallsEnd
