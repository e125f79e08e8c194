SPECIFICATION Spec
CONSTANTS
  w1 = w1
  w2 = w2
  e1 = e1
  e2 = e2
  x1 = x1
  x2 = x2
  k1 = k1
  k2 = k2
  n1 = n1
  None = None
  Workspaces = {w1, w2}
  DefaultWorkspace = w1
  Importers = {i1, i2}
  Emails = {e1, e2}
  Sources = {engine, api}
  Ids = {x1, x2}
  Links = {k1, k2}
  Names = {n1}
  Batches <- SomeBatches
  Files <- SomeFiles
  MaxImports = 2
  MaxEdits = 1
  MaxFaults = 1
CHECK_DEADLOCK FALSE
SYMMETRY ImporterSymmetry
INVARIANTS
  TypeOK
  KeysTell
  ListsAndCountsTrue
PROPERTIES
  FieldsKept
