SPECIFICATION LibrarySpec
CONSTANTS
  c1 = c1
  c2 = c2
  Contents = {c1, c2}
  Seeds = {s1}
  Delivered = {c1}
  OldReplies = {c2}
  Processes = {k1, k2}
  Given <- Ratings
  Jobs = {"pull", "cleanup"}
  Metrics <- Interested
  MaxLibrary = 3
  Quota = 3
  MaxRuns = 3
  MaxFailures = 1
CHECK_DEADLOCK FALSE
SYMMETRY Symmetry
INVARIANTS
  LibraryTyped
  LibraryTrue
  
