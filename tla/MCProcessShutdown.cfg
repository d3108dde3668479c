CONSTANTS
  Requests = {r1, r2}
  Jobs = {j1}
  MaxRejections = 1
SPECIFICATION FairSpec
INVARIANTS
  NothingIsCutOff
PROPERTIES
  ShutdownCompletes
CHECK_DEADLOCK FALSE
