CONSTANTS
  h1 = h1  h2 = h2  w1 = w1  w2 = w2
  Auctions = {a1}
  Users = {u1}
  NoUser = NoUser
  Amounts = {1}
  Terms <- MCTerms
  MaxTime = 3
  Handlers = {h1, h2}
  Workers = {w1, w2}
  MaxRequests = 2
  MaxHandlerFaults = 1
  MaxWorkerCrashes = 1
  MaxJobFaults = 1
  Prompt = {}
  EditsAtStart = TRUE
SYMMETRY Interchangeable
SPECIFICATION Spec
INVARIANTS
  TypeOK
  EventsTellTheTruth
PROPERTIES
  ImplementsContract
CHECK_DEADLOCK FALSE
