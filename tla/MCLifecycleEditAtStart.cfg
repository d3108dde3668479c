CONSTANTS
  h1 = h1  h2 = h2  w1 = w1  w2 = w2
  Auctions = {a1}
  Users = {u1}
  NoUser = NoUser
  Amounts = {1}
  Terms <- MCTerms
  MaxTime = 3
  Handlers = {h1}
  Workers = {w1, w2}
  MaxRequests = 2
  MaxHandlerFaults = 0
  MaxWorkerCrashes = 0
  MaxJobFaults = 0
  Prompt = {"server", "worker"}
  EditsAtStart = TRUE
SPECIFICATION FairSpec
PROPERTIES EveryAuctionEnds
CHECK_DEADLOCK FALSE
