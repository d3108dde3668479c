CONSTANTS
  h1 = h1  h2 = h2  w1 = w1
  Auctions = {a1}
  Users = {u1}
  NoUser = NoUser
  Amounts = {1}
  Terms <- MCTerms
  MaxTime = 3
  Handlers = {h1, h2}
  Workers = {w1}
  MaxRequests = 2
  MaxHandlerFaults = 1
  MaxWorkerCrashes = 1
  MaxJobFaults = 2
  Prompt = {"server"}
  EditsAtStart = TRUE
SPECIFICATION FairHistorySpec
INVARIANTS
  JobsFollowUnlessMishap
  NoEventIsForgotten
PROPERTIES
  AuctionsEndUnlessMishap
  EventsArePublished
CHECK_DEADLOCK FALSE
