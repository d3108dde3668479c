CONSTANTS
  b1 = b1  b2 = b2  s1 = s1
  Bidders = {b1, b2}
  Sockets = {s1}
  MaxMessages = 3
  MaxFaults = 1
  MaxDrops = 1
  MaxOutages = 2
SYMMETRY Interchangeable
SPECIFICATION Spec
INVARIANTS
  TypeOK
  EventsAreCommitted
  AnswersMatchRoom
  WatchersAreUpToDate
  RoomFollowsRequests
CHECK_DEADLOCK FALSE
