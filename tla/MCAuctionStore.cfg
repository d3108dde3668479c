CONSTANTS
  a1 = a1  u1 = u1  u2 = u2  u3 = u3  s1 = s1  s2 = s2
  Auctions = {a1}
  Users = {u1, u2, u3}
  NoUser = NoUser
  Sessions = {s1, s2}
  NoSession = NoSession
  Amounts <- MCAmounts
  Terms <- MCTerms
  MaxTime = 2
SYMMETRY Interchangeable
SPECIFICATION Spec
INVARIANTS
  TypeOK
  LockMatchesTransaction
  DecisionsStillHold
  WinnerIsHighestBid
  EveryRaiseMeetsIncrement
  HistoryIsOrdered
  StatusFitsClock
PROPERTIES
  StatusFollowsDiagram
  FrozenOnceLive
  ImplementsContract
