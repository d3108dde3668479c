CONSTANTS
  a1 = a1  u1 = u1  u2 = u2  u3 = u3  s1 = s1  s2 = s2
  Auctions = {a1}
  Users = {u1, u2}
  NoUser = NoUser
  Sessions = {s1, s2}
  NoSession = NoSession
  Amounts = {1, 2}
  Terms <- LiveTerms
  MaxTime = 1
SPECIFICATION FairSpec
PROPERTIES
  EveryRequestFinishes
