CONSTANTS
  r1 = r1  r2 = r2  r3 = r3
  t1 = t1  t2 = t2  t3 = t3  t4 = t4
  Browsers = {b1}
  Requests = {r1, r2, r3}
  Tokens = {t1, t2, t3, t4}
  NoToken = NoToken
  Lifetime = 1
  MaxTime = 1
  MaxFaults = 1
SYMMETRY Interchangeable
SPECIFICATION Spec
INVARIANTS
  TypeOK
  OneTokenPerLogin
  CookieWorks
PROPERTIES
  EndedLoginsStayEnded
  ImplementsSessions
CHECK_DEADLOCK FALSE
