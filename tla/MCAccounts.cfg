CONSTANTS
  u1 = u1  u2 = u2  u3 = u3  n1 = n1  n2 = n2  n3 = n3  e1 = e1  e2 = e2  p1 = p1  p2 = p2  r1 = r1  r2 = r2
  Users = {u1, u2, u3}
  Names = {n1, n2, n3}
  Emails = {e1, e2}
  Passwords = {p1, p2}
  Requests = {r1, r2}
  NoUser = NoUser
  MaxFaults = 1
SYMMETRY Interchangeable
SPECIFICATION Spec
INVARIANTS
  OneAccountPerKey
  AnswersAreTrue
PROPERTIES
  AccountsAreKept
