------------------------------ MODULE MCAccounts ------------------------------
(* A small instance of Accounts for TLC: two requests in flight, three names  *)
(* so that a rename can free the name another request wants, and two emails   *)
(* and two passwords so that it matters whose registration was the first.     *)
EXTENDS Accounts, TLC

CONSTANTS u1, u2, u3, n1, n2, n3, e1, e2, p1, p2, r1, r2

Interchangeable ==
  Permutations({u1, u2, u3}) \cup Permutations({n1, n2, n3}) \cup Permutations({e1, e2})
    \cup Permutations({p1, p2}) \cup Permutations({r1, r2})
==============================================================================
