--------------------------- MODULE MCRefreshTokens ---------------------------
(* Small instances of RefreshTokens for TLC: one browser and up to three      *)
(* requests in flight, enough for a rotation, a second refresh with the same  *)
(* cookie and a logout to meet at every statement.                           *)
EXTENDS RefreshTokens, TLC

CONSTANTS r1, r2, r3, t1, t2, t3, t4

Interchangeable ==
  Permutations({r1, r2, r3}) \cup Permutations({t1, t2, t3, t4})
==============================================================================
