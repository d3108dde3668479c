----------------------------- MODULE MCBidAmount -----------------------------
(* Strings with up to two digits after the point, like those of bidSchema,    *)
(* and sellers' prices with three. Scientific notation starts at 10^4 and at  *)
(* 10^-3 instead of 10^21 and 10^-7.                                          *)
EXTENDS BidAmount

D(digits, scale) == [digits |-> digits, scale |-> scale]
Few     == {1, 5, 10, 19, 100, 109, 110, 995, 999, 1000, 1050, 9999, 10000}
MCPrices     == {D(n, k) : n \in Few, k \in 0 .. 3}
MCIncrements == {D(n, k) : n \in {1, 5, 10, 200}, k \in 0 .. 3}
MCAmounts    == {D(n, k) : n \in Few \cup {11, 105, 1049, 1051}, k \in 0 .. 2}
==============================================================================
