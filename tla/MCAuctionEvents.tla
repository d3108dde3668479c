--------------------------- MODULE MCAuctionEvents ---------------------------
(* Small instances of AuctionEvents for TLC: two bids that can be published   *)
(* in either order around the end of the auction, and a watcher that joins,   *)
(* leaves and joins again, waiting for the answers or not.                   *)
EXTENDS AuctionEvents, TLC

CONSTANTS b1, b2, s1

Interchangeable == Permutations({b1, b2})
==============================================================================
