-------------------------- MODULE MCAuctionLifecycle --------------------------
(* Small instances of AuctionLifecycle for TLC: one auction, whose terms are  *)
(* drawn from an auction that is live at once, one that starts at 1 and one  *)
(* that starts at 2. Prices play no part.                                    *)
EXTENDS AuctionLifecycle, TLC

CONSTANTS h1, h2, w1, w2

Slot(start, end) ==
  [startingPrice |-> 1, bidIncrement |-> 1, startTime |-> start, endTime |-> end]
MCTerms == {Slot(0, 1), Slot(1, 2), Slot(2, 3)}

Interchangeable == Permutations({h1, h2}) \cup Permutations({w1, w2})
==============================================================================
