---------------------------- MODULE MCAuctionStore ----------------------------
(* Small instances of AuctionStore for TLC. *)
EXTENDS AuctionStore, TLC

CONSTANTS a1, u1, u2, u3, s1, s2

(* An auction that opens at once and one that opens at 1; both end at 2. The *)
(* second is dearer and has another increment, so that an edit moves every   *)
(* column.                                                                   *)
MCTerms ==
  {[startingPrice |-> 1, bidIncrement |-> 1, startTime |-> 0, endTime |-> 2],
   [startingPrice |-> 2, bidIncrement |-> 2, startTime |-> 1, endTime |-> 2]}
MCAmounts == 1 .. 4

(* One auction that is already open when it is created. *)
LiveTerms == {[startingPrice |-> 1, bidIncrement |-> 1, startTime |-> 0, endTime |-> 1],
              [startingPrice |-> 1, bidIncrement |-> 1, startTime |-> 1, endTime |-> 2]}

(* Users and sessions are interchangeable. *)
Interchangeable == Permutations({u1, u2, u3}) \cup Permutations({s1, s2})
==============================================================================
