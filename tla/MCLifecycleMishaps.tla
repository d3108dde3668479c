-------------------------- MODULE MCLifecycleMishaps --------------------------
(* A small instance of LifecycleMishaps for TLC: one auction, whose terms are *)
(* drawn from an auction that is live at once, one that starts at 1 and one  *)
(* that starts at 2. Prices play no part.                                    *)
EXTENDS LifecycleMishaps

CONSTANTS h1, h2, w1

Slot(start, end) ==
  [startingPrice |-> 1, bidIncrement |-> 1, startTime |-> start, endTime |-> end]
MCTerms == {Slot(0, 1), Slot(1, 2), Slot(2, 3)}
==============================================================================
