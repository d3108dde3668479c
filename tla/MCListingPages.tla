---------------------------- MODULE MCListingPages ----------------------------
(* A small instance of ListingPages for TLC: enough rows for three pages of    *)
(* one row or two of two, changes between and within them, and room in the    *)
(* order for a row to move anywhere twice.                                   *)
EXTENDS ListingPages, TLC
Symmetry == Permutations(Rows)
==============================================================================
