--------------------------- MODULE AuctionContract ---------------------------
(* What the auction backend promises: every operation on an auction is one   *)
(* atomic step on the two tables, whose rule held at some moment that is not *)
(* in the future.                                                            *)
EXTENDS AuctionTables

vars == <<clock, auction, bids>>

Init ==
  /\ clock = 0
  /\ auction = [a \in Auctions |-> NoRow]
  /\ bids = [a \in Auctions |-> <<>>]

(* A moment at which a decision may have been taken. *)
Past == 0 .. clock

Create(a) ==
  /\ ~Exists(a)
  /\ \E seller \in Users, terms \in Terms, now \in Past :
       auction' = [auction EXCEPT ![a] = NewRow(seller, terms, now)]
  /\ UNCHANGED <<clock, bids>>

Edit(a) ==
  /\ auction[a].status = "SCHEDULED"
  /\ \E terms \in Terms :
       auction' = [auction EXCEPT ![a] = Rescheduled(auction[a], terms)]
  /\ UNCHANGED <<clock, bids>>

Cancel(a) ==
  /\ auction[a].status = "SCHEDULED"
  /\ auction' = [auction EXCEPT ![a].status = "CANCELLED"]
  /\ UNCHANGED <<clock, bids>>

Start(a) ==
  /\ \E now \in Past : StartAllowed(auction[a], now)
  /\ auction' = [auction EXCEPT ![a].status = "LIVE"]
  /\ UNCHANGED <<clock, bids>>

(* A bid is admitted at `now`, dated at `createdAt` and never before the one *)
(* it outbids.                                                               *)
PlaceBid(a) ==
  \E bidder \in Users, amount \in Amounts, now \in Past, createdAt \in Past :
    /\ BidAllowed(auction[a], bidder, amount, now)
    /\ now <= createdAt
    /\ \A i \in DOMAIN bids[a] : bids[a][i].createdAt <= now
    /\ bids' = [bids EXCEPT ![a] =
                  Append(bids[a], [bidderId  |-> bidder,
                                   amount    |-> amount,
                                   createdAt |-> createdAt])]
    /\ auction' = [auction EXCEPT ![a].currentPrice = amount]
    /\ UNCHANGED clock

End(a) ==
  /\ \E now \in Past : EndAllowed(auction[a], now)
  /\ \E best \in WinningBids(bids[a]) :
       auction' = [auction EXCEPT ![a] = Finalized(auction[a], bids[a], best)]
  /\ UNCHANGED <<clock, bids>>

Next ==
  \/ Tick
  \/ \E a \in Auctions :
       Create(a) \/ Edit(a) \/ Cancel(a) \/ Start(a) \/ PlaceBid(a) \/ End(a)

Spec == Init /\ [][Next]_vars
==============================================================================
