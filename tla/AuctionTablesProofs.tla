------------------------- MODULE AuctionTablesProofs -------------------------
(* What the tables satisfy, TablesInv, is kept by every operation on a row,  *)
(* for any auctions, users, prices, terms and horizon. It is inductive as it *)
(* stands: the winner needs the raises (so that the last bid is the only     *)
(* highest one), the raises need the price (a new bid is compared with       *)
(* currentPrice alone), and an edit or an insert keeps both only because     *)
(* there is no bid before LIVE.                                              *)
EXTENDS AuctionTables, TLAPS

(* What TablesInv says of one row and its bids. *)
RowInv(row, history, now) ==
  /\ NamesHighestBid(row, history)
  /\ RaisesByIncrement(row, history)
  /\ PriceIsLastBid(row, history)
  /\ IsOrdered(row, history, now)
  /\ FitsClock(row, history, now)
  /\ row.status # "NONE" => row.bidIncrement > 0

TablesInv == TablesTypeOK /\ \A a \in Auctions : RowInv(auction[a], bids[a], clock)

------------------------------------------------------------------------------
(* Each operation on one row *)

LEMMA TermsType ==
  ASSUME NEW terms \in Terms
  PROVE  /\ terms.startingPrice \in Nat \ {0}
         /\ terms.bidIncrement \in Nat \ {0}
         /\ terms.startTime \in Nat
         /\ terms.endTime \in Nat
         /\ terms.startTime < terms.endTime
<1>1. terms \in [startingPrice: Amounts, bidIncrement: Amounts, startTime: Nat, endTime: Nat]
      /\ terms.startTime < terms.endTime
  BY TermsAssumption
<1>2. terms.startingPrice \in Amounts /\ terms.bidIncrement \in Amounts
  BY <1>1
<1> QED BY <1>1, <1>2, AmountsAssumption

LEMMA BidType ==
  ASSUME NEW history \in Seq(Bid), NEW i \in DOMAIN history
  PROVE  /\ history[i].amount \in Nat
         /\ history[i].createdAt \in Nat
         /\ history[i].bidderId \in Users
<1>1. history[i] \in Bid
  OBVIOUS
<1>2. history[i].amount \in Amounts /\ history[i].createdAt \in Nat /\ history[i].bidderId \in Users
  BY <1>1 DEF Bid
<1> QED BY <1>2, AmountsAssumption

LEMMA NewRowKeeps ==
  ASSUME NEW seller \in Users, NEW terms \in Terms, NEW clk \in Nat, NEW now \in 0 .. clk
  PROVE  /\ NewRow(seller, terms, now) \in Auction
         /\ RowInv(NewRow(seller, terms, now), <<>>, clk)
<1>1. NewRow(seller, terms, now) \in Auction
  BY TermsType DEF NewRow, Rescheduled, NoRow, Auction, Status
<1>2. RowInv(NewRow(seller, terms, now), <<>>, clk)
  BY TermsType DEF RowInv, NamesHighestBid, RaisesByIncrement, PriceIsLastBid,
                   IsOrdered, FitsClock, NewRow, Rescheduled, NoRow
<1> QED BY <1>1, <1>2

LEMMA RescheduledKeeps ==
  ASSUME NEW row \in Auction, NEW history \in Seq(Bid), NEW clk \in Nat,
         NEW terms \in Terms,
         RowInv(row, history, clk), row.status = "SCHEDULED"
  PROVE  /\ Rescheduled(row, terms) \in Auction
         /\ RowInv(Rescheduled(row, terms), history, clk)
<1>1. Rescheduled(row, terms) \in Auction
  BY TermsType DEF Rescheduled, Auction
<1>2. history = <<>>
  BY DEF RowInv, FitsClock
<1>3. RowInv(Rescheduled(row, terms), <<>>, clk)
  BY TermsType DEF RowInv, NamesHighestBid, RaisesByIncrement, PriceIsLastBid,
                   IsOrdered, FitsClock, Rescheduled, Auction
<1> QED BY <1>1, <1>2, <1>3

LEMMA CancelledKeeps ==
  ASSUME NEW row \in Auction, NEW history \in Seq(Bid), NEW clk \in Nat,
         RowInv(row, history, clk), row.status = "SCHEDULED"
  PROVE  /\ [row EXCEPT !.status = "CANCELLED"] \in Auction
         /\ RowInv([row EXCEPT !.status = "CANCELLED"], history, clk)
  BY DEF Auction, Status, RowInv, NamesHighestBid, RaisesByIncrement,
         PriceIsLastBid, IsOrdered, FitsClock

LEMMA StartedKeeps ==
  ASSUME NEW row \in Auction, NEW history \in Seq(Bid), NEW clk \in Nat,
         NEW now \in 0 .. clk,
         RowInv(row, history, clk), StartAllowed(row, now)
  PROVE  /\ [row EXCEPT !.status = "LIVE"] \in Auction
         /\ RowInv([row EXCEPT !.status = "LIVE"], history, clk)
  BY DEF Auction, Status, RowInv, NamesHighestBid, RaisesByIncrement,
         PriceIsLastBid, IsOrdered, FitsClock, StartAllowed

LEMMA BidKeeps ==
  ASSUME NEW row \in Auction, NEW history \in Seq(Bid), NEW clk \in Nat,
         NEW bidder \in Users, NEW amount \in Amounts,
         NEW now \in 0 .. clk, NEW createdAt \in 0 .. clk,
         RowInv(row, history, clk), BidAllowed(row, bidder, amount, now),
         now <= createdAt,
         \A i \in DOMAIN history : history[i].createdAt <= now
  PROVE  LET bid == [bidderId |-> bidder, amount |-> amount, createdAt |-> createdAt]
         IN  /\ [row EXCEPT !.currentPrice = amount] \in Auction
             /\ Append(history, bid) \in Seq(Bid)
             /\ RowInv([row EXCEPT !.currentPrice = amount], Append(history, bid), clk)
<1> DEFINE bid == [bidderId |-> bidder, amount |-> amount, createdAt |-> createdAt]
           row2 == [row EXCEPT !.currentPrice = amount]
           history2 == Append(history, bid)
<1>1. amount \in Nat /\ now \in Nat /\ createdAt \in Nat /\ bid \in Bid
  BY AmountsAssumption DEF Bid
<1>2. row2 \in Auction /\ row2.status = "LIVE"
  BY <1>1 DEF Auction, BidAllowed
<1>3. /\ history2 \in Seq(Bid)
      /\ Len(history2) = Len(history) + 1
      /\ DOMAIN history2 = 1 .. (Len(history) + 1)
      /\ DOMAIN history = 1 .. Len(history)
      /\ history2[Len(history) + 1] = bid
      /\ \A i \in 1 .. Len(history) : history2[i] = history[i]
      /\ history2 # <<>>
  BY <1>1
<1>4. \A i \in 1 .. Len(history) : /\ history[i].amount \in Nat
                                   /\ history[i].createdAt \in Nat
  BY <1>3, BidType
<1>5. Len(history) \in Nat
  OBVIOUS
<1>6. /\ row.currentPrice \in Nat /\ row.bidIncrement \in Nat
      /\ row.startingPrice \in Nat /\ row.startTime \in Nat
  BY DEF Auction
<1>7. row.currentPrice >= row.startingPrice
  <2>1. CASE history = <<>>
    BY <2>1, <1>6 DEF RowInv, PriceIsLastBid
  <2>2. CASE history # <<>>
    <3>1. Len(history) \in DOMAIN history
      BY <2>2, <1>3, <1>5
    <3>2. row.currentPrice = history[Len(history)].amount
      BY <2>2 DEF RowInv, PriceIsLastBid
    <3>3. history[Len(history)].amount >= row.startingPrice + row.bidIncrement
      BY <3>1 DEF RowInv, RaisesByIncrement
    <3> QED BY <3>2, <3>3, <1>6
  <2> QED BY <2>1, <2>2
<1>8. \A i \in 1 .. Len(history) : row.currentPrice >= history[i].amount
  <2> TAKE i \in 1 .. Len(history)
  <2>1. row.currentPrice = history[Len(history)].amount /\ Len(history) \in DOMAIN history
    BY <1>3, <1>5 DEF RowInv, PriceIsLastBid
  <2>2. CASE i = Len(history)
    BY <2>1, <2>2, <1>4, <1>6
  <2>3. CASE i < Len(history)
    <3>1. history[Len(history)].amount >= history[i].amount + row.bidIncrement
      BY <2>1, <2>3, <1>3 DEF RowInv, RaisesByIncrement
    <3> QED BY <3>1, <2>1, <1>4, <1>6
  <2> QED BY <2>2, <2>3, <1>5
<1>9. amount >= row.currentPrice + row.bidIncrement
  BY DEF BidAllowed
<1>10. RaisesByIncrement(row2, history2)
  <2>1. row2.startingPrice = row.startingPrice /\ row2.bidIncrement = row.bidIncrement
    BY DEF Auction
  <2> SUFFICES ASSUME NEW j \in 1 .. (Len(history) + 1)
               PROVE  /\ history2[j].amount >= row.startingPrice + row.bidIncrement
                      /\ \A i \in 1 .. (Len(history) + 1) :
                           i < j => history2[j].amount >= history2[i].amount + row.bidIncrement
    BY <1>3, <2>1 DEF RaisesByIncrement
  <2>2. CASE j = Len(history) + 1
    BY <2>2, <1>1, <1>3, <1>4, <1>5, <1>6, <1>7, <1>8, <1>9
  <2>3. CASE j \in 1 .. Len(history)
    BY <2>3, <1>3, <1>5 DEF RowInv, RaisesByIncrement
  <2> QED BY <2>2, <2>3, <1>5
<1>11. IsOrdered(row2, history2, clk)
  <2>1. /\ row2.startTime = row.startTime /\ row2.sellerId = row.sellerId
        /\ row.startTime <= now /\ bidder # row.sellerId
    BY DEF Auction, BidAllowed
  <2> SUFFICES ASSUME NEW j \in 1 .. (Len(history) + 1)
               PROVE  /\ row.startTime <= history2[j].createdAt
                      /\ history2[j].createdAt <= clk
                      /\ history2[j].bidderId # row.sellerId
                      /\ \A i \in 1 .. (Len(history) + 1) :
                           i < j => history2[i].createdAt <= history2[j].createdAt
    BY <1>3, <2>1 DEF IsOrdered
  <2>2. CASE j = Len(history) + 1
    BY <2>1, <2>2, <1>3, <1>4, <1>5, <1>6
  <2>3. CASE j \in 1 .. Len(history)
    BY <2>3, <1>3, <1>5 DEF RowInv, IsOrdered
  <2> QED BY <2>2, <2>3, <1>5
<1>12. PriceIsLastBid(row2, history2)
  BY <1>3 DEF PriceIsLastBid, Auction
<1>13. NamesHighestBid(row2, history2) /\ FitsClock(row2, history2, clk)
  BY <1>2 DEF NamesHighestBid, FitsClock, RowInv, Auction
<1>14. row2.bidIncrement > 0
  BY <1>2 DEF RowInv, BidAllowed, Auction
<1> QED BY <1>2, <1>3, <1>10, <1>11, <1>12, <1>13, <1>14 DEF RowInv

(* The raises make the last bid the only one finalizeAuction may pick. *)
LEMMA HighestBidIsLast ==
  ASSUME NEW row \in Auction, NEW history \in Seq(Bid), history # <<>>,
         row.bidIncrement > 0,
         RaisesByIncrement(row, history), NEW best \in HighestBids(history)
  PROVE  /\ best = Len(history)
         /\ \A i \in DOMAIN history : i # best => history[i].amount < history[best].amount
<1>1. DOMAIN history = 1 .. Len(history) /\ Len(history) \in Nat /\ Len(history) \in DOMAIN history
  OBVIOUS
<1>2. \A i \in DOMAIN history : history[i].amount \in Nat
  BY BidType
<1>3. row.bidIncrement \in Nat
  BY DEF Auction
<1>4. \A i \in DOMAIN history : i < Len(history) =>
        history[i].amount < history[Len(history)].amount
  BY <1>1, <1>2, <1>3 DEF RaisesByIncrement
<1>5. best \in DOMAIN history
  BY DEF HighestBids
<1>6. ~(best < Len(history))
  <2> SUFFICES ASSUME best < Len(history) PROVE FALSE
    OBVIOUS
  <2>1. history[best].amount < history[Len(history)].amount
    BY <1>4, <1>5
  <2>2. history[Len(history)].amount <= history[best].amount
    BY <1>1, <1>2, <1>5 DEF HighestBids
  <2> QED BY <2>1, <2>2, <1>1, <1>2, <1>5
<1> QED BY <1>1, <1>4, <1>5, <1>6
LEMMA FinalizedKeeps ==
  ASSUME NEW row \in Auction, NEW history \in Seq(Bid), NEW clk \in Nat,
         NEW now \in 0 .. clk, NEW best \in WinningBids(history),
         RowInv(row, history, clk), EndAllowed(row, now)
  PROVE  /\ Finalized(row, history, best) \in Auction
         /\ RowInv(Finalized(row, history, best), history, clk)
<1> DEFINE row2 == Finalized(row, history, best)
<1>1. /\ row.startTime <= clk /\ row.endTime <= clk
      /\ row.startTime \in Nat /\ row.endTime \in Nat
      /\ row.bidIncrement > 0
  BY DEF RowInv, FitsClock, EndAllowed, Auction
<1>2. CASE history = <<>>
  <2>1. best = 0
    BY <1>2 DEF WinningBids
  <2>2. row2 \in Auction
    BY <2>1 DEF Finalized, Auction, Status
  <2>3. RowInv(row2, history, clk)
    BY <1>1, <1>2, <2>1 DEF RowInv, NamesHighestBid, RaisesByIncrement, PriceIsLastBid,
                            IsOrdered, FitsClock, Finalized, Auction
  <2> QED BY <2>2, <2>3
<1>3. CASE history # <<>>
  <2>1. best \in HighestBids(history)
    BY <1>3 DEF WinningBids
  <2>2. /\ best = Len(history)
        /\ \A i \in DOMAIN history : i # best => history[i].amount < history[best].amount
    BY <1>1, <1>3, <2>1, HighestBidIsLast DEF RowInv
  <2>3. best \in DOMAIN history /\ best \in Nat /\ best # 0
    BY <1>3, <2>2
  <2>4. history[best].bidderId \in Users
    BY <2>3, BidType
  <2>5. row2 \in Auction
    BY <2>3, <2>4 DEF Finalized, Auction, Status
  <2>6. NamesHighestBid(row2, history)
    BY <1>3, <2>2, <2>3 DEF NamesHighestBid, Finalized, Auction
  <2>7. /\ RaisesByIncrement(row2, history) /\ PriceIsLastBid(row2, history)
        /\ IsOrdered(row2, history, clk)
    BY DEF RowInv, RaisesByIncrement, PriceIsLastBid, IsOrdered, Finalized, Auction
  <2>8. FitsClock(row2, history, clk)
    BY <1>1 DEF FitsClock, Finalized, Auction
  <2>9. row2.bidIncrement > 0
    BY <1>1 DEF Finalized, Auction
  <2> QED BY <2>5, <2>6, <2>7, <2>8, <2>9 DEF RowInv
<1> QED BY <1>2, <1>3

LEMMA TickKeeps ==
  ASSUME NEW row \in Auction, NEW history \in Seq(Bid), NEW clk \in Nat,
         RowInv(row, history, clk)
  PROVE  RowInv(row, history, clk + 1)
<1>1. IsOrdered(row, history, clk + 1)
  BY BidType DEF RowInv, IsOrdered
<1> QED BY <1>1 DEF RowInv, FitsClock, Auction

------------------------------------------------------------------------------
(* A step that gives one auction a sound row and sound bids keeps them all.  *)
LEMMA OneRowChanges ==
  ASSUME TablesInv, NEW a \in Auctions, NEW row, NEW history,
         row \in Auction, history \in Seq(Bid), RowInv(row, history, clock),
         auction' = [auction EXCEPT ![a] = row],
         bids' = [bids EXCEPT ![a] = history],
         UNCHANGED clock
  PROVE  TablesInv'
<1>1. TablesTypeOK'
  BY DEF TablesInv, TablesTypeOK
<1>2. \A b \in Auctions : RowInv(auction'[b], bids'[b], clock')
  BY DEF TablesInv, TablesTypeOK
<1> QED BY <1>1, <1>2 DEF TablesInv

(* The part of TablesInv that a bid in flight needs. *)
LEMMA BidsAreDated ==
  ASSUME TablesInv, NEW a \in Auctions, NEW i \in DOMAIN bids[a]
  PROVE  bids[a][i].createdAt <= clock
  BY DEF TablesInv, RowInv, IsOrdered

LEMMA ReadBack ==
  ASSUME TablesInv, NEW a \in Auctions
  PROVE  /\ auction[a] \in Auction /\ bids[a] \in Seq(Bid)
         /\ RowInv(auction[a], bids[a], clock)
         /\ bids = [bids EXCEPT ![a] = bids[a]]
         /\ auction = [auction EXCEPT ![a] = auction[a]]
         /\ clock \in Nat /\ clock + 1 \in Nat
  BY MaxTimeAssumption DEF TablesInv, TablesTypeOK, Times

LEMMA TickKeepsTables ==
  ASSUME TablesInv, Tick
  PROVE  TablesInv'
<1>1. TablesTypeOK'
  BY MaxTimeAssumption DEF TablesInv, TablesTypeOK, Tick, tables, Times
<1>2. \A a \in Auctions : RowInv(auction[a], bids[a], clock + 1)
  BY ReadBack, TickKeeps
<1> QED BY <1>1, <1>2 DEF TablesInv, Tick, tables

LEMMA EmptyTables ==
  ASSUME clock = 0, auction = [a \in Auctions |-> NoRow], bids = [a \in Auctions |-> <<>>]
  PROVE  TablesInv
<1>1. TablesTypeOK
  BY MaxTimeAssumption DEF TablesTypeOK, Times, NoRow, Auction, Status
<1>2. RowInv(NoRow, <<>>, 0)
  BY DEF RowInv, NamesHighestBid, RaisesByIncrement, PriceIsLastBid, IsOrdered,
         FitsClock, NoRow
<1> QED BY <1>1, <1>2 DEF TablesInv
==============================================================================
