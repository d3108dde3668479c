---------------------------- MODULE AuctionTables ----------------------------
(* The two tables every component of SnapBid works on, "Auction" and "Bid",  *)
(* the business rules the server and the worker evaluate on a row, and what  *)
(* the tables must satisfy whoever writes them.                              *)
(* Money is counted in the smallest unit and time in abstract ticks of the   *)
(* one clock that `new Date()` reads on the server and on the worker.        *)
EXTENDS Integers, Sequences

CONSTANTS
  Auctions,   \* auction ids
  Users,      \* user ids: sellers and bidders
  NoUser,     \* SQL NULL in "winnerId"
  Amounts,    \* the prices, increments and bids that requests carry
  Terms,      \* the terms that createAuctionSchema lets through
  MaxTime     \* bound: the clock stops here

(* createAuctionSchema: positive money, and the refinement endTime > startTime. *)
ASSUME AmountsAssumption == Amounts \subseteq Nat \ {0}
ASSUME TermsAssumption ==
  Terms \subseteq {t \in [startingPrice: Amounts, bidIncrement: Amounts,
                          startTime: Nat, endTime: Nat] : t.startTime < t.endTime}
ASSUME NoUserAssumption == NoUser \notin Users
ASSUME MaxTimeAssumption == MaxTime \in Nat

VARIABLES
  clock,      \* the wall clock
  auction,    \* auction[a]: the committed row of "Auction", NoRow before the insert
  bids        \* bids[a]: the committed rows of "Bid" for a, in commit order

tables == <<auction, bids>>

Times == 0 .. MaxTime
Tick  == clock < MaxTime /\ clock' = clock + 1 /\ UNCHANGED tables

------------------------------------------------------------------------------
(* Rows *)

(* enum AuctionStatus without DRAFT, which no code path ever writes; "NONE"  *)
(* stands for a row that does not exist.                                     *)
Status == {"NONE", "SCHEDULED", "LIVE", "ENDED", "CANCELLED"}

(* winningBidId is an index of bids[a]; 0 is NULL. *)
Auction == [status: Status, sellerId: Users \cup {NoUser},
            startingPrice: Nat, currentPrice: Nat, bidIncrement: Nat,
            startTime: Nat, endTime: Nat,
            winnerId: Users \cup {NoUser}, winningBidId: Nat]

Bid == [bidderId: Users, amount: Amounts, createdAt: Nat]

NoRow == [status |-> "NONE", sellerId |-> NoUser,
          startingPrice |-> 0, currentPrice |-> 0, bidIncrement |-> 0,
          startTime |-> 0, endTime |-> 0, winnerId |-> NoUser, winningBidId |-> 0]

Exists(a) == auction[a].status # "NONE"

------------------------------------------------------------------------------
(* Rules evaluated on a row *)

(* The Faulty definitions, here and below, are the definition that follows   *)
(* them with one slip; only the mutation runs use them.                      *)
FaultyStartAllowed(row, now) == row.status = "SCHEDULED"

StartAllowed(row, now) ==
  /\ row.status = "SCHEDULED"
  /\ row.startTime <= now
  /\ now < row.endTime

EndAllowed(row, now) ==
  /\ row.status = "LIVE"
  /\ row.endTime <= now

(* The check edit and cancel make twice: before the transaction on a row they *)
(* read without a lock, and in it on the locked row.                         *)
SellerMayChange(row, user) ==
  /\ row.sellerId = user
  /\ row.status = "SCHEDULED"

FaultyBidAllowed(row, bidder, amount, now) ==        \* forgets the increment
  /\ row.status = "LIVE"
  /\ row.startTime <= now
  /\ now < row.endTime
  /\ row.sellerId # bidder
  /\ amount >= row.currentPrice
BidAllowed(row, bidder, amount, now) ==
  /\ row.status = "LIVE"
  /\ row.startTime <= now
  /\ now < row.endTime
  /\ row.sellerId # bidder
  /\ amount >= row.currentPrice + row.bidIncrement

------------------------------------------------------------------------------
(* New values of a row *)

FaultyRescheduled(row, terms) ==                     \* forgets currentPrice
  [row EXCEPT !.startingPrice = terms.startingPrice,
              !.bidIncrement  = terms.bidIncrement,
              !.startTime     = terms.startTime,
              !.endTime       = terms.endTime]
Rescheduled(row, terms) ==
  [row EXCEPT !.startingPrice = terms.startingPrice,
              !.currentPrice  = terms.startingPrice,
              !.bidIncrement  = terms.bidIncrement,
              !.startTime     = terms.startTime,
              !.endTime       = terms.endTime]

NewRow(seller, terms, now) ==
  Rescheduled([NoRow EXCEPT
                 !.status   = IF terms.startTime > now THEN "SCHEDULED" ELSE "LIVE",
                 !.sellerId = seller],
              terms)

(* findFirst orderBy [{ amount: "desc" }, { createdAt: "asc" }]: the bids it  *)
(* may return, several when the order leaves a tie.                          *)
FaultyHighestBids(history) == {i \in DOMAIN history : i = 1}  \* orders by age only
HighestBids(history) ==
  {i \in DOMAIN history :
     \A j \in DOMAIN history :
       \/ history[j].amount < history[i].amount
       \/ /\ history[j].amount = history[i].amount
          /\ history[i].createdAt <= history[j].createdAt}

(* findFirst answers null when there is no bid.                              *)
FaultyWinningBids(history) ==                        \* -1 as "not found"
  IF history = <<>> THEN {-1} ELSE HighestBids(history)
WinningBids(history) == IF history = <<>> THEN {0} ELSE HighestBids(history)

Finalized(row, history, best) ==
  [row EXCEPT !.status       = "ENDED",
              !.winnerId     = IF best = 0 THEN NoUser ELSE history[best].bidderId,
              !.winningBidId = best]

------------------------------------------------------------------------------
(* What the committed tables satisfy *)

(* Every row and every bid has the columns of its table. *)
TablesTypeOK ==
  /\ clock \in Times
  /\ auction \in [Auctions -> Auction]
  /\ bids \in [Auctions -> Seq(Bid)]

(* finalizeAuction: an ended auction names as its winner the bidder of the   *)
(* one bid that beats every other bid ever committed for it, and names nobody *)
(* only when there is no bid.                                                *)
NamesHighestBid(row, history) ==
  row.status = "ENDED" =>
    IF history = <<>>
    THEN row.winningBidId = 0 /\ row.winnerId = NoUser
    ELSE /\ row.winningBidId \in DOMAIN history
         /\ row.winnerId = history[row.winningBidId].bidderId
         /\ \A i \in DOMAIN history :
              i # row.winningBidId => history[i].amount < history[row.winningBidId].amount
WinnerIsHighestBid == \A a \in Auctions : NamesHighestBid(auction[a], bids[a])

(* placeBid: of any two bids the later commit exceeds the earlier one by the *)
(* full increment, and every bid exceeds the starting price by it: two       *)
(* bidders racing on the same price cannot both be accepted.                 *)
RaisesByIncrement(row, history) ==
  \A j \in DOMAIN history :
    /\ history[j].amount >= row.startingPrice + row.bidIncrement
    /\ \A i \in DOMAIN history :
         i < j => history[j].amount >= history[i].amount + row.bidIncrement

(* placeBid, updateAuction: "currentPrice", all that the next bid is compared *)
(* with, is the amount of the bid committed last, or the starting price the  *)
(* auction has now.                                                          *)
PriceIsLastBid(row, history) ==
  row.currentPrice = IF history = <<>> THEN row.startingPrice
                                       ELSE history[Len(history)].amount

(* No interleaving of bids and edits lets a bid in below the minimum of the   *)
(* committed bids, and the next one is held to their minimum too.            *)
EveryRaiseMeetsIncrement ==
  \A a \in Auctions : /\ RaisesByIncrement(auction[a], bids[a])
                      /\ PriceIsLastBid(auction[a], bids[a])

(* findBidHistoryByAuctionId, finalizeAuction: ordering by "createdAt" agrees *)
(* with the order of the commits, and no bid is dated before the auction opens *)
(* or comes from its seller.                                                 *)
IsOrdered(row, history, now) ==
  \A j \in DOMAIN history :
    /\ row.startTime <= history[j].createdAt
    /\ history[j].createdAt <= now
    /\ history[j].bidderId # row.sellerId
    /\ \A i \in DOMAIN history :
         i < j => history[i].createdAt <= history[j].createdAt
HistoryIsOrdered == \A a \in Auctions : IsOrdered(auction[a], bids[a], clock)

(* startAuctionService, endAuctionService: an auction is open only from its  *)
(* startTime on, is over only from its endTime on, and holds bids only once it *)
(* has been open.                                                            *)
FitsClock(row, history, now) ==
  /\ row.status \in {"LIVE", "ENDED"} => row.startTime <= now
  /\ row.status = "ENDED" => row.endTime <= now
  /\ history # <<>> => row.status \in {"LIVE", "ENDED"}
StatusFitsClock == \A a \in Auctions : FitsClock(auction[a], bids[a], clock)

(* The diagram of docs/auction-lifecycle.md: ENDED and CANCELLED are final and *)
(* only a scheduled auction may be cancelled.                                *)
StatusEdges ==
  {<<"NONE", "SCHEDULED">>, <<"NONE", "LIVE">>, <<"SCHEDULED", "LIVE">>,
   <<"SCHEDULED", "CANCELLED">>, <<"LIVE", "ENDED">>}
FollowsDiagram(a) ==
  \/ auction'[a].status = auction[a].status
  \/ <<auction[a].status, auction'[a].status>> \in StatusEdges
StatusFollowsDiagram == [][\A a \in Auctions : FollowsDiagram(a)]_tables

(* Once an auction has left SCHEDULED its seller, prices and times are frozen, *)
(* its bids are never removed or changed, and a bid is added only while it is *)
(* LIVE; an ended or cancelled row never changes again.                      *)
TermsOf(row) == <<row.sellerId, row.startingPrice, row.bidIncrement,
                  row.startTime, row.endTime>>
Frozen(a) ==
  /\ auction[a].status \in {"LIVE", "ENDED", "CANCELLED"} =>
       TermsOf(auction'[a]) = TermsOf(auction[a])
  /\ auction[a].status \in {"ENDED", "CANCELLED"} => auction'[a] = auction[a]
  /\ \A i \in DOMAIN bids[a] : i \in DOMAIN bids'[a] /\ bids'[a][i] = bids[a][i]
  /\ bids'[a] # bids[a] => auction[a].status = "LIVE"
FrozenOnceLive == [][\A a \in Auctions : Frozen(a)]_tables
==============================================================================
