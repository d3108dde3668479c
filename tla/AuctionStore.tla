----------------------------- MODULE AuctionStore -----------------------------
(* The operations on an auction as the server and the worker really run them: *)
(* in several steps, with other requests between any two of them. A session  *)
(* is one HTTP request or one job in flight; it reads the row without a lock, *)
(* takes the time, then opens a READ COMMITTED transaction that locks the    *)
(* row (SELECT ... FOR UPDATE), validates the locked row and commits.        *)
(*                                                                           *)
(*   "idle" -> "read" -> "checked" -> "locked" -> "written" -> "idle"        *)
(*                                                                           *)
(* placeBid has no unlocked read and starts at "checked"; creating an auction *)
(* and marking one live are single statements, "checked" -> "idle".          *)
EXTENDS AuctionTables

CONSTANTS
  Sessions,   \* bound: how many requests and jobs are in flight at once
  NoSession   \* nobody holds the row lock

ASSUME NoSessionAssumption == NoSession \notin Sessions

VARIABLES
  session,    \* session[s]: where request s is and what it remembers
  lock        \* lock[a]: the session whose transaction holds the row lock of a

vars == <<clock, auction, bids, session, lock>>

------------------------------------------------------------------------------
(* Requests and sessions *)

Request ==
       [op: {"create", "edit"}, auction: Auctions, user: Users, terms: Terms]
  \cup [op: {"cancel"}, auction: Auctions, user: Users]
  \cup [op: {"bid"}, auction: Auctions, user: Users, amount: Amounts]
  \cup [op: {"start", "end"}, auction: Auctions]

(* now: the `now` local variable of the handler; row: the row it last read;  *)
(* best: highestBid of finalizeAuction, an index of bids[auction].           *)
Idle == [stage |-> "idle"]
Session == [stage: {"read", "checked", "locked", "written"}, req: Request,
            now: Nat, row: Auction, best: Nat]

Op(s)     == session[s].req.op
Target(s) == session[s].req.auction
At(s, stage, ops) == session[s].stage = stage /\ Op(s) \in ops
Busy(s)   == session[s] # Idle

Init ==
  /\ clock = 0
  /\ auction = [a \in Auctions |-> NoRow]
  /\ bids = [a \in Auctions |-> <<>>]
  /\ session = [s \in Sessions |-> Idle]
  /\ lock = [a \in Auctions |-> NoSession]

(* Commit and rollback release the row locks of the transaction; a handler   *)
(* that ends, however it ends, leaves nothing else behind.                   *)
FaultyReleased(s) == lock                            \* never unlocks
Released(s) == [a \in Auctions |-> IF lock[a] = s THEN NoSession ELSE lock[a]]
Finish(s) ==
  /\ session' = [session EXCEPT ![s] = Idle]
  /\ lock' = Released(s)

(* A row lock is granted to one transaction at a time. *)
FaultyRowFree(a) == TRUE                             \* a plain SELECT
RowFree(a) == lock[a] = NoSession

Begin(s, stage, req, now, row) ==
  /\ session[s] = Idle
  /\ session' = [session EXCEPT ![s] = [stage |-> stage, req |-> req, now |-> now,
                                        row |-> row, best |-> 0]]
  /\ UNCHANGED <<clock, tables, lock>>

------------------------------------------------------------------------------
(* Before the transaction *)

(* createAuctionService: the end must lie ahead of `now`, which also decides *)
(* the status; looking up the category takes time. The database draws an id  *)
(* that nobody else has.                                                     *)
CreateRequest(s) ==
  \E a \in Auctions, user \in Users, terms \in Terms :
    /\ ~Exists(a)
    /\ \A r \in Sessions : Busy(r) => ~(Op(r) = "create" /\ Target(r) = a)
    /\ terms.endTime > clock
    /\ Begin(s, "checked", [op |-> "create", auction |-> a, user |-> user, terms |-> terms],
             clock, NoRow)

(* findAuctionById, findAuctionForLifecycle: read the row without a lock; a  *)
(* missing row is refused at once.                                           *)
ReadAuction(s) ==
  \E req \in {q \in Request : q.op \in {"edit", "cancel", "start", "end"}} :
    /\ Exists(req.auction)
    /\ Begin(s, "read", req, 0, auction[req.auction])

(* The check on the row read before; when it fails the request is refused.   *)
Decide(s, allowed, now) ==
  /\ IF allowed
     THEN /\ session' = [session EXCEPT ![s].stage = "checked",
                                        ![s].now = now, ![s].row = NoRow]
          /\ UNCHANGED lock
     ELSE Finish(s)
  /\ UNCHANGED <<clock, tables>>

CheckEdit(s) ==
  /\ At(s, "read", {"edit"})
  /\ Decide(s, /\ SellerMayChange(session[s].row, session[s].req.user)
               /\ session[s].req.terms.startTime > clock, 0)

CheckCancel(s) ==
  /\ At(s, "read", {"cancel"})
  /\ Decide(s, SellerMayChange(session[s].row, session[s].req.user), 0)

CheckStart(s) ==
  /\ At(s, "read", {"start"})
  /\ Decide(s, StartAllowed(session[s].row, clock), clock)

CheckEnd(s) ==
  /\ At(s, "read", {"end"})
  /\ Decide(s, EndAllowed(session[s].row, clock), clock)

(* postBid goes straight to the transaction. *)
BidRequest(s) ==
  \E a \in Auctions, user \in Users, amount \in Amounts :
    Begin(s, "checked", [op |-> "bid", auction |-> a, user |-> user, amount |-> amount],
          0, NoRow)

------------------------------------------------------------------------------
(* Single statements *)

InsertAuction(s) ==
  /\ At(s, "checked", {"create"})
  /\ auction' = [auction EXCEPT ![Target(s)] =
                   NewRow(session[s].req.user, session[s].req.terms, session[s].now)]
  /\ Finish(s)
  /\ UNCHANGED <<clock, bids>>

(* markAuctionAsLive: one UPDATE whose WHERE repeats the rule. It waits for  *)
(* the row lock and then evaluates WHERE on the row as committed, with the   *)
(* `now` taken before it.                                                    *)
FaultyMarkAuctionAsLive(s) ==                        \* trusts the row read before
  /\ At(s, "checked", {"start"})
  /\ RowFree(Target(s))
  /\ auction' = [auction EXCEPT ![Target(s)].status = "LIVE"]
  /\ Finish(s)
  /\ UNCHANGED <<clock, bids>>
MarkAuctionAsLive(s) ==
  /\ At(s, "checked", {"start"})
  /\ RowFree(Target(s))
  /\ auction' = IF StartAllowed(auction[Target(s)], session[s].now)
                THEN [auction EXCEPT ![Target(s)].status = "LIVE"]
                ELSE auction
  /\ Finish(s)
  /\ UNCHANGED <<clock, bids>>

------------------------------------------------------------------------------
(* The transactions of placeBid, updateAuction, cancelScheduledAuction and   *)
(* finalizeAuction                                                           *)

(* SELECT ... FOR UPDATE: waits until nobody holds the row, then reads it.   *)
LockRow(s) ==
  /\ At(s, "checked", {"bid", "edit", "cancel", "end"})
  /\ Exists(Target(s))
  /\ RowFree(Target(s))
  /\ lock' = [lock EXCEPT ![Target(s)] = s]
  /\ session' = [session EXCEPT ![s].stage = "locked", ![s].row = auction[Target(s)]]
  /\ UNCHANGED <<clock, tables>>

(* Only a bid can name an auction that does not exist. *)
RejectMissingRow(s) ==
  /\ At(s, "checked", {"bid"})
  /\ ~Exists(Target(s))
  /\ Finish(s)
  /\ UNCHANGED <<clock, tables>>

(* The rule on the locked row: the statements that follow are sent, or the   *)
(* transaction ends without a write.                                         *)
Validate(s, allowed, now, best) ==
  /\ IF allowed
     THEN /\ session' = [session EXCEPT ![s].stage = "written",
                                        ![s].now = now, ![s].best = best]
          /\ UNCHANGED lock
     ELSE Finish(s)
  /\ UNCHANGED <<clock, tables>>

(* `now` is read after the lock was granted. *)
ValidateBid(s) ==
  /\ At(s, "locked", {"bid"})
  /\ Validate(s, BidAllowed(session[s].row, session[s].req.user,
                            session[s].req.amount, clock), clock, 0)

FaultyValidateChange(s) ==                           \* trusts the row read before
  /\ At(s, "locked", {"edit", "cancel"})
  /\ Validate(s, TRUE, 0, 0)
ValidateChange(s) ==
  /\ At(s, "locked", {"edit", "cancel"})
  /\ Validate(s, SellerMayChange(session[s].row, session[s].req.user), 0, 0)

(* `now` was read before the lock was asked for; the bids are read after it. *)
ValidateEnd(s) ==
  /\ At(s, "locked", {"end"})
  /\ \E best \in WinningBids(bids[Target(s)]) :
       Validate(s, EndAllowed(session[s].row, session[s].now), session[s].now, best)

(* bid.create, dated by @default(now()), and auction.update. *)
CommitBid(s) ==
  /\ At(s, "written", {"bid"})
  /\ \E createdAt \in session[s].now .. clock :
       bids' = [bids EXCEPT ![Target(s)] =
                  Append(bids[Target(s)], [bidderId  |-> session[s].req.user,
                                           amount    |-> session[s].req.amount,
                                           createdAt |-> createdAt])]
  /\ auction' = [auction EXCEPT ![Target(s)].currentPrice = session[s].req.amount]
  /\ Finish(s)
  /\ UNCHANGED clock

CommitEdit(s) ==
  /\ At(s, "written", {"edit"})
  /\ auction' = [auction EXCEPT ![Target(s)] =
                   Rescheduled(auction[Target(s)], session[s].req.terms)]
  /\ Finish(s)
  /\ UNCHANGED <<clock, bids>>

CommitCancel(s) ==
  /\ At(s, "written", {"cancel"})
  /\ auction' = [auction EXCEPT ![Target(s)].status = "CANCELLED"]
  /\ Finish(s)
  /\ UNCHANGED <<clock, bids>>

CommitEnd(s) ==
  /\ At(s, "written", {"end"})
  /\ auction' = [auction EXCEPT ![Target(s)] =
                   Finalized(auction[Target(s)], bids[Target(s)], session[s].best)]
  /\ Finish(s)
  /\ UNCHANGED <<clock, bids>>

(* A statement fails, Prisma's transaction times out, or the process dies:   *)
(* the transaction is rolled back and the request answers with an error.     *)
Abort(s) ==
  /\ Busy(s)
  /\ Finish(s)
  /\ UNCHANGED <<clock, tables>>

------------------------------------------------------------------------------
PassTime == Tick /\ UNCHANGED <<session, lock>>

Arrive(s) == CreateRequest(s) \/ ReadAuction(s) \/ BidRequest(s)

Advance(s) ==
  \/ CheckEdit(s) \/ CheckCancel(s) \/ CheckStart(s) \/ CheckEnd(s)
  \/ InsertAuction(s) \/ RejectMissingRow(s)
  \/ ValidateBid(s) \/ ValidateChange(s) \/ ValidateEnd(s)
  \/ CommitBid(s) \/ CommitEdit(s) \/ CommitCancel(s) \/ CommitEnd(s)

(* The steps that wait for the row lock. *)
Acquire(s) == LockRow(s) \/ MarkAuctionAsLive(s)

Next ==
  \/ PassTime
  \/ \E s \in Sessions : Arrive(s) \/ Advance(s) \/ Acquire(s) \/ Abort(s)

Spec == Init /\ [][Next]_vars

(* The event loop and the database run every statement to its end, and       *)
(* PostgreSQL queues the transactions that wait for a row, so a row that is   *)
(* free again and again is granted. Nothing has to arrive, time out or fail. *)
FairSpec ==
  /\ Spec
  /\ \A s \in Sessions : WF_vars(Advance(s)) /\ SF_vars(Acquire(s))

------------------------------------------------------------------------------
(* Properties of the sessions; those of the tables are in AuctionTables. *)

(* Every session is where its request can be. *)
TypeOK ==
  /\ TablesTypeOK
  /\ session \in [Sessions -> {Idle} \cup Session]
  /\ lock \in [Auctions -> Sessions \cup {NoSession}]

InTransaction(s) == session[s].stage \in {"locked", "written"}

(* FOR UPDATE: the holder of a row lock is exactly the session that is inside *)
(* a transaction on that row, so no lock outlives its request and no two      *)
(* transactions are on the same row.                                         *)
LockMatchesTransaction ==
  /\ \A s \in Sessions : InTransaction(s) => lock[Target(s)] = s
  /\ \A a \in Auctions : lock[a] # NoSession =>
       InTransaction(lock[a]) /\ Target(lock[a]) = a

(* What a transaction read and decided still holds of the committed tables at *)
(* every moment until it commits, whatever else ran since: the row it locked, *)
(* the bid it admitted, the seller's right it verified, the winner it chose. *)
DecisionHolds(s) ==
  LET row     == auction[Target(s)]
      history == bids[Target(s)]
      now     == session[s].now
  IN /\ session[s].row = row
     /\ At(s, "written", {"bid"}) =>
          /\ BidAllowed(row, session[s].req.user, session[s].req.amount, now)
          /\ \A i \in DOMAIN history : history[i].createdAt <= now
     /\ At(s, "written", {"end"}) =>
          EndAllowed(row, now) /\ session[s].best \in WinningBids(history)
     /\ At(s, "written", {"edit", "cancel"}) =>
          SellerMayChange(row, session[s].req.user)
DecisionsStillHold == \A s \in Sessions : InTransaction(s) => DecisionHolds(s)

(* Every request ends: none waits for a row lock for ever. *)
EveryRequestFinishes == \A s \in Sessions : Busy(s) ~> ~Busy(s)

(* The backend keeps the promise of AuctionContract: seen on the tables alone *)
(* every session takes effect in one atomic step.                            *)
Contract == INSTANCE AuctionContract
ImplementsContract == Contract!Spec
==============================================================================
