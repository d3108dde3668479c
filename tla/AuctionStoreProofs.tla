-------------------------- MODULE AuctionStoreProofs --------------------------
(* The row lock does its work, for any number of sessions in flight: what a  *)
(* transaction decided still holds when it commits, so every session takes   *)
(* effect in one step of the contract; and the contract by itself keeps the   *)
(* properties of the tables.                                                 *)
EXTENDS AuctionStore, AuctionTablesProofs

(* What a session in flight relies on. Creating a session holds an id that   *)
(* nobody else inserts; a session in a transaction holds its row.            *)
SessionOK(s) ==
  Busy(s) =>
    /\ session[s].now <= clock
    /\ Op(s) = "create" => session[s].stage = "checked" /\ ~Exists(Target(s))
    /\ InTransaction(s) =>
         /\ lock[Target(s)] = s
         /\ Exists(Target(s))
         /\ DecisionHolds(s)

CreatesAreDistinct ==
  \A s, r \in Sessions :
    (Busy(s) /\ Busy(r) /\ Op(s) = "create" /\ Op(r) = "create" /\ s # r)
      => Target(s) # Target(r)

LocksAreHeld ==
  \A a \in Auctions : lock[a] # NoSession => InTransaction(lock[a]) /\ Target(lock[a]) = a

(* Inductive. LockMatchesTransaction and DecisionsStillHold follow from it.  *)
StoreInv ==
  /\ TypeOK
  /\ \A s \in Sessions : SessionOK(s)
  /\ CreatesAreDistinct
  /\ TablesInv
  /\ LocksAreHeld

------------------------------------------------------------------------------
(* Types *)

LEMMA RequestType ==
  ASSUME NEW q \in Request
  PROVE  /\ q.auction \in Auctions
         /\ q.op \in {"create", "edit", "cancel", "bid", "start", "end"}
         /\ q.op \in {"create", "edit", "cancel", "bid"} => q.user \in Users
         /\ q.op \in {"create", "edit"} => q.terms \in Terms
         /\ q.op = "bid" => q.amount \in Amounts
  BY DEF Request

LEMMA SessionType ==
  ASSUME TypeOK, NEW s \in Sessions, session[s].stage # "idle"
  PROVE  /\ session[s] \in Session /\ Busy(s)
         /\ session[s].req \in Request
         /\ Target(s) \in Auctions
         /\ session[s].now \in Nat /\ session[s].best \in Nat /\ session[s].row \in Auction
         /\ Op(s) \in {"create", "edit", "cancel", "bid", "start", "end"}
<1>1. session[s] \in Session /\ Busy(s)
  BY DEF TypeOK, Idle, Busy
<1>2. /\ session[s].req \in Request
      /\ session[s].now \in Nat /\ session[s].best \in Nat /\ session[s].row \in Auction
  BY <1>1 DEF Session
<1> QED BY <1>1, <1>2, RequestType DEF Target, Op

LEMMA BusyStage ==
  ASSUME TypeOK, NEW s \in Sessions
  PROVE  Busy(s) <=> session[s].stage # "idle"
  BY DEF TypeOK, Idle, Busy, Session

------------------------------------------------------------------------------
(* A step of session s keeps StoreInv when it changes only rows and locks    *)
(* that are free or its own, and leaves s itself in order.                   *)
LEMMA StepKeeps ==
  ASSUME StoreInv, NEW s \in Sessions, NEW new \in {Idle} \cup Session,
         session' = [session EXCEPT ![s] = new],
         clock' = clock, TablesInv',
         lock' \in [Auctions -> Sessions \cup {NoSession}],
         \A a \in Auctions : auction'[a] # auction[a] \/ bids'[a] # bids[a] =>
            lock[a] \in {s, NoSession},
         \A a \in Auctions : Exists(a) => Exists(a)',
         \A a \in Auctions : ~Exists(a) /\ Exists(a)' =>
            Busy(s) /\ Op(s) = "create" /\ Target(s) = a,
         \A a \in Auctions : lock'[a] # lock[a] =>
            lock[a] \in {s, NoSession} /\ lock'[a] \in {s, NoSession},
         \A a \in Auctions : lock'[a] = s => InTransaction(s)' /\ Target(s)' = a,
         SessionOK(s)',
         \A r \in Sessions : (Busy(s)' /\ Op(s)' = "create" /\ Busy(r) /\ r # s /\ Op(r) = "create")
            => Target(r) # Target(s)'
  PROVE  StoreInv'
<1>1. TypeOK'
  BY DEF StoreInv, TypeOK, TablesInv
<1>2. ASSUME NEW r \in Sessions, r # s PROVE SessionOK(r)'
  <2>1. session'[r] = session[r] /\ session[r] \in {Idle} \cup Session
    BY <1>2 DEF StoreInv, TypeOK
  <2> SUFFICES ASSUME Busy(r) PROVE SessionOK(r)'
    BY <2>1 DEF SessionOK, Busy
  <2>2. Target(r) \in Auctions /\ SessionOK(r)
    BY <2>1, BusyStage, SessionType DEF StoreInv
  <2>3. Op(r) = "create" => ~Exists(Target(r))'
    <3>1. Op(r) = "create" => ~Exists(Target(r))
      BY <2>2 DEF SessionOK
    <3>2. ASSUME Op(r) = "create", Busy(s), Op(s) = "create" PROVE Target(r) # Target(s)
      BY <1>2, <3>2 DEF StoreInv, CreatesAreDistinct
    <3>3. ASSUME Op(r) = "create" PROVE auction'[Target(r)].status = "NONE"
      BY <2>2, <3>1, <3>2, <3>3 DEF Exists
    <3> QED BY <2>1, <3>3 DEF Exists, Target
  <2>4. ASSUME InTransaction(r)
        PROVE  lock'[Target(r)] = r /\ Exists(Target(r))' /\ DecisionHolds(r)'
    <3>1. lock[Target(r)] = r /\ r # NoSession
      BY <2>2, <2>4, NoSessionAssumption DEF SessionOK
    <3>2. /\ auction'[Target(r)] = auction[Target(r)]
          /\ bids'[Target(r)] = bids[Target(r)]
          /\ lock'[Target(r)] = r
      BY <1>2, <2>2, <3>1
    <3>3. DecisionHolds(r)'
      BY <2>1, <2>2, <2>4, <3>2 DEF SessionOK, DecisionHolds, At, Op, Target
    <3>4. auction'[Target(r)].status # "NONE"
      BY <2>2, <2>4 DEF SessionOK, Exists
    <3> QED BY <2>1, <3>2, <3>3, <3>4 DEF Exists, Target
  <2> QED BY <2>1, <2>2, <2>3, <2>4 DEF SessionOK, Busy, Op, Target, InTransaction
<1>3. CreatesAreDistinct'
  BY DEF StoreInv, TypeOK, CreatesAreDistinct, Busy, Op, Target
<1>4. LocksAreHeld'
  <2> SUFFICES ASSUME NEW a \in Auctions, lock'[a] # NoSession
               PROVE  InTransaction(lock[a])' /\ Target(lock[a])' = a
    BY DEF LocksAreHeld
  <2>1. CASE lock'[a] = s
    BY <2>1
  <2>2. CASE lock'[a] # s
    <3>1. lock'[a] = lock[a] /\ lock[a] \in Sessions
      BY <2>2 DEF StoreInv, TypeOK
    <3> QED BY <2>2, <3>1 DEF StoreInv, TypeOK, LocksAreHeld, InTransaction, Target
  <2> QED BY <2>1, <2>2
<1> QED BY <1>1, <1>2, <1>3, <1>4 DEF StoreInv

(* The session goes on: tables and locks stay, and if it was in a transaction *)
(* it still is, on the same row.                                             *)
LEMMA MoveKeeps ==
  ASSUME StoreInv, NEW s \in Sessions, NEW new \in Session,
         session' = [session EXCEPT ![s] = new],
         UNCHANGED <<clock, tables, lock>>,
         InTransaction(s) => InTransaction(s)' /\ Target(s)' = Target(s),
         SessionOK(s)',
         \A r \in Sessions : (Busy(s)' /\ Op(s)' = "create" /\ Busy(r) /\ r # s /\ Op(r) = "create")
            => Target(r) # Target(s)'
  PROVE  StoreInv'
<1>1. TablesInv' /\ lock' \in [Auctions -> Sessions \cup {NoSession}]
  BY DEF StoreInv, TypeOK, TablesInv, TablesTypeOK, tables
<1>2. \A a \in Auctions : Exists(a)' <=> Exists(a)
  BY DEF Exists, tables
<1>3. \A a \in Auctions : lock'[a] = s => InTransaction(s)' /\ Target(s)' = a
  BY NoSessionAssumption DEF StoreInv, LocksAreHeld
<1>4. new \in {Idle} \cup Session /\ clock' = clock /\ auction' = auction /\ bids' = bids
  BY DEF tables
<1> QED BY <1>1, <1>2, <1>3, <1>4, StepKeeps

(* The session ends, perhaps with a write to rows that are free or its own.  *)
LEMMA FinishKeeps ==
  ASSUME StoreInv, NEW s \in Sessions, Finish(s),
         clock' = clock, TablesInv',
         \A a \in Auctions : auction'[a] # auction[a] \/ bids'[a] # bids[a] =>
            lock[a] \in {s, NoSession},
         \A a \in Auctions : auction[a].status # "NONE" => auction'[a].status # "NONE",
         \A a \in Auctions : auction[a].status = "NONE" /\ auction'[a].status # "NONE" =>
            Busy(s) /\ Op(s) = "create" /\ Target(s) = a
  PROVE  StoreInv'
<1>1. session' = [session EXCEPT ![s] = Idle] /\ Idle \in {Idle} \cup Session
  BY DEF Finish
<1>2. /\ lock' \in [Auctions -> Sessions \cup {NoSession}]
      /\ \A a \in Auctions : lock'[a] # lock[a] =>
           lock[a] \in {s, NoSession} /\ lock'[a] \in {s, NoSession}
      /\ \A a \in Auctions : lock'[a] # s
  BY NoSessionAssumption DEF Finish, Released, StoreInv, TypeOK
<1>3. ~Busy(s)'
  BY <1>1 DEF StoreInv, TypeOK, Busy
<1>4. SessionOK(s)'
  BY <1>3 DEF SessionOK
<1>5. /\ \A a \in Auctions : Exists(a) => Exists(a)'
      /\ \A a \in Auctions : ~Exists(a) /\ Exists(a)' =>
           Busy(s) /\ Op(s) = "create" /\ Target(s) = a
  BY DEF Exists
<1>6. \A a \in Auctions : lock'[a] = s => InTransaction(s)' /\ Target(s)' = a
  BY <1>2
<1>7. \A r \in Sessions : (Busy(s)' /\ Op(s)' = "create" /\ Busy(r) /\ r # s /\ Op(r) = "create")
        => Target(r) # Target(s)'
  BY <1>3
<1> QED BY <1>1, <1>2, <1>4, <1>5, <1>6, <1>7, StepKeeps

LEMMA QuietFinishKeeps ==
  ASSUME StoreInv, NEW s \in Sessions, Finish(s), UNCHANGED <<clock, tables>>
  PROVE  StoreInv'
<1>1. TablesInv' /\ clock' = clock /\ auction' = auction /\ bids' = bids
  BY DEF StoreInv, TypeOK, TablesInv, TablesTypeOK, tables
<1> QED BY <1>1, FinishKeeps

------------------------------------------------------------------------------
(* Arrivals and decisions *)

LEMMA BeginKeeps ==
  ASSUME StoreInv, NEW s \in Sessions, NEW stage \in {"read", "checked"},
         NEW req \in Request, NEW now \in Nat, NEW row \in Auction,
         Begin(s, stage, req, now, row), now <= clock,
         req.op = "create" =>
            /\ stage = "checked" /\ ~Exists(req.auction)
            /\ \A r \in Sessions : Busy(r) => ~(Op(r) = "create" /\ Target(r) = req.auction)
  PROVE  StoreInv'
<1> DEFINE new == [stage |-> stage, req |-> req, now |-> now, row |-> row, best |-> 0]
<1>1. session' = [session EXCEPT ![s] = new] /\ UNCHANGED <<clock, tables, lock>>
  BY DEF Begin
<1>2. new \in Session
  BY DEF Session
<1>3. session'[s] = new
  BY <1>1 DEF StoreInv, TypeOK
<1>4. ~InTransaction(s)
  BY DEF Begin, Idle, InTransaction
<1>5. SessionOK(s)'
  BY <1>1, <1>3 DEF SessionOK, Op, Target, Exists, InTransaction, tables
<1>6. \A r \in Sessions : (Busy(s)' /\ Op(s)' = "create" /\ Busy(r) /\ r # s /\ Op(r) = "create")
        => Target(r) # Target(s)'
  BY <1>3 DEF Op, Target
<1> HIDE DEF new
<1> QED BY <1>1, <1>2, <1>4, <1>5, <1>6, MoveKeeps

LEMMA ArriveKeeps ==
  ASSUME StoreInv, NEW s \in Sessions, Arrive(s)
  PROVE  StoreInv'
<1>1. clock \in Nat /\ 0 <= clock /\ NoRow \in Auction
  BY MaxTimeAssumption DEF StoreInv, TypeOK, TablesTypeOK, Times, NoRow, Auction, Status
<1>2. CASE CreateRequest(s)
  <2>1. PICK a \in Auctions, user \in Users, terms \in Terms :
          /\ ~Exists(a)
          /\ \A r \in Sessions : Busy(r) => ~(Op(r) = "create" /\ Target(r) = a)
          /\ Begin(s, "checked", [op |-> "create", auction |-> a, user |-> user, terms |-> terms],
                   clock, NoRow)
    BY <1>2 DEF CreateRequest
  <2> DEFINE req == [op |-> "create", auction |-> a, user |-> user, terms |-> terms]
  <2>2. req \in Request /\ req.auction = a
    BY DEF Request
  <2> HIDE DEF req
  <2> QED BY <1>1, <2>1, <2>2, BeginKeeps DEF req
<1>3. CASE ReadAuction(s)
  <2>1. PICK req \in Request : /\ req.op \in {"edit", "cancel", "start", "end"}
                              /\ Begin(s, "read", req, 0, auction[req.auction])
    BY <1>3 DEF ReadAuction
  <2>2. auction[req.auction] \in Auction
    BY RequestType DEF StoreInv, TypeOK, TablesTypeOK
  <2> QED BY <1>1, <2>1, <2>2, BeginKeeps
<1>4. CASE BidRequest(s)
  <2>1. PICK a \in Auctions, user \in Users, amount \in Amounts :
          Begin(s, "checked", [op |-> "bid", auction |-> a, user |-> user, amount |-> amount],
                0, NoRow)
    BY <1>4 DEF BidRequest
  <2> DEFINE req == [op |-> "bid", auction |-> a, user |-> user, amount |-> amount]
  <2>2. req \in Request /\ req.op = "bid"
    BY DEF Request
  <2> HIDE DEF req
  <2> QED BY <1>1, <2>1, <2>2, BeginKeeps DEF req
<1> QED BY <1>2, <1>3, <1>4 DEF Arrive

LEMMA DecideKeeps ==
  ASSUME StoreInv, NEW s \in Sessions, NEW allowed \in BOOLEAN, NEW now \in Nat, now <= clock,
         session[s].stage = "read", Decide(s, allowed, now)
  PROVE  StoreInv'
<1> DEFINE new == [session[s] EXCEPT !.stage = "checked", !.now = now, !.row = NoRow]
<1>1. CASE allowed
  <2>1. /\ session' = [session EXCEPT ![s] = new] /\ UNCHANGED <<clock, tables, lock>>
    BY <1>1 DEF Decide
  <2>2. session[s] \in Session /\ Busy(s) /\ Op(s) # "create"
    BY SessionType DEF StoreInv, SessionOK
  <2>3. NoRow \in Auction
    BY DEF NoRow, Auction, Status
  <2>4. new \in Session /\ new.req = session[s].req /\ new.stage = "checked" /\ new.now = now
    BY <2>2, <2>3 DEF Session
  <2>5. session'[s] = new
    BY <2>1 DEF StoreInv, TypeOK
  <2>6. ~InTransaction(s)
    BY DEF InTransaction
  <2>7. Op(s)' # "create"
    BY <2>2, <2>4, <2>5 DEF Op
  <2>8. SessionOK(s)'
    BY <2>1, <2>4, <2>5, <2>7 DEF SessionOK, InTransaction
  <2> HIDE DEF new
  <2> QED BY <2>1, <2>4, <2>6, <2>7, <2>8, MoveKeeps
<1>2. CASE ~allowed
  BY <1>2, QuietFinishKeeps DEF Decide
<1> QED BY <1>1, <1>2

LEMMA ValidateKeeps ==
  ASSUME StoreInv, NEW s \in Sessions, NEW allowed \in BOOLEAN, NEW now \in Nat, now <= clock,
         NEW best \in Nat, session[s].stage = "locked", Validate(s, allowed, now, best),
         allowed /\ Op(s) = "bid" =>
            BidAllowed(session[s].row, session[s].req.user, session[s].req.amount, now)
              /\ now = clock,
         allowed /\ Op(s) = "end" =>
            EndAllowed(session[s].row, now) /\ best \in WinningBids(bids[Target(s)]),
         allowed /\ Op(s) \in {"edit", "cancel"} =>
            SellerMayChange(session[s].row, session[s].req.user)
  PROVE  StoreInv'
<1> DEFINE new == [session[s] EXCEPT !.stage = "written", !.now = now, !.best = best]
<1>1. CASE allowed
  <2>1. /\ session' = [session EXCEPT ![s] = new] /\ UNCHANGED <<clock, tables, lock>>
    BY <1>1 DEF Validate
  <2>2. session[s] \in Session /\ Busy(s) /\ Target(s) \in Auctions
    BY SessionType DEF StoreInv
  <2>3. /\ new \in Session /\ new.req = session[s].req /\ new.stage = "written"
        /\ new.now = now /\ new.best = best /\ new.row = session[s].row
    BY <2>2 DEF Session
  <2>4. session'[s] = new
    BY <2>1 DEF StoreInv, TypeOK
  <2>5. InTransaction(s) /\ InTransaction(s)' /\ Target(s)' = Target(s) /\ Op(s)' = Op(s)
    BY <2>3, <2>4 DEF InTransaction, Target, Op
  <2>6. /\ lock[Target(s)] = s /\ Exists(Target(s)) /\ session[s].row = auction[Target(s)]
        /\ Op(s) # "create"
    BY <2>2, <2>5 DEF StoreInv, SessionOK, DecisionHolds
  <2> HIDE DEF new
  <2>7. DecisionHolds(s)'
    BY <1>1, <2>1, <2>2, <2>3, <2>4, <2>5, <2>6, BidsAreDated
       DEF DecisionHolds, At, tables, StoreInv, Target, Op
  <2>8. SessionOK(s)'
    BY <2>1, <2>3, <2>4, <2>5, <2>6, <2>7 DEF SessionOK, Exists, tables
  <2> QED BY <2>1, <2>3, <2>5, <2>6, <2>8, MoveKeeps
<1>2. CASE ~allowed
  BY <1>2, QuietFinishKeeps DEF Validate
<1> QED BY <1>1, <1>2

------------------------------------------------------------------------------
(* The steps that read or change the tables *)

LEMMA LockRowKeeps ==
  ASSUME StoreInv, NEW s \in Sessions, LockRow(s)
  PROVE  StoreInv'
<1> DEFINE new == [session[s] EXCEPT !.stage = "locked", !.row = auction[Target(s)]]
<1>1. /\ session' = [session EXCEPT ![s] = new]
      /\ lock' = [lock EXCEPT ![Target(s)] = s]
      /\ clock' = clock /\ auction' = auction /\ bids' = bids
      /\ session[s].stage = "checked" /\ Op(s) \in {"bid", "edit", "cancel", "end"}
      /\ Exists(Target(s)) /\ lock[Target(s)] = NoSession
  BY DEF LockRow, At, RowFree, tables
<1>2. session[s] \in Session /\ Busy(s) /\ Target(s) \in Auctions
  BY <1>1, SessionType DEF StoreInv
<1>3. auction[Target(s)] \in Auction
  BY <1>2 DEF StoreInv, TypeOK, TablesTypeOK
<1>4. /\ new \in Session /\ new.req = session[s].req /\ new.stage = "locked"
      /\ new.now = session[s].now /\ new.row = auction[Target(s)]
  BY <1>2, <1>3 DEF Session
<1>5. session'[s] = new
  BY <1>1 DEF StoreInv, TypeOK
<1>6. Target(s)' = Target(s) /\ Op(s)' = Op(s) /\ InTransaction(s)'
  BY <1>4, <1>5 DEF Target, Op, InTransaction
<1> HIDE DEF new
<1>7. lock' \in [Auctions -> Sessions \cup {NoSession}] /\ lock'[Target(s)] = s
  BY <1>1, <1>2 DEF StoreInv, TypeOK
<1>8. /\ \A a \in Auctions : lock'[a] # lock[a] =>
           lock[a] \in {s, NoSession} /\ lock'[a] \in {s, NoSession}
      /\ \A a \in Auctions : lock'[a] = s => a = Target(s)
  <2>1. \A a \in Auctions : lock[a] # s
    BY <1>1, NoSessionAssumption DEF StoreInv, LocksAreHeld, InTransaction
  <2> QED BY <1>1, <2>1 DEF StoreInv, TypeOK
<1>9. SessionOK(s)'
  <2>1. Exists(Target(s))'
    BY <1>1, <1>6 DEF Exists
  <2>2. DecisionHolds(s)'
    BY <1>1, <1>4, <1>5, <1>6 DEF DecisionHolds, At
  <2>3. session'[s].now <= clock'
    BY <1>1, <1>2, <1>4, <1>5 DEF StoreInv, SessionOK
  <2> QED BY <1>1, <1>6, <1>7, <2>1, <2>2, <2>3 DEF SessionOK
<1>10. TablesInv'
  BY <1>1 DEF StoreInv, TablesInv, TablesTypeOK
<1>11. \A a \in Auctions : Exists(a)' <=> Exists(a)
  BY <1>1 DEF Exists
<1> QED BY <1>1, <1>4, <1>6, <1>7, <1>8, <1>9, <1>10, <1>11, StepKeeps

(* A session that ends with a write to the row it names, which is free or    *)
(* its own.                                                                  *)
LEMMA WriteKeeps ==
  ASSUME StoreInv, NEW s \in Sessions, Finish(s), Busy(s),
         NEW row \in Auction, NEW history \in Seq(Bid), RowInv(row, history, clock),
         auction' = [auction EXCEPT ![Target(s)] = row],
         bids' = [bids EXCEPT ![Target(s)] = history],
         UNCHANGED clock,
         lock[Target(s)] \in {s, NoSession},
         row.status # "NONE",
         Exists(Target(s)) \/ Op(s) = "create"
  PROVE  StoreInv'
<1>1. Target(s) \in Auctions
  BY BusyStage, SessionType DEF StoreInv
<1>2. TablesInv'
  BY <1>1, OneRowChanges DEF StoreInv
<1>3. \A a \in Auctions : a # Target(s) => auction'[a] = auction[a] /\ bids'[a] = bids[a]
  BY <1>1 DEF StoreInv, TypeOK, TablesTypeOK
<1>4. auction'[Target(s)] = row
  BY <1>1 DEF StoreInv, TypeOK, TablesTypeOK
<1> QED BY <1>2, <1>3, <1>4, FinishKeeps DEF Exists

(* What a session in a transaction may count on when it commits. *)
LEMMA CommitFacts ==
  ASSUME StoreInv, NEW s \in Sessions, session[s].stage = "written"
  PROVE  /\ Busy(s) /\ Target(s) \in Auctions /\ session[s].req \in Request
         /\ lock[Target(s)] = s /\ Exists(Target(s)) /\ DecisionHolds(s)
         /\ session[s].now \in 0 .. clock
         /\ auction[Target(s)] \in Auction /\ bids[Target(s)] \in Seq(Bid)
         /\ RowInv(auction[Target(s)], bids[Target(s)], clock)
         /\ bids = [bids EXCEPT ![Target(s)] = bids[Target(s)]]
         /\ auction = [auction EXCEPT ![Target(s)] = auction[Target(s)]]
         /\ clock \in Nat
<1>1. /\ Busy(s) /\ Target(s) \in Auctions /\ session[s].req \in Request
      /\ session[s].now \in Nat
  BY SessionType DEF StoreInv
<1>2. /\ lock[Target(s)] = s /\ Exists(Target(s)) /\ DecisionHolds(s)
      /\ session[s].now <= clock
  BY <1>1 DEF StoreInv, SessionOK, InTransaction
<1>3. /\ auction[Target(s)] \in Auction /\ bids[Target(s)] \in Seq(Bid)
      /\ RowInv(auction[Target(s)], bids[Target(s)], clock)
      /\ bids = [bids EXCEPT ![Target(s)] = bids[Target(s)]]
      /\ auction = [auction EXCEPT ![Target(s)] = auction[Target(s)]]
      /\ clock \in Nat
  BY <1>1, ReadBack DEF StoreInv
<1> QED BY <1>1, <1>2, <1>3

LEMMA InsertAuctionKeeps ==
  ASSUME StoreInv, NEW s \in Sessions, InsertAuction(s)
  PROVE  StoreInv'
<1> DEFINE row == NewRow(session[s].req.user, session[s].req.terms, session[s].now)
<1>1. session[s].stage = "checked" /\ Op(s) = "create" /\ Finish(s) /\ UNCHANGED clock
  BY DEF InsertAuction, At
<1>2. /\ Busy(s) /\ Target(s) \in Auctions /\ session[s].now \in Nat
      /\ session[s].req.user \in Users /\ session[s].req.terms \in Terms
  BY <1>1, SessionType, RequestType DEF StoreInv, Op
<1>3. /\ auction[Target(s)].status = "NONE" /\ session[s].now <= clock
  BY <1>1, <1>2 DEF StoreInv, SessionOK, Exists
<1>4. /\ bids[Target(s)] = <<>> /\ clock \in Nat /\ session[s].now \in 0 .. clock
      /\ bids = [bids EXCEPT ![Target(s)] = bids[Target(s)]]
  BY <1>2, <1>3, ReadBack DEF StoreInv, RowInv, FitsClock
<1>5. row \in Auction /\ RowInv(row, bids[Target(s)], clock)
  BY <1>2, <1>4, NewRowKeeps
<1>6. row.status # "NONE"
  BY DEF NewRow, Rescheduled, NoRow
<1>7. lock[Target(s)] = NoSession
  <2> SUFFICES ASSUME lock[Target(s)] # NoSession PROVE FALSE
    OBVIOUS
  <2> DEFINE r == lock[Target(s)]
  <2>1. r \in Sessions /\ InTransaction(r) /\ Target(r) = Target(s)
    BY <1>2 DEF StoreInv, TypeOK, LocksAreHeld
  <2>2. Busy(r)
    BY <2>1, BusyStage DEF StoreInv, InTransaction
  <2> HIDE DEF r
  <2> QED BY <1>3, <2>1, <2>2 DEF StoreInv, SessionOK, Exists
<1>8. auction' = [auction EXCEPT ![Target(s)] = row] /\ bids' = bids /\ bids[Target(s)] \in Seq(Bid)
  BY <1>4 DEF InsertAuction
<1> HIDE DEF row
<1> QED BY <1>1, <1>2, <1>4, <1>5, <1>6, <1>7, <1>8, WriteKeeps

LEMMA MarkAuctionAsLiveKeeps ==
  ASSUME StoreInv, NEW s \in Sessions, MarkAuctionAsLive(s)
  PROVE  StoreInv'
<1>1. /\ session[s].stage = "checked" /\ Finish(s) /\ UNCHANGED clock /\ bids' = bids
      /\ lock[Target(s)] = NoSession
  BY DEF MarkAuctionAsLive, At, RowFree
<1>2. Busy(s) /\ Target(s) \in Auctions /\ session[s].now \in Nat
  BY <1>1, SessionType DEF StoreInv
<1>3. CASE StartAllowed(auction[Target(s)], session[s].now)
  <2> DEFINE row == [auction[Target(s)] EXCEPT !.status = "LIVE"]
  <2>1. /\ auction[Target(s)] \in Auction /\ bids[Target(s)] \in Seq(Bid)
        /\ RowInv(auction[Target(s)], bids[Target(s)], clock)
        /\ bids = [bids EXCEPT ![Target(s)] = bids[Target(s)]]
        /\ clock \in Nat /\ session[s].now \in 0 .. clock
    BY <1>2, ReadBack DEF StoreInv, SessionOK
  <2>2. row \in Auction /\ RowInv(row, bids[Target(s)], clock)
    BY <1>3, <2>1, StartedKeeps
  <2>3. auction' = [auction EXCEPT ![Target(s)] = row] /\ row.status # "NONE" /\ Exists(Target(s))
    BY <1>3, <2>1 DEF MarkAuctionAsLive, StartAllowed, Exists, Auction
  <2> HIDE DEF row
  <2> QED BY <1>1, <1>2, <2>1, <2>2, <2>3, WriteKeeps
<1>4. CASE ~StartAllowed(auction[Target(s)], session[s].now)
  BY <1>1, <1>4, QuietFinishKeeps DEF MarkAuctionAsLive, tables
<1> QED BY <1>3, <1>4

LEMMA CommitBidKeeps ==
  ASSUME StoreInv, NEW s \in Sessions, CommitBid(s)
  PROVE  StoreInv'
<1> DEFINE bidder == session[s].req.user
           amount == session[s].req.amount
           now    == session[s].now
           row    == [auction[Target(s)] EXCEPT !.currentPrice = amount]
           dated(t) == Append(bids[Target(s)],
                              [bidderId |-> bidder, amount |-> amount, createdAt |-> t])
<1>1. /\ session[s].stage = "written" /\ Op(s) = "bid" /\ Finish(s) /\ UNCHANGED clock
      /\ auction' = [auction EXCEPT ![Target(s)] = row]
  BY DEF CommitBid, At
<1>2. PICK createdAt \in now .. clock : bids' = [bids EXCEPT ![Target(s)] = dated(createdAt)]
  BY DEF CommitBid
<1>3. /\ Busy(s) /\ Target(s) \in Auctions /\ lock[Target(s)] = s /\ Exists(Target(s))
      /\ DecisionHolds(s) /\ now \in 0 .. clock /\ clock \in Nat
      /\ auction[Target(s)] \in Auction /\ bids[Target(s)] \in Seq(Bid)
      /\ RowInv(auction[Target(s)], bids[Target(s)], clock)
  BY <1>1, CommitFacts
<1>4. bidder \in Users /\ amount \in Amounts
  BY <1>1, CommitFacts, RequestType DEF Op
<1>5. createdAt \in 0 .. clock /\ now <= createdAt
  BY <1>2, <1>3
<1>6. /\ BidAllowed(auction[Target(s)], bidder, amount, now)
      /\ \A i \in DOMAIN bids[Target(s)] : bids[Target(s)][i].createdAt <= now
  BY <1>1, <1>3 DEF DecisionHolds, At
<1>7. row \in Auction /\ dated(createdAt) \in Seq(Bid) /\ RowInv(row, dated(createdAt), clock)
  BY <1>3, <1>4, <1>5, <1>6, BidKeeps
<1>8. row.status # "NONE"
  BY <1>3 DEF Exists, Auction
<1> HIDE DEF row, dated
<1> QED BY <1>1, <1>2, <1>3, <1>7, <1>8, WriteKeeps

LEMMA CommitEditKeeps ==
  ASSUME StoreInv, NEW s \in Sessions, CommitEdit(s)
  PROVE  StoreInv'
<1> DEFINE row == Rescheduled(auction[Target(s)], session[s].req.terms)
<1>1. /\ session[s].stage = "written" /\ Op(s) = "edit" /\ Finish(s) /\ UNCHANGED clock
      /\ auction' = [auction EXCEPT ![Target(s)] = row] /\ bids' = bids
  BY DEF CommitEdit, At
<1>2. session[s].req.terms \in Terms
  BY <1>1, CommitFacts, RequestType DEF Op
<1>3. auction[Target(s)].status = "SCHEDULED"
  BY <1>1, CommitFacts DEF DecisionHolds, At, SellerMayChange
<1>4. row \in Auction /\ RowInv(row, bids[Target(s)], clock)
  BY <1>1, <1>2, <1>3, CommitFacts, RescheduledKeeps
<1>5. row.status # "NONE"
  BY <1>1, <1>3, CommitFacts DEF Rescheduled, Auction
<1> HIDE DEF row
<1> QED BY <1>1, <1>4, <1>5, CommitFacts, WriteKeeps

LEMMA CommitCancelKeeps ==
  ASSUME StoreInv, NEW s \in Sessions, CommitCancel(s)
  PROVE  StoreInv'
<1> DEFINE row == [auction[Target(s)] EXCEPT !.status = "CANCELLED"]
<1>1. /\ session[s].stage = "written" /\ Op(s) = "cancel" /\ Finish(s) /\ UNCHANGED clock
      /\ auction' = [auction EXCEPT ![Target(s)] = row] /\ bids' = bids
  BY DEF CommitCancel, At
<1>2. auction[Target(s)].status = "SCHEDULED"
  BY <1>1, CommitFacts DEF DecisionHolds, At, SellerMayChange
<1>3. row \in Auction /\ RowInv(row, bids[Target(s)], clock)
  BY <1>1, <1>2, CommitFacts, CancelledKeeps
<1>4. row.status # "NONE"
  BY <1>1, CommitFacts DEF Auction
<1> HIDE DEF row
<1> QED BY <1>1, <1>3, <1>4, CommitFacts, WriteKeeps

LEMMA CommitEndKeeps ==
  ASSUME StoreInv, NEW s \in Sessions, CommitEnd(s)
  PROVE  StoreInv'
<1> DEFINE row == Finalized(auction[Target(s)], bids[Target(s)], session[s].best)
<1>1. /\ session[s].stage = "written" /\ Op(s) = "end" /\ Finish(s) /\ UNCHANGED clock
      /\ auction' = [auction EXCEPT ![Target(s)] = row] /\ bids' = bids
  BY DEF CommitEnd, At
<1>2. /\ EndAllowed(auction[Target(s)], session[s].now)
      /\ session[s].best \in WinningBids(bids[Target(s)])
  BY <1>1, CommitFacts DEF DecisionHolds, At
<1>3. row \in Auction /\ RowInv(row, bids[Target(s)], clock)
  BY <1>1, <1>2, CommitFacts, FinalizedKeeps
<1>4. row.status # "NONE"
  BY <1>1, CommitFacts DEF Finalized, Auction
<1> HIDE DEF row
<1> QED BY <1>1, <1>3, <1>4, CommitFacts, WriteKeeps

LEMMA PassTimeKeeps ==
  ASSUME StoreInv, PassTime
  PROVE  StoreInv'
<1>1. TablesInv'
  BY TickKeepsTables DEF StoreInv, PassTime
<1>2. /\ clock' = clock + 1 /\ clock \in Nat
      /\ auction' = auction /\ bids' = bids /\ session' = session /\ lock' = lock
  BY MaxTimeAssumption DEF PassTime, Tick, tables, StoreInv, TypeOK, TablesTypeOK, Times
<1>3. ASSUME NEW s \in Sessions PROVE SessionOK(s)'
  <2>1. Busy(s) => session[s].now \in Nat
    BY BusyStage, SessionType DEF StoreInv
  <2> QED BY <1>2, <2>1 DEF StoreInv, SessionOK, Busy, Op, Target, Exists, InTransaction,
                            DecisionHolds, At
<1>4. TypeOK'
  BY <1>1, <1>2 DEF StoreInv, TypeOK, TablesInv
<1>5. CreatesAreDistinct' /\ LocksAreHeld'
  BY <1>2 DEF StoreInv, CreatesAreDistinct, LocksAreHeld, Busy, Op, Target, InTransaction
<1> QED BY <1>1, <1>3, <1>4, <1>5 DEF StoreInv

------------------------------------------------------------------------------
(* The invariant *)

LEMMA StoreInit == Init => StoreInv
<1> SUFFICES ASSUME Init PROVE StoreInv
  OBVIOUS
<1>1. TablesInv
  BY EmptyTables DEF Init
<1>2. TypeOK
  BY <1>1 DEF Init, TypeOK, TablesInv
<1>3. \A s \in Sessions : ~Busy(s)
  BY DEF Init, Busy
<1> QED BY <1>1, <1>2, <1>3 DEF Init, StoreInv, SessionOK, CreatesAreDistinct, LocksAreHeld

LEMMA AdvanceKeeps ==
  ASSUME StoreInv, NEW s \in Sessions, Advance(s)
  PROVE  StoreInv'
<1>1. clock \in Nat /\ 0 <= clock
  BY MaxTimeAssumption DEF StoreInv, TypeOK, TablesTypeOK, Times
<1>2. CASE CheckEdit(s)
  <2> DEFINE allowed == (SellerMayChange(session[s].row, session[s].req.user)
                       /\ session[s].req.terms.startTime > clock)
  <2>1. session[s].stage = "read" /\ Decide(s, allowed, 0)
    BY <1>2 DEF CheckEdit, At
  <2>2. allowed \in BOOLEAN
    BY DEF SellerMayChange
  <2> QED BY <1>1, <2>1, <2>2, DecideKeeps
<1>3. CASE CheckCancel(s)
  <2> DEFINE allowed == SellerMayChange(session[s].row, session[s].req.user)
  <2>1. session[s].stage = "read" /\ Decide(s, allowed, 0)
    BY <1>3 DEF CheckCancel, At
  <2>2. allowed \in BOOLEAN
    BY DEF SellerMayChange
  <2> QED BY <1>1, <2>1, <2>2, DecideKeeps
<1>4. CASE CheckStart(s)
  <2> DEFINE allowed == StartAllowed(session[s].row, clock)
  <2>1. session[s].stage = "read" /\ Decide(s, allowed, clock)
    BY <1>4 DEF CheckStart, At
  <2>2. allowed \in BOOLEAN
    BY DEF StartAllowed
  <2> QED BY <1>1, <2>1, <2>2, DecideKeeps
<1>5. CASE CheckEnd(s)
  <2> DEFINE allowed == EndAllowed(session[s].row, clock)
  <2>1. session[s].stage = "read" /\ Decide(s, allowed, clock)
    BY <1>5 DEF CheckEnd, At
  <2>2. allowed \in BOOLEAN
    BY DEF EndAllowed
  <2> QED BY <1>1, <2>1, <2>2, DecideKeeps
<1>6. CASE RejectMissingRow(s)
  BY <1>6, QuietFinishKeeps DEF RejectMissingRow
<1>7. CASE ValidateBid(s)
  <2> DEFINE allowed == BidAllowed(session[s].row, session[s].req.user,
                                   session[s].req.amount, clock)
  <2>1. session[s].stage = "locked" /\ Op(s) = "bid" /\ Validate(s, allowed, clock, 0)
    BY <1>7 DEF ValidateBid, At
  <2>2. allowed \in BOOLEAN
    BY DEF BidAllowed
  <2> QED BY <1>1, <2>1, <2>2, ValidateKeeps
<1>8. CASE ValidateChange(s)
  <2> DEFINE allowed == SellerMayChange(session[s].row, session[s].req.user)
  <2>1. /\ session[s].stage = "locked" /\ Op(s) \in {"edit", "cancel"}
        /\ Validate(s, allowed, 0, 0)
    BY <1>8 DEF ValidateChange, At
  <2>2. allowed \in BOOLEAN
    BY DEF SellerMayChange
  <2> QED BY <1>1, <2>1, <2>2, ValidateKeeps
<1>9. CASE ValidateEnd(s)
  <2> DEFINE allowed == EndAllowed(session[s].row, session[s].now)
  <2>1. session[s].stage = "locked" /\ Op(s) = "end"
    BY <1>9 DEF ValidateEnd, At
  <2>2. PICK best \in WinningBids(bids[Target(s)]) : Validate(s, allowed, session[s].now, best)
    BY <1>9 DEF ValidateEnd
  <2>3. /\ Busy(s) /\ Target(s) \in Auctions /\ session[s].now \in Nat
    BY <2>1, SessionType DEF StoreInv
  <2>4. session[s].now <= clock /\ bids[Target(s)] \in Seq(Bid)
    BY <2>3 DEF StoreInv, SessionOK, TypeOK, TablesTypeOK
  <2>5. best \in Nat
    BY <2>4 DEF WinningBids, HighestBids
  <2>6. allowed \in BOOLEAN
    BY DEF EndAllowed
  <2> QED BY <2>1, <2>2, <2>3, <2>4, <2>5, <2>6, ValidateKeeps
<1> QED BY <1>2, <1>3, <1>4, <1>5, <1>6, <1>7, <1>8, <1>9, InsertAuctionKeeps, CommitBidKeeps,
           CommitEditKeeps, CommitCancelKeeps, CommitEndKeeps DEF Advance

LEMMA StoreNext == StoreInv /\ [Next]_vars => StoreInv'
<1> SUFFICES ASSUME StoreInv, [Next]_vars PROVE StoreInv'
  OBVIOUS
<1>1. CASE PassTime
  BY <1>1, PassTimeKeeps
<1>2. ASSUME NEW s \in Sessions, Arrive(s) PROVE StoreInv'
  BY <1>2, ArriveKeeps
<1>3. ASSUME NEW s \in Sessions, Advance(s) PROVE StoreInv'
  BY <1>3, AdvanceKeeps
<1>4. ASSUME NEW s \in Sessions, Acquire(s) PROVE StoreInv'
  BY <1>4, LockRowKeeps, MarkAuctionAsLiveKeeps DEF Acquire
<1>5. ASSUME NEW s \in Sessions, Abort(s) PROVE StoreInv'
  BY <1>5, QuietFinishKeeps DEF Abort
<1>6. CASE UNCHANGED vars
  <2>1. TypeOK' /\ TablesInv'
    BY <1>6 DEF StoreInv, TypeOK, TablesInv, TablesTypeOK, vars, tables
  <2>2. \A s \in Sessions : SessionOK(s)'
    BY <1>6 DEF StoreInv, SessionOK, Busy, Op, Target, Exists, InTransaction, DecisionHolds, At, vars, tables
  <2>3. CreatesAreDistinct' /\ LocksAreHeld'
    BY <1>6 DEF StoreInv, CreatesAreDistinct, LocksAreHeld, Busy, Op, Target, InTransaction, vars, tables
  <2> QED BY <2>1, <2>2, <2>3 DEF StoreInv
<1> QED BY <1>1, <1>2, <1>3, <1>4, <1>5, <1>6 DEF Next

LEMMA StoreInvHolds == Spec => []StoreInv
<1> QED BY StoreInit, StoreNext, PTL DEF Spec

------------------------------------------------------------------------------
(* The theorems *)

(* Every session is where its request can be, and every row and bid has the  *)
(* columns of its table.                                                     *)
THEOREM StoreTypeCorrect == Spec => []TypeOK
<1>1. StoreInv => TypeOK
  BY DEF StoreInv
<1> QED BY <1>1, StoreInvHolds, PTL

(* SELECT ... FOR UPDATE in placeBid, updateAuction, cancelScheduledAuction  *)
(* and finalizeAuction: the holder of a row lock is the one session inside a *)
(* transaction on that row.                                                  *)
THEOREM RowLockIsExclusive == Spec => []LockMatchesTransaction
<1>1. StoreInv => LockMatchesTransaction
  BY SessionType DEF StoreInv, SessionOK, LocksAreHeld, LockMatchesTransaction, InTransaction
<1> QED BY <1>1, StoreInvHolds, PTL

(* A bid, an edit, a cancellation or a winner that was decided under the row *)
(* lock is still right when the transaction commits.                         *)
THEOREM DecisionsHoldUntilCommit == Spec => []DecisionsStillHold
<1>1. StoreInv => DecisionsStillHold
  BY SessionType DEF StoreInv, SessionOK, DecisionsStillHold, InTransaction
<1> QED BY <1>1, StoreInvHolds, PTL

(* However the sessions interleave, abort and crash, an ended auction names  *)
(* the bidder of the one highest bid.                                        *)
THEOREM WinnerIsAlwaysHighestBid == Spec => []WinnerIsHighestBid
<1>1. StoreInv => WinnerIsHighestBid
  BY DEF StoreInv, TablesInv, RowInv, WinnerIsHighestBid
<1> QED BY <1>1, StoreInvHolds, PTL

(* Two bids on one auction always differ by at least its increment, the later *)
(* one being the higher, and its price is that of the last bid.              *)
THEOREM RaisesAlwaysMeetIncrement == Spec => []EveryRaiseMeetsIncrement
<1>1. StoreInv => EveryRaiseMeetsIncrement
  BY DEF StoreInv, TablesInv, RowInv, EveryRaiseMeetsIncrement
<1> QED BY <1>1, StoreInvHolds, PTL

(* Bids are dated in the order they were committed, none before the auction  *)
(* opened and none from its seller.                                          *)
THEOREM HistoryAlwaysOrdered == Spec => []HistoryIsOrdered
<1>1. StoreInv => HistoryIsOrdered
  BY DEF StoreInv, TablesInv, RowInv, HistoryIsOrdered
<1> QED BY <1>1, StoreInvHolds, PTL

(* An auction is never open before its startTime or over before its endTime, *)
(* and has bids only once it was open.                                       *)
THEOREM StatusAlwaysFitsClock == Spec => []StatusFitsClock
<1>1. StoreInv => StatusFitsClock
  BY DEF StoreInv, TablesInv, RowInv, StatusFitsClock
<1> QED BY <1>1, StoreInvHolds, PTL

------------------------------------------------------------------------------
(* The refinement *)

LEMMA StepImplements == StoreInv /\ [Next]_vars => [Contract!Next]_(Contract!vars)
<1> SUFFICES ASSUME StoreInv, Next, ~UNCHANGED <<clock, auction, bids>> PROVE Contract!Next
  BY DEF vars, tables, Contract!vars
<1>1. clock \in Nat
  BY MaxTimeAssumption DEF StoreInv, TypeOK, TablesTypeOK, Times
<1>2. CASE PassTime
  BY <1>2 DEF PassTime, Tick, tables, Contract!Next, Contract!Tick, Contract!tables
<1>3. ASSUME NEW s \in Sessions, InsertAuction(s) PROVE Contract!Next
  <2>1. /\ session[s].stage = "checked" /\ Op(s) = "create" /\ UNCHANGED <<clock, bids>>
        /\ auction' = [auction EXCEPT ![Target(s)] =
              NewRow(session[s].req.user, session[s].req.terms, session[s].now)]
    BY <1>3 DEF InsertAuction, At
  <2>2. /\ Busy(s) /\ Target(s) \in Auctions /\ session[s].now \in Nat
        /\ session[s].req.user \in Users /\ session[s].req.terms \in Terms
    BY <2>1, SessionType, RequestType DEF StoreInv, Op
  <2>3. ~Exists(Target(s)) /\ session[s].now \in 0 .. clock
    BY <1>1, <2>1, <2>2 DEF StoreInv, SessionOK
  <2>4. Contract!Create(Target(s))
    BY <2>1, <2>2, <2>3
       DEF Contract!Create, Contract!Past, Contract!Exists, Exists, Contract!NewRow, NewRow,
           Contract!Rescheduled, Rescheduled, Contract!NoRow, NoRow
  <2> QED BY <2>2, <2>4 DEF Contract!Next
<1>4. ASSUME NEW s \in Sessions, MarkAuctionAsLive(s) PROVE Contract!Next
  <2>1. Busy(s) /\ Target(s) \in Auctions /\ session[s].now \in Nat
    BY <1>4, SessionType DEF StoreInv, MarkAuctionAsLive, At
  <2>2. session[s].now \in 0 .. clock
    BY <1>1, <2>1 DEF StoreInv, SessionOK
  <2>3. CASE StartAllowed(auction[Target(s)], session[s].now)
    <3>1. Contract!Start(Target(s))
      BY <1>4, <2>2, <2>3 DEF MarkAuctionAsLive, Contract!Start, Contract!Past,
                              Contract!StartAllowed, StartAllowed
    <3> QED BY <2>1, <3>1 DEF Contract!Next
  <2>4. CASE ~StartAllowed(auction[Target(s)], session[s].now)
    BY <1>4, <2>4 DEF MarkAuctionAsLive
  <2> QED BY <2>3, <2>4
<1>5. ASSUME NEW s \in Sessions, CommitBid(s) PROVE Contract!Next
  <2>1. /\ session[s].stage = "written" /\ Op(s) = "bid" /\ UNCHANGED clock
        /\ auction' = [auction EXCEPT ![Target(s)].currentPrice = session[s].req.amount]
    BY <1>5 DEF CommitBid, At
  <2>2. PICK createdAt \in session[s].now .. clock :
          bids' = [bids EXCEPT ![Target(s)] =
                     Append(bids[Target(s)], [bidderId  |-> session[s].req.user,
                                              amount    |-> session[s].req.amount,
                                              createdAt |-> createdAt])]
    BY <1>5 DEF CommitBid
  <2>3. /\ session[s].req.user \in Users /\ session[s].req.amount \in Amounts
        /\ Target(s) \in Auctions /\ session[s].now \in 0 .. clock
    BY <2>1, CommitFacts, RequestType DEF Op
  <2>4. /\ BidAllowed(auction[Target(s)], session[s].req.user, session[s].req.amount, session[s].now)
        /\ \A i \in DOMAIN bids[Target(s)] : bids[Target(s)][i].createdAt <= session[s].now
    BY <2>1, CommitFacts DEF DecisionHolds, At
  <2>5. createdAt \in 0 .. clock /\ session[s].now <= createdAt
    BY <1>1, <2>2, <2>3
  <2>6. Contract!PlaceBid(Target(s))
    BY <2>1, <2>2, <2>3, <2>4, <2>5 DEF Contract!PlaceBid, Contract!Past, Contract!BidAllowed, BidAllowed
  <2> QED BY <2>3, <2>6 DEF Contract!Next
<1>6. ASSUME NEW s \in Sessions, CommitEdit(s) PROVE Contract!Next
  <2>1. session[s].stage = "written" /\ Op(s) = "edit"
    BY <1>6 DEF CommitEdit, At
  <2>2. /\ session[s].req.terms \in Terms /\ Target(s) \in Auctions
        /\ auction[Target(s)].status = "SCHEDULED"
    BY <2>1, CommitFacts, RequestType DEF Op, DecisionHolds, At, SellerMayChange
  <2>3. Contract!Edit(Target(s))
    BY <1>6, <2>2 DEF CommitEdit, Contract!Edit, Contract!Rescheduled, Rescheduled
  <2> QED BY <2>2, <2>3 DEF Contract!Next
<1>7. ASSUME NEW s \in Sessions, CommitCancel(s) PROVE Contract!Next
  <2>1. session[s].stage = "written" /\ Op(s) = "cancel"
    BY <1>7 DEF CommitCancel, At
  <2>2. Target(s) \in Auctions /\ auction[Target(s)].status = "SCHEDULED"
    BY <2>1, CommitFacts DEF DecisionHolds, At, SellerMayChange
  <2>3. Contract!Cancel(Target(s))
    BY <1>7, <2>2 DEF CommitCancel, Contract!Cancel
  <2> QED BY <2>2, <2>3 DEF Contract!Next
<1>8. ASSUME NEW s \in Sessions, CommitEnd(s) PROVE Contract!Next
  <2>1. session[s].stage = "written" /\ Op(s) = "end"
    BY <1>8 DEF CommitEnd, At
  <2>2. /\ Target(s) \in Auctions /\ session[s].now \in 0 .. clock
        /\ EndAllowed(auction[Target(s)], session[s].now)
        /\ session[s].best \in WinningBids(bids[Target(s)])
    BY <2>1, CommitFacts DEF DecisionHolds, At
  <2>3. Contract!End(Target(s))
    BY <1>8, <2>2 DEF CommitEnd, Contract!End, Contract!Past, Contract!EndAllowed, EndAllowed,
                      Contract!WinningBids, WinningBids, Contract!HighestBids, HighestBids,
                      Contract!Finalized, Finalized
  <2> QED BY <2>2, <2>3 DEF Contract!Next
<1> QED BY <1>2, <1>3, <1>4, <1>5, <1>6, <1>7, <1>8
        DEF Next, Arrive, Advance, Acquire, CreateRequest, ReadAuction, BidRequest, Begin,
            CheckEdit, CheckCancel, CheckStart, CheckEnd, Decide, RejectMissingRow,
            ValidateBid, ValidateChange, ValidateEnd, Validate, LockRow, Abort, tables

(* On the tables alone the sessions of the server and the worker implement   *)
(* the contract: every request takes effect in one atomic step or not at all. *)
THEOREM StoreImplementsContract == Spec => ImplementsContract
<1>1. Init => Contract!Init
  BY DEF Init, Contract!Init, Contract!NoRow, NoRow
<1> QED BY <1>1, StepImplements, StoreInvHolds, PTL DEF Spec, ImplementsContract, Contract!Spec

(* What a step of the contract does to one row and its bids. *)
LEMMA ContractStepOfRow ==
  ASSUME TablesInv, Contract!Next, NEW a \in Auctions
  PROVE  FollowsDiagram(a) /\ Frozen(a)
<1> USE DEF FollowsDiagram, Frozen, StatusEdges, TermsOf
<1>1. auction[a] \in Auction /\ bids[a] \in Seq(Bid)
  BY ReadBack
<1>2. CASE Contract!Tick
  BY <1>2 DEF Contract!Tick, Contract!tables
<1>3. ASSUME NEW b \in Auctions, a # b,
             Contract!Create(b) \/ Contract!Edit(b) \/ Contract!Cancel(b) \/
             Contract!Start(b) \/ Contract!PlaceBid(b) \/ Contract!End(b)
      PROVE  FollowsDiagram(a) /\ Frozen(a)
  <2>1. auction'[a] = auction[a] /\ bids'[a] = bids[a]
    BY <1>3 DEF TablesInv, TablesTypeOK, Contract!Create, Contract!Edit, Contract!Cancel,
                Contract!Start, Contract!PlaceBid, Contract!End
  <2> QED BY <2>1
<1>4. CASE Contract!Create(a)
  <2>1. PICK seller \in Users, terms \in Terms, now \in 0 .. clock :
          auction' = [auction EXCEPT ![a] = Contract!NewRow(seller, terms, now)]
    BY <1>4 DEF Contract!Create, Contract!Past
  <2>2. auction'[a] = Contract!NewRow(seller, terms, now) /\ bids' = bids
    BY <1>4, <2>1 DEF Contract!Create, TablesInv, TablesTypeOK
  <2>3. auction'[a].status \in {"SCHEDULED", "LIVE"}
    BY <2>2 DEF Contract!NewRow, Contract!Rescheduled, Contract!NoRow
  <2> QED BY <1>4, <2>2, <2>3 DEF Contract!Create, Contract!Exists
<1>5. CASE Contract!Edit(a)
  <2>1. /\ auction[a].status = "SCHEDULED" /\ bids' = bids
        /\ auction'[a].status = auction[a].status
    BY <1>1, <1>5 DEF Contract!Edit, Contract!Rescheduled, TablesInv, TablesTypeOK, Auction
  <2> QED BY <2>1
<1>6. CASE Contract!Cancel(a)
  <2>1. /\ auction[a].status = "SCHEDULED" /\ bids' = bids /\ auction'[a].status = "CANCELLED"
    BY <1>1, <1>6 DEF Contract!Cancel, TablesInv, TablesTypeOK, Auction
  <2> QED BY <2>1
<1>7. CASE Contract!Start(a)
  <2>1. /\ auction[a].status = "SCHEDULED" /\ bids' = bids /\ auction'[a].status = "LIVE"
    BY <1>1, <1>7 DEF Contract!Start, Contract!StartAllowed, TablesInv, TablesTypeOK, Auction
  <2> QED BY <2>1
<1>8. CASE Contract!PlaceBid(a)
  <2>1. PICK amount \in Amounts, bid \in Bid :
          /\ auction' = [auction EXCEPT ![a].currentPrice = amount]
          /\ bids' = [bids EXCEPT ![a] = Append(bids[a], bid)]
    <3>1. PICK bidder \in Users, amount \in Amounts, now \in 0 .. clock, createdAt \in 0 .. clock :
            /\ bids' = [bids EXCEPT ![a] = Append(bids[a], [bidderId  |-> bidder,
                                                            amount    |-> amount,
                                                            createdAt |-> createdAt])]
            /\ auction' = [auction EXCEPT ![a].currentPrice = amount]
      BY <1>8 DEF Contract!PlaceBid, Contract!Past
    <3>2. [bidderId |-> bidder, amount |-> amount, createdAt |-> createdAt] \in Bid
      BY DEF Bid
    <3> QED BY <3>1, <3>2
  <2>2. auction[a].status = "LIVE"
    BY <1>8 DEF Contract!PlaceBid, Contract!BidAllowed
  <2>3. /\ auction'[a].status = auction[a].status
        /\ TermsOf(auction'[a]) = TermsOf(auction[a])
    BY <1>1, <2>1 DEF TablesInv, TablesTypeOK, Auction
  <2>4. bids'[a] = Append(bids[a], bid)
    BY <2>1 DEF TablesInv, TablesTypeOK
  <2>5. \A i \in DOMAIN bids[a] : i \in DOMAIN bids'[a] /\ bids'[a][i] = bids[a][i]
    BY <1>1, <2>1, <2>4
  <2> QED BY <2>2, <2>3, <2>5
<1>9. CASE Contract!End(a)
  <2>1. PICK best \in Contract!WinningBids(bids[a]) :
          auction' = [auction EXCEPT ![a] = Contract!Finalized(auction[a], bids[a], best)]
    BY <1>9 DEF Contract!End
  <2>2. auction[a].status = "LIVE" /\ bids' = bids
    BY <1>9 DEF Contract!End, Contract!EndAllowed
  <2>3. /\ auction'[a].status = "ENDED"
        /\ TermsOf(auction'[a]) = TermsOf(auction[a])
    BY <1>1, <2>1 DEF TablesInv, TablesTypeOK, Contract!Finalized, Auction
  <2> QED BY <2>2, <2>3
<1> QED BY <1>2, <1>3, <1>4, <1>5, <1>6, <1>7, <1>8, <1>9 DEF Contract!Next

(* The status of an auction moves only along the diagram of the auction      *)
(* lifecycle: nothing restarts an ended or cancelled auction.                *)
THEOREM StatusAlwaysFollowsDiagram == Spec => StatusFollowsDiagram
<1>1. StoreInv /\ [Next]_vars => [\A a \in Auctions : FollowsDiagram(a)]_tables
  BY StepImplements, ContractStepOfRow DEF StoreInv, Contract!vars, tables
<1> QED BY <1>1, StoreInvHolds, PTL DEF Spec, StatusFollowsDiagram

(* Edits, cancellations and late jobs never touch the terms or the bids of an *)
(* auction that has been open.                                               *)
THEOREM TermsFrozenOnceLive == Spec => FrozenOnceLive
<1>1. StoreInv /\ [Next]_vars => [\A a \in Auctions : Frozen(a)]_tables
  BY StepImplements, ContractStepOfRow DEF StoreInv, Contract!vars, tables
<1> QED BY <1>1, StoreInvHolds, PTL DEF Spec, FrozenOnceLive

------------------------------------------------------------------------------
(* The contract by itself *)

(* The contract's copies of the rules are the rules. *)
LEMMA ContractRules ==
  /\ \A a : Contract!Exists(a) <=> Exists(a)
  /\ \A seller, terms, now : Contract!NewRow(seller, terms, now) = NewRow(seller, terms, now)
  /\ \A r, terms : Contract!Rescheduled(r, terms) = Rescheduled(r, terms)
  /\ \A r, now : Contract!StartAllowed(r, now) <=> StartAllowed(r, now)
  /\ \A r, now : Contract!EndAllowed(r, now) <=> EndAllowed(r, now)
  /\ \A r, user, amount, now :
       Contract!BidAllowed(r, user, amount, now) <=> BidAllowed(r, user, amount, now)
  /\ \A history : Contract!WinningBids(history) = WinningBids(history)
  /\ \A r, history, best :
       Contract!Finalized(r, history, best) = Finalized(r, history, best)
BY DEF Contract!Exists, Exists, Contract!NewRow, NewRow, Contract!Rescheduled, Rescheduled,
       Contract!NoRow, NoRow, Contract!StartAllowed, StartAllowed, Contract!EndAllowed,
       EndAllowed, Contract!BidAllowed, BidAllowed, Contract!WinningBids, WinningBids,
       Contract!HighestBids, HighestBids, Contract!Finalized, Finalized

LEMMA ContractNext == TablesInv /\ [Contract!Next]_(Contract!vars) => TablesInv'
<1> SUFFICES ASSUME TablesInv, [Contract!Next]_(Contract!vars) PROVE TablesInv'
  OBVIOUS
<1>1. clock \in Nat
  BY MaxTimeAssumption DEF TablesInv, TablesTypeOK, Times
<1>2. ASSUME NEW a \in Auctions
      PROVE  /\ auction[a] \in Auction /\ bids[a] \in Seq(Bid)
             /\ RowInv(auction[a], bids[a], clock)
             /\ bids = [bids EXCEPT ![a] = bids[a]]
             /\ auction = [auction EXCEPT ![a] = auction[a]]
  BY ReadBack
<1>3. CASE Contract!Tick
  BY <1>3, TickKeepsTables DEF Tick, tables, Contract!Tick, Contract!tables
<1>4. ASSUME NEW a \in Auctions, Contract!Create(a) PROVE TablesInv'
  <2>1. PICK seller \in Users, terms \in Terms, now \in 0 .. clock :
          auction' = [auction EXCEPT ![a] = NewRow(seller, terms, now)]
    BY <1>4, ContractRules DEF Contract!Create, Contract!Past
  <2>2. bids[a] = <<>>
    BY <1>2, <1>4, ContractRules DEF Contract!Create, Exists, RowInv, FitsClock
  <2>3. /\ NewRow(seller, terms, now) \in Auction
        /\ RowInv(NewRow(seller, terms, now), bids[a], clock)
    BY <1>1, <2>2, NewRowKeeps
  <2> QED BY <1>2, <1>4, <2>1, <2>3, OneRowChanges DEF Contract!Create
<1>5. ASSUME NEW a \in Auctions, Contract!Edit(a) PROVE TablesInv'
  <2>1. PICK terms \in Terms : auction' = [auction EXCEPT ![a] = Rescheduled(auction[a], terms)]
    BY <1>5, ContractRules DEF Contract!Edit
  <2>2. /\ Rescheduled(auction[a], terms) \in Auction
        /\ RowInv(Rescheduled(auction[a], terms), bids[a], clock)
    BY <1>1, <1>2, <1>5, RescheduledKeeps DEF Contract!Edit
  <2> QED BY <1>2, <1>5, <2>1, <2>2, OneRowChanges DEF Contract!Edit
<1>6. ASSUME NEW a \in Auctions, Contract!Cancel(a) PROVE TablesInv'
  <2> DEFINE row == [auction[a] EXCEPT !.status = "CANCELLED"]
  <2>1. row \in Auction /\ RowInv(row, bids[a], clock)
    BY <1>1, <1>2, <1>6, CancelledKeeps DEF Contract!Cancel
  <2>2. auction' = [auction EXCEPT ![a] = row]
    BY <1>6 DEF Contract!Cancel
  <2> QED BY <1>2, <1>6, <2>1, <2>2, OneRowChanges DEF Contract!Cancel
<1>7. ASSUME NEW a \in Auctions, Contract!Start(a) PROVE TablesInv'
  <2> DEFINE row == [auction[a] EXCEPT !.status = "LIVE"]
  <2>1. row \in Auction /\ RowInv(row, bids[a], clock)
    BY <1>1, <1>2, <1>7, StartedKeeps, ContractRules DEF Contract!Start, Contract!Past
  <2>2. auction' = [auction EXCEPT ![a] = row]
    BY <1>7 DEF Contract!Start
  <2> QED BY <1>2, <1>7, <2>1, <2>2, OneRowChanges DEF Contract!Start
<1>8. ASSUME NEW a \in Auctions, Contract!PlaceBid(a) PROVE TablesInv'
  <2>1. PICK bidder \in Users, amount \in Amounts, now \in 0 .. clock, createdAt \in 0 .. clock :
          /\ BidAllowed(auction[a], bidder, amount, now)
          /\ now <= createdAt
          /\ \A i \in DOMAIN bids[a] : bids[a][i].createdAt <= now
          /\ bids' = [bids EXCEPT ![a] =
                        Append(bids[a], [bidderId  |-> bidder,
                                         amount    |-> amount,
                                         createdAt |-> createdAt])]
          /\ auction' = [auction EXCEPT ![a].currentPrice = amount]
          /\ UNCHANGED clock
    BY <1>8, ContractRules DEF Contract!PlaceBid, Contract!Past
  <2> DEFINE row == [auction[a] EXCEPT !.currentPrice = amount]
             history == Append(bids[a], [bidderId  |-> bidder, amount |-> amount,
                                         createdAt |-> createdAt])
  <2>2. row \in Auction /\ history \in Seq(Bid) /\ RowInv(row, history, clock)
    BY <1>1, <1>2, <2>1, BidKeeps
  <2>3. auction' = [auction EXCEPT ![a] = row] /\ bids' = [bids EXCEPT ![a] = history]
    BY <2>1
  <2> HIDE DEF row, history
  <2> QED BY <2>1, <2>2, <2>3, OneRowChanges
<1>9. ASSUME NEW a \in Auctions, Contract!End(a) PROVE TablesInv'
  <2>1. PICK best \in WinningBids(bids[a]) :
          auction' = [auction EXCEPT ![a] = Finalized(auction[a], bids[a], best)]
    BY <1>9, ContractRules DEF Contract!End
  <2>2. PICK now \in 0 .. clock : EndAllowed(auction[a], now)
    BY <1>9, ContractRules DEF Contract!End, Contract!Past
  <2>3. /\ Finalized(auction[a], bids[a], best) \in Auction
        /\ RowInv(Finalized(auction[a], bids[a], best), bids[a], clock)
    BY <1>1, <1>2, <2>2, FinalizedKeeps
  <2> QED BY <1>2, <1>9, <2>1, <2>3, OneRowChanges DEF Contract!End
<1>10. CASE UNCHANGED Contract!vars
  BY <1>10 DEF Contract!vars, TablesInv, TablesTypeOK
<1> QED BY <1>3, <1>4, <1>5, <1>6, <1>7, <1>8, <1>9, <1>10 DEF Contract!Next

(* The contract keeps the tables typed, the winner the highest bidder, every *)
(* raise a full increment, the price the last bid, the bids in order and the *)
(* status in step with the clock.                                            *)
THEOREM ContractKeepsTables == Contract!Spec => []TablesInv
<1>1. Contract!Init => TablesInv
  BY EmptyTables DEF Contract!Init, Contract!NoRow, NoRow
<1> QED BY <1>1, ContractNext, PTL DEF Contract!Spec
==============================================================================
