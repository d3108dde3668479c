------------------------ MODULE AuctionLifecycleProofs ------------------------
(* What the lifecycle guarantees for any auctions, handlers, workers and      *)
(* faults: its types, that its writes are steps of the contract, that every   *)
(* event is true and published once, and that the queue holds the jobs of    *)
(* the row unless a mishap of that auction has cost it one (JobsInv).        *)
(* Four invariants carry each other:                                         *)
(* a locked job is in the queue and active (LocksHeld), so that reporting it *)
(* leaves the queue typed; the tables stay sound (TablesInv); a create that   *)
(* has not inserted its row is alone with its auction (HandlerOK); and an     *)
(* event that is not yet published has at most one publisher (EventOK).      *)
EXTENDS LifecycleMishaps, AuctionTablesProofs

Holds(w, id) == worker[w] # Idle /\ worker[w].locked /\ worker[w].job = id

QueueType == worker \in [Workers -> {Idle} \cup Worker] /\ queue \in [JobIds -> {NoJob} \cup Job]
LocksHeld ==
  \A w \in Workers, id \in JobIds : Holds(w, id) =>
    /\ queue[id] # NoJob /\ queue[id].state = "active"
    /\ \A v \in Workers : Holds(v, id) => v = w
QueueInv == QueueType /\ LocksHeld

------------------------------------------------------------------------------
(* The queue and its workers *)

LEMMA KindsOfRecords ==
  /\ \A it \in Job : it # NoJob
  /\ \A it \in Worker : it # Idle
  /\ \A it \in Handler : it # Idle
<1>1. \A it \in Job : it # NoJob
  BY DEF Job, NoJob
<1>2. \A it \in Worker : it # Idle
  BY DEF Worker, Idle
<1>3. \A it \in Handler : it # Idle
  BY DEF Handler, Idle
<1> QED BY <1>1, <1>2, <1>3

LEMMA WorkerType ==
  ASSUME QueueInv, NEW w \in Workers, worker[w] # Idle
  PROVE  /\ worker[w] \in Worker
         /\ worker[w].job \in JobIds /\ worker[w].locked \in BOOLEAN /\ worker[w].now \in Nat
         /\ worker[w].job[1] \in Auctions /\ worker[w].job[2] \in Kinds
         /\ worker[w].job = <<worker[w].job[1], worker[w].job[2]>>
<1>1. worker[w] \in Worker
  BY DEF QueueInv, QueueType
<1>2. worker[w].job \in JobIds /\ worker[w].locked \in BOOLEAN /\ worker[w].now \in Nat
  BY <1>1 DEF Worker
<1> QED BY <1>1, <1>2 DEF JobIds

(* What the operations of the queue do with one job. *)
LEMMA AnotherTry ==
  ASSUME NEW it \in Job, NEW n \in 0 .. Attempts - 1
  PROVE  [it EXCEPT !.state = "waiting", !.tries = n] \in Job
  BY DEF Job

LEMMA AddOfJob ==
  ASSUME QueueType, NEW id \in JobIds, NEW runAt \in Int
  PROVE  /\ Add(queue, id, runAt) \in [JobIds -> {NoJob} \cup Job]
         /\ \A other \in JobIds : other # id => Add(queue, id, runAt)[other] = queue[other]
         /\ queue[id] # NoJob => Add(queue, id, runAt)[id] = queue[id]
<1> DEFINE new == [state |-> "waiting", runAt |-> runAt, tries |-> 0, stalled |-> FALSE]
<1>1. new \in Job
  BY DEF Job, Attempts
<1> HIDE DEF new
<1>2. Add(queue, id, runAt) = IF queue[id] # NoJob THEN queue ELSE [queue EXCEPT ![id] = new]
  BY DEF Add, new
<1> QED BY <1>1, <1>2 DEF QueueType

LEMMA RemoveOfJob ==
  ASSUME QueueType, NEW id \in JobIds
  PROVE  /\ Remove(queue, id) \in [JobIds -> {NoJob} \cup Job]
         /\ \A other \in JobIds : other # id => Remove(queue, id)[other] = queue[other]
  BY DEF Remove, QueueType

LEMMA ChangeOfJob ==
  ASSUME QueueType, NEW id \in JobIds, queue[id] # NoJob
  PROVE  /\ Take(queue, id) \in [JobIds -> {NoJob} \cup Job]
         /\ Retry(queue, id) \in [JobIds -> {NoJob} \cup Job]
         /\ Unstall(queue, id) \in [JobIds -> {NoJob} \cup Job]
         /\ \A other \in JobIds : other # id =>
              /\ Take(queue, id)[other] = queue[other]
              /\ Retry(queue, id)[other] = queue[other]
              /\ Unstall(queue, id)[other] = queue[other]
         /\ Take(queue, id)[id] \in Job /\ Take(queue, id)[id].state = "active"
<1>1. queue \in [JobIds -> {NoJob} \cup Job] /\ queue[id] \in Job
  BY DEF QueueType
<1>2. queue[id].tries \in 0 .. 2
  BY <1>1 DEF Job, Attempts
<1>3. Take(queue, id) = [queue EXCEPT ![id] = [queue[id] EXCEPT !.state = "active"]]
      /\ [queue[id] EXCEPT !.state = "active"] \in Job
  BY <1>1 DEF Take, Job
<1>4. [queue[id] EXCEPT !.state = "active"].state = "active"
  BY <1>1 DEF Job
<1>5. \/ Retry(queue, id) = Remove(queue, id)
      \/ \E new \in Job : Retry(queue, id) = [queue EXCEPT ![id] = new]
  <2>1. CASE queue[id].tries = Attempts - 1
    BY <2>1 DEF Retry
  <2>2. CASE queue[id].tries # Attempts - 1
    <3> DEFINE new == [queue[id] EXCEPT !.state = "waiting", !.tries = queue[id].tries + 1]
    <3>1. queue[id].tries + 1 \in 0 .. Attempts - 1
      BY <1>2, <2>2 DEF Attempts
    <3>2. new \in Job
      BY <1>1, <3>1, AnotherTry
    <3>3. Retry(queue, id) = [queue EXCEPT ![id] = new]
      BY <1>1, <2>2 DEF Retry
    <3> QED BY <3>2, <3>3
  <2> QED BY <2>1, <2>2
<1>6. \/ Unstall(queue, id) = Remove(queue, id)
      \/ \E new \in Job : Unstall(queue, id) = [queue EXCEPT ![id] = new]
  <2>1. CASE queue[id].stalled
    BY <2>1 DEF Unstall
  <2>2. CASE ~queue[id].stalled
    <3> DEFINE new == [queue[id] EXCEPT !.state = "waiting", !.stalled = TRUE]
    <3>1. new \in Job
      BY <1>1 DEF Job
    <3>2. Unstall(queue, id) = [queue EXCEPT ![id] = new]
      BY <1>1, <2>2 DEF Unstall
    <3> QED BY <3>1, <3>2
  <2> QED BY <2>1, <2>2
<1> QED BY <1>1, <1>3, <1>4, <1>5, <1>6, RemoveOfJob

(* No step but Take gives a lock away, and none touches a job that is locked  *)
(* afterwards.                                                               *)
LEMMA LocksStay ==
  ASSUME QueueInv, QueueType',
         \A w \in Workers, id \in JobIds : Holds(w, id)' => Holds(w, id) /\ queue'[id] = queue[id]
  PROVE  QueueInv'
  BY DEF QueueInv, LocksHeld

LEMMA QueueRests ==
  ASSUME QueueInv, worker' = worker, queue' = queue
  PROVE  QueueInv'
  BY DEF QueueInv, QueueType, LocksHeld, Holds

LEMMA QueueChanges ==
  ASSUME QueueInv, NEW id \in JobIds, NEW new, worker' = worker, queue' = new,
         new \in [JobIds -> {NoJob} \cup Job],
         \A other \in JobIds : other # id => new[other] = queue[other],
         new[id] = queue[id] \/ \A w \in Workers : ~Holds(w, id)
  PROVE  QueueInv'
<1>1. QueueType'
  BY DEF QueueInv, QueueType
<1>2. \A w \in Workers, other \in JobIds : Holds(w, other)' <=> Holds(w, other)
  BY DEF Holds
<1> QED BY <1>1, <1>2, LocksStay

LEMMA HandlerStepKeepsQueue ==
  ASSUME QueueInv, handler \in [Handlers -> {Idle} \cup Handler], NEW h \in Handlers,
         handler[h] # Idle, NEW kind \in Kinds, RemoveJob(h, kind) \/ AddJob(h, kind)
  PROVE  QueueInv'
<1> DEFINE id == <<handler[h].auction, kind>>
           runAt == RunAt(handler[h].terms, kind)
<1>1. /\ handler[h].auction \in Auctions /\ handler[h].terms \in Terms /\ id \in JobIds
      /\ runAt \in Int
  <2>1. handler[h] \in Handler
    OBVIOUS
  <2>2. handler[h].auction \in Auctions /\ handler[h].terms \in Terms
    BY <2>1 DEF Handler
  <2> QED BY <2>2, TermsType DEF JobIds, RunAt
<1>2. QueueType
  BY DEF QueueInv
<1>3. CASE RemoveJob(h, kind)
  <2>1. /\ worker' = worker
        /\ queue' = IF Removable(queue, id) THEN Remove(queue, id) ELSE queue
    BY <1>3 DEF RemoveJob
  <2>2. CASE Removable(queue, id)
    <3>1. \A w \in Workers : ~Holds(w, id)
      BY <1>1, <2>2 DEF Removable, QueueInv, LocksHeld
    <3> HIDE DEF id
    <3> QED BY <1>1, <1>2, <2>1, <2>2, <3>1, RemoveOfJob, QueueChanges
  <2>3. CASE ~Removable(queue, id)
    <3>1. worker' = worker /\ queue' = queue
      BY <2>1, <2>3
    <3> QED BY <3>1, QueueRests
  <2> QED BY <2>2, <2>3
<1>4. CASE AddJob(h, kind)
  <2>1. worker' = worker /\ (queue' = queue \/ queue' = Add(queue, id, runAt))
    BY <1>4 DEF AddJob
  <2>2. CASE queue' = queue
    BY <2>1, <2>2, QueueRests
  <2>3. CASE queue' = Add(queue, id, runAt)
    <3>1. queue[id] = NoJob => \A w \in Workers : ~Holds(w, id)
      BY <1>1 DEF QueueInv, LocksHeld
    <3> HIDE DEF id, runAt
    <3> QED BY <1>1, <1>2, <2>1, <2>3, <3>1, AddOfJob, QueueChanges
  <2> QED BY <2>1, <2>2, <2>3
<1> QED BY <1>3, <1>4

LEMMA TakeKeepsQueue ==
  ASSUME QueueInv, NEW w \in Workers, NEW id \in JobIds, TakeJob(w, id)
  PROVE  QueueInv'
<1> DEFINE me == [stage |-> "read", job |-> id, now |-> 0, locked |-> TRUE]
<1>1. /\ queue[id] # NoJob /\ queue[id].state = "waiting" /\ queue' = Take(queue, id)
      /\ worker' = [worker EXCEPT ![w] = me]
  BY DEF TakeJob, Ready
<1>2. me \in Worker
  BY DEF Worker
<1>3. QueueType'
  BY <1>1, <1>2, ChangeOfJob DEF QueueInv, QueueType
<1>4. \A v \in Workers : ~Holds(v, id)
  BY <1>1 DEF QueueInv, LocksHeld
<1>5. ASSUME NEW v \in Workers, NEW other \in JobIds, Holds(v, other)'
      PROVE  /\ v = w => other = id
             /\ v # w => Holds(v, other) /\ other # id
  BY <1>1, <1>4, <1>5 DEF Holds, QueueInv, QueueType
<1>6. queue'[id] # NoJob /\ queue'[id].state = "active"
      /\ \A other \in JobIds : other # id => queue'[other] = queue[other]
  BY <1>1, ChangeOfJob, KindsOfRecords DEF QueueInv
<1>7. LocksHeld'
  BY <1>5, <1>6 DEF LocksHeld, QueueInv
<1> QED BY <1>3, <1>7 DEF QueueInv

(* A worker goes on with its job, or lets it go.                             *)
LEMMA GoOnKeepsQueue ==
  ASSUME QueueInv, NEW w \in Workers, worker[w] # Idle, NEW me \in Worker,
         me.job = worker[w].job, me.locked => worker[w].locked,
         worker' = [worker EXCEPT ![w] = me], queue' = queue
  PROVE  QueueInv'
<1>1. QueueType'
  BY DEF QueueInv, QueueType
<1>2. \A v \in Workers, id \in JobIds : Holds(v, id)' => Holds(v, id)
  BY DEF Holds, QueueInv, QueueType
<1> QED BY <1>1, <1>2, LocksStay

LEMMA LetGoKeepsQueue ==
  ASSUME QueueInv, NEW w \in Workers, worker[w] # Idle, NEW new,
         new \in [JobIds -> {NoJob} \cup Job],
         \A other \in JobIds : other # worker[w].job => new[other] = queue[other],
         worker' = [worker EXCEPT ![w] = Idle],
         queue' = queue \/ (worker[w].locked /\ queue' = new)
  PROVE  QueueInv'
<1>1. QueueType'
  BY DEF QueueInv, QueueType
<1>2. ASSUME NEW v \in Workers, NEW id \in JobIds, Holds(v, id)'
      PROVE  Holds(v, id) /\ queue'[id] = queue[id]
  <2>1. v # w /\ Holds(v, id)
    BY <1>2 DEF Holds, QueueInv, QueueType
  <2>2. worker[w].locked => id # worker[w].job
    BY <2>1 DEF QueueInv, LocksHeld, Holds
  <2> QED BY <2>1, <2>2
<1> QED BY <1>1, <1>2, LocksStay

(* A worker that holds the lock can report its job. *)
LEMMA ReportKeepsQueue ==
  ASSUME QueueInv, NEW w \in Workers, worker[w] # Idle,
         Throw(w) \/ Report(w, Complete(queue, worker[w].job))
  PROVE  QueueInv'
<1> DEFINE id == worker[w].job
<1>1. id \in JobIds /\ QueueType
  BY WorkerType DEF QueueInv
<1>2. worker[w].locked => queue[id] # NoJob
  BY <1>1 DEF QueueInv, LocksHeld, Holds
<1>3. \/ queue' = queue
      \/ worker[w].locked /\ queue' = Retry(queue, id)
      \/ worker[w].locked /\ queue' = Remove(queue, id)
  BY DEF Throw, Report, Complete
<1>4. worker' = [worker EXCEPT ![w] = Idle]
  BY DEF Throw, Report
<1>5. CASE queue' = queue
  BY <1>4, <1>5, LetGoKeepsQueue DEF QueueInv, QueueType
<1>6. CASE worker[w].locked /\ queue' = Retry(queue, id)
  <2>1. /\ Retry(queue, id) \in [JobIds -> {NoJob} \cup Job]
        /\ \A other \in JobIds : other # id => Retry(queue, id)[other] = queue[other]
    BY <1>1, <1>2, <1>6, ChangeOfJob
  <2> QED BY <1>4, <1>6, <2>1, LetGoKeepsQueue
<1>7. CASE worker[w].locked /\ queue' = Remove(queue, id)
  BY <1>1, <1>4, <1>7, RemoveOfJob, LetGoKeepsQueue
<1> QED BY <1>3, <1>5, <1>6, <1>7

LEMMA RecoverKeepsQueue ==
  ASSUME QueueInv, NEW id \in JobIds, RecoverJob(id)
  PROVE  QueueInv'
<1>1. queue[id] # NoJob /\ queue' = Unstall(queue, id) /\ worker' = worker /\ QueueType
  BY DEF RecoverJob, Abandoned, QueueInv
<1>2. \A w \in Workers : ~Holds(w, id)
  BY DEF RecoverJob, Abandoned, Holds
<1> QED BY <1>1, <1>2, ChangeOfJob, QueueChanges

------------------------------------------------------------------------------
(* The tables *)

(* A row that exists was inserted by somebody, with some terms.              *)
Owned == \A a \in Auctions : Exists(a) => auction[a].sellerId \in Users /\ Terms # {}

Committed(id) ==
  auction[id[1]].status \in (IF id[2] = "start" THEN {"LIVE", "ENDED"} ELSE {"ENDED"})

(* The five writes of the server and the worker, each under the rule that     *)
(* holds when it commits.                                                    *)
Inserted(a) ==
  /\ ~Exists(a)
  /\ \E seller \in Users, terms \in Terms, now \in 0 .. clock :
       auction' = [auction EXCEPT ![a] = NewRow(seller, terms, now)]
Edited(a) ==
  /\ auction[a].status = "SCHEDULED"
  /\ \E terms \in Terms : auction' = [auction EXCEPT ![a] = Rescheduled(auction[a], terms)]
Cancelled(a) ==
  /\ auction[a].status = "SCHEDULED"
  /\ auction' = [auction EXCEPT ![a].status = "CANCELLED"]
Started(a) ==
  /\ \E now \in 0 .. clock : StartAllowed(auction[a], now)
  /\ auction' = [auction EXCEPT ![a].status = "LIVE"]
Ended(a) ==
  /\ \E now \in 0 .. clock : EndAllowed(auction[a], now)
  /\ \E best \in WinningBids(bids[a]) :
       auction' = [auction EXCEPT ![a] = Finalized(auction[a], bids[a], best)]
Written(a) ==
  /\ UNCHANGED <<clock, bids>>
  /\ Inserted(a) \/ Edited(a) \/ Cancelled(a) \/ Started(a) \/ Ended(a)

(* What is committed stays committed, and no other row is touched.           *)
LEMMA WrittenKeepsTables ==
  ASSUME TablesInv, Owned, NEW a \in Auctions, Written(a)
  PROVE  /\ TablesInv' /\ Owned'
         /\ Exists(a)'
         /\ \A b \in Auctions : b # a => auction'[b] = auction[b]
         /\ \A id \in JobIds : Committed(id) => Committed(id)'
<1>1. /\ auction[a] \in Auction /\ bids[a] \in Seq(Bid) /\ RowInv(auction[a], bids[a], clock)
      /\ bids = [bids EXCEPT ![a] = bids[a]] /\ clock \in Nat
      /\ bids' = bids /\ clock' = clock
      /\ auction \in [Auctions -> Auction]
  BY ReadBack DEF Written, TablesInv, TablesTypeOK
<1>2. SUFFICES ASSUME NEW row \in Auction, auction' = [auction EXCEPT ![a] = row],
                      RowInv(row, bids[a], clock),
                      row.status # "NONE", row.sellerId \in Users, Terms # {},
                      auction[a].status \in {"LIVE", "ENDED"} => row.status = "ENDED"
               PROVE  /\ TablesInv' /\ Owned'
                      /\ Exists(a)'
                      /\ \A b \in Auctions : b # a => auction'[b] = auction[b]
                      /\ \A id \in JobIds : Committed(id) => Committed(id)'
  <2>1. CASE Inserted(a)
    <3>1. PICK seller \in Users, terms \in Terms, now \in 0 .. clock :
            auction' = [auction EXCEPT ![a] = NewRow(seller, terms, now)]
      BY <2>1 DEF Inserted
    <3>2. bids[a] = <<>> /\ auction[a].status = "NONE"
      BY <1>1, <2>1 DEF Inserted, Exists, RowInv, FitsClock
    <3>3. NewRow(seller, terms, now) \in Auction /\ RowInv(NewRow(seller, terms, now), bids[a], clock)
      BY <1>1, <3>2, NewRowKeeps
    <3>4. NewRow(seller, terms, now).status # "NONE" /\ NewRow(seller, terms, now).sellerId = seller
      BY DEF NewRow, Rescheduled, NoRow
    <3> QED BY <1>2, <3>1, <3>2, <3>3, <3>4
  <2>2. CASE Edited(a)
    <3>1. PICK terms \in Terms : auction' = [auction EXCEPT ![a] = Rescheduled(auction[a], terms)]
      BY <2>2 DEF Edited
    <3>2. auction[a].status = "SCHEDULED"
      BY <2>2 DEF Edited
    <3>3. Rescheduled(auction[a], terms) \in Auction /\ RowInv(Rescheduled(auction[a], terms), bids[a], clock)
      BY <1>1, <3>2, RescheduledKeeps
    <3>4. /\ Rescheduled(auction[a], terms).status = "SCHEDULED"
          /\ Rescheduled(auction[a], terms).sellerId = auction[a].sellerId
      BY <1>1, <3>2 DEF Rescheduled, Auction
    <3> QED BY <1>2, <3>1, <3>2, <3>3, <3>4 DEF Owned, Exists
  <2>3. CASE Cancelled(a)
    <3>1. auction[a].status = "SCHEDULED"
      BY <2>3 DEF Cancelled
    <3>2. /\ [auction[a] EXCEPT !.status = "CANCELLED"] \in Auction
          /\ RowInv([auction[a] EXCEPT !.status = "CANCELLED"], bids[a], clock)
      BY <1>1, <3>1, CancelledKeeps
    <3>3. /\ [auction[a] EXCEPT !.status = "CANCELLED"].status = "CANCELLED"
          /\ [auction[a] EXCEPT !.status = "CANCELLED"].sellerId = auction[a].sellerId
      BY <1>1 DEF Auction
    <3>4. auction' = [auction EXCEPT ![a] = [auction[a] EXCEPT !.status = "CANCELLED"]]
      BY <2>3 DEF Cancelled
    <3> QED BY <1>2, <3>1, <3>2, <3>3, <3>4 DEF Owned, Exists
  <2>4. CASE Started(a)
    <3>1. PICK now \in 0 .. clock : StartAllowed(auction[a], now)
      BY <2>4 DEF Started
    <3>2. /\ [auction[a] EXCEPT !.status = "LIVE"] \in Auction
          /\ RowInv([auction[a] EXCEPT !.status = "LIVE"], bids[a], clock)
      BY <1>1, <3>1, StartedKeeps
    <3>3. /\ [auction[a] EXCEPT !.status = "LIVE"].status = "LIVE"
          /\ [auction[a] EXCEPT !.status = "LIVE"].sellerId = auction[a].sellerId
      BY <1>1 DEF Auction
    <3>4. auction' = [auction EXCEPT ![a] = [auction[a] EXCEPT !.status = "LIVE"]]
          /\ auction[a].status = "SCHEDULED"
      BY <2>4, <3>1 DEF Started, StartAllowed
    <3> QED BY <1>2, <3>2, <3>3, <3>4 DEF Owned, Exists
  <2>5. CASE Ended(a)
    <3>1. PICK now \in 0 .. clock : EndAllowed(auction[a], now)
      BY <2>5 DEF Ended
    <3>2. PICK best \in WinningBids(bids[a]) :
            auction' = [auction EXCEPT ![a] = Finalized(auction[a], bids[a], best)]
      BY <2>5 DEF Ended
    <3>3. /\ Finalized(auction[a], bids[a], best) \in Auction
          /\ RowInv(Finalized(auction[a], bids[a], best), bids[a], clock)
      BY <1>1, <3>1, FinalizedKeeps
    <3>4. /\ Finalized(auction[a], bids[a], best).status = "ENDED"
          /\ Finalized(auction[a], bids[a], best).sellerId = auction[a].sellerId
          /\ auction[a].status = "LIVE"
      BY <1>1, <3>1 DEF Finalized, Auction, EndAllowed
    <3> QED BY <1>2, <3>2, <3>3, <3>4 DEF Owned, Exists
  <2> QED BY <2>1, <2>2, <2>3, <2>4, <2>5 DEF Written
<1>3. TablesInv'
  BY <1>1, <1>2, OneRowChanges
<1>4. \A b \in Auctions : auction'[b] = IF b = a THEN row ELSE auction[b]
  BY <1>1, <1>2
<1>5. Owned'
  BY <1>2, <1>4 DEF Owned, Exists
<1>6. ASSUME NEW id \in JobIds, Committed(id) PROVE Committed(id)'
  <2>1. id[1] \in Auctions
    BY DEF JobIds
  <2> QED BY <1>2, <1>4, <1>6, <2>1 DEF Committed
<1> QED BY <1>2, <1>3, <1>4, <1>5, <1>6 DEF Exists

LEMMA WrittenImplements ==
  ASSUME NEW a \in Auctions, Written(a)
  PROVE  Contract!Next
<1> USE DEF Written, Contract!Next, Contract!Past
<1>1. CASE Inserted(a)
  <2>1. Contract!Create(a)
    BY <1>1 DEF Inserted, Contract!Create, Contract!Exists, Exists, Contract!NewRow, NewRow,
                Contract!Rescheduled, Rescheduled, Contract!NoRow, NoRow
  <2> QED BY <2>1
<1>2. CASE Edited(a)
  <2>1. Contract!Edit(a)
    BY <1>2 DEF Edited, Contract!Edit, Contract!Rescheduled, Rescheduled
  <2> QED BY <2>1
<1>3. CASE Cancelled(a)
  <2>1. Contract!Cancel(a)
    BY <1>3 DEF Cancelled, Contract!Cancel
  <2> QED BY <2>1
<1>4. CASE Started(a)
  <2>1. Contract!Start(a)
    BY <1>4 DEF Started, Contract!Start, Contract!StartAllowed, StartAllowed
  <2> QED BY <2>1
<1>5. CASE Ended(a)
  <2>1. Contract!End(a)
    BY <1>5 DEF Ended, Contract!End, Contract!EndAllowed, EndAllowed, Contract!WinningBids,
                WinningBids, Contract!HighestBids, HighestBids, Contract!Finalized, Finalized
  <2> QED BY <2>1
<1> QED BY <1>1, <1>2, <1>3, <1>4, <1>5

------------------------------------------------------------------------------
(* The requests in flight *)

Reserved(h) == handler[h] # Idle /\ In(h, "checked", "create")
Alone(h, a) == \A g \in Handlers : g # h /\ handler[g] # Idle => handler[g].auction # a
HandlerOK(h) ==
  /\ handler[h] # Idle => handler[h].now <= clock
  /\ Reserved(h) => ~Exists(handler[h].auction) /\ Alone(h, handler[h].auction)
HandlersInv ==
  /\ handler \in [Handlers -> {Idle} \cup Handler]
  /\ \A h \in Handlers : HandlerOK(h)

LEMMA HandlerType ==
  ASSUME HandlersInv, NEW h \in Handlers, handler[h] # Idle
  PROVE  /\ handler[h] \in Handler
         /\ handler[h].auction \in Auctions /\ handler[h].user \in Users
         /\ handler[h].terms \in Terms /\ handler[h].calls \subseteq Kinds
         /\ handler[h].failed \in BOOLEAN /\ handler[h].now \in Nat
         /\ handler[h].now <= clock
<1>1. handler[h] \in Handler /\ HandlerOK(h)
  BY DEF HandlersInv
<1> QED BY <1>1 DEF Handler, HandlerOK

LEMMA HandlersRest ==
  ASSUME HandlersInv, clock \in Nat, clock' \in {clock, clock + 1}, handler' = handler,
         \A a \in Auctions : Exists(a)' => Exists(a)
  PROVE  HandlersInv'
<1> SUFFICES ASSUME NEW h \in Handlers, handler[h] # Idle PROVE HandlerOK(h)'
  BY DEF HandlersInv, HandlerOK, Reserved, Alone
<1>1. HandlerOK(h) /\ handler[h].now \in Nat /\ handler[h].auction \in Auctions
  BY HandlerType DEF HandlersInv
<1> QED BY <1>1 DEF HandlerOK, Reserved, In, Alone

LEMMA HandlerMoves ==
  ASSUME HandlersInv, clock' = clock, NEW h \in Handlers, NEW next \in {Idle} \cup Handler,
         handler' = [handler EXCEPT ![h] = next],
         next # Idle => next.now <= clock,
         next # Idle /\ next.stage = "checked" /\ next.op = "create" =>
           ~Exists(next.auction)' /\ Alone(h, next.auction),
         \A g \in Handlers : g # h /\ Reserved(g) =>
           /\ ~Exists(handler[g].auction)'
           /\ next # Idle => next.auction # handler[g].auction
  PROVE  HandlersInv'
<1>1. handler' \in [Handlers -> {Idle} \cup Handler]
      /\ \A g \in Handlers : handler'[g] = IF g = h THEN next ELSE handler[g]
  BY DEF HandlersInv
<1>2. HandlerOK(h)'
  BY <1>1 DEF HandlerOK, Reserved, In, Alone
<1>3. ASSUME NEW g \in Handlers, g # h PROVE HandlerOK(g)'
  <2>1. HandlerOK(g)
    BY DEF HandlersInv
  <2>2. Reserved(g)' <=> Reserved(g)
    BY <1>1, <1>3 DEF Reserved, In
  <2> QED BY <1>1, <1>3, <2>1, <2>2 DEF HandlerOK, Alone
<1> QED BY <1>1, <1>2, <1>3 DEF HandlersInv

(* A request that goes on with its auction disturbs no other.                *)
LEMMA HandlerGoesOn ==
  ASSUME HandlersInv, clock' = clock, NEW h \in Handlers, handler[h] # Idle,
         NEW next \in {Idle} \cup Handler, handler' = [handler EXCEPT ![h] = next],
         next # Idle => /\ next.now = handler[h].now /\ next.auction = handler[h].auction
                        /\ next.stage # "checked",
         \A a \in Auctions : Exists(a)' => Exists(a) \/ a = handler[h].auction
  PROVE  HandlersInv'
<1>1. \A g \in Handlers : g # h /\ Reserved(g) =>
        /\ ~Exists(handler[g].auction)'
        /\ handler[h].auction # handler[g].auction
  <2> SUFFICES ASSUME NEW g \in Handlers, g # h, Reserved(g)
               PROVE  /\ ~Exists(handler[g].auction)'
                      /\ handler[h].auction # handler[g].auction
    OBVIOUS
  <2>1. handler[h].auction # handler[g].auction /\ ~Exists(handler[g].auction)
    BY DEF HandlersInv, HandlerOK, Alone
  <2>2. handler[g].auction \in Auctions
    BY HandlerType DEF Reserved
  <2> QED BY <2>1, <2>2
<1>2. next # Idle => next.now <= clock
  BY HandlerType
<1>3. \A g \in Handlers : g # h /\ Reserved(g) =>
        /\ ~Exists(handler[g].auction)'
        /\ next # Idle => next.auction # handler[g].auction
  BY <1>1
<1>4. ~(next # Idle /\ next.stage = "checked" /\ next.op = "create")
  OBVIOUS
<1> QED BY <1>2, <1>3, <1>4, HandlerMoves

------------------------------------------------------------------------------
(* The events *)

WorkerPublishes(w, id) == worker[w] # Idle /\ worker[w].stage = "publish" /\ worker[w].job = id
HandlerPublishes(h, id) ==
  /\ handler[h] # Idle /\ handler[h].op = "create" /\ id = <<handler[h].auction, "start">>
  /\ handler[h].stage = "publish" \/ (handler[h].stage = "adding" /\ BornLive(h))
Publishers == ({"worker"} \X Workers) \cup ({"handler"} \X Handlers)
Publishes(p, id) == IF p[1] = "worker" THEN WorkerPublishes(p[2], id)
                                       ELSE HandlerPublishes(p[2], id)
EventOK(id) ==
  /\ events[id] = 1 => Committed(id)
  /\ \A p \in Publishers : Publishes(p, id) =>
       /\ Committed(id) /\ events[id] = 0
       /\ \A q \in Publishers : Publishes(q, id) => q = p
EventsInv == events \in [JobIds -> {0, 1}] /\ \A id \in JobIds : EventOK(id)

Keeps == \A id \in JobIds : Committed(id) => Committed(id)'

LEMMA EventsRest ==
  ASSUME EventsInv, Keeps, events' = events,
         \A p \in Publishers, id \in JobIds : Publishes(p, id)' => Publishes(p, id)
  PROVE  EventsInv'
  BY DEF EventsInv, EventOK, Keeps

LEMMA EventBorn ==
  ASSUME EventsInv, Keeps, events' = events, NEW p \in Publishers, NEW id \in JobIds,
         ~Committed(id), Committed(id)',
         \A q \in Publishers, other \in JobIds :
           Publishes(q, other)' => Publishes(q, other) \/ (q = p /\ other = id)
  PROVE  EventsInv'
<1>1. events[id] = 0 /\ \A q \in Publishers : ~Publishes(q, id)
  BY DEF EventsInv, EventOK
<1>2. EventOK(id)'
  BY <1>1 DEF EventOK, EventsInv
<1>3. \A other \in JobIds : other # id => EventOK(other)'
  BY DEF EventOK, EventsInv, Keeps
<1> QED BY <1>2, <1>3 DEF EventsInv

LEMMA EventPublished ==
  ASSUME EventsInv, Keeps, NEW p \in Publishers, NEW id \in JobIds, Publishes(p, id),
         events' = [events EXCEPT ![id] = @ + 1],
         \A q \in Publishers, other \in JobIds : Publishes(q, other)' => Publishes(q, other) /\ q # p
  PROVE  EventsInv'
<1>1. /\ events[id] = 0 /\ Committed(id) /\ \A q \in Publishers : Publishes(q, id) => q = p
      /\ events \in [JobIds -> {0, 1}]
  BY DEF EventsInv, EventOK
<1>2. \A other \in JobIds : events'[other] = IF other = id THEN 1 ELSE events[other]
  BY <1>1
<1>3. events' \in [JobIds -> {0, 1}]
  BY <1>1
<1>4. EventOK(id)'
  BY <1>1, <1>2 DEF EventOK, Keeps
<1>5. \A other \in JobIds : other # id => EventOK(other)'
  BY <1>2 DEF EventOK, EventsInv, Keeps
<1> QED BY <1>3, <1>4, <1>5 DEF EventsInv

(* Who publishes after a step of one process. *)
LEMMA PublishersOfWorkerStep ==
  ASSUME worker \in [Workers -> {Idle} \cup Worker], NEW w \in Workers, NEW next,
         worker' = [worker EXCEPT ![w] = next], handler' = handler,
         NEW p \in Publishers, NEW id \in JobIds
  PROVE  Publishes(p, id)' <=> IF p = <<"worker", w>>
                               THEN next # Idle /\ next.stage = "publish" /\ next.job = id
                               ELSE Publishes(p, id)
<1>1. CASE p \in {"worker"} \X Workers
  <2>1. p[1] = "worker" /\ p[2] \in Workers /\ p = <<"worker", p[2]>>
    BY <1>1
  <2> QED BY <2>1 DEF Publishes, WorkerPublishes
<1>2. CASE p \in {"handler"} \X Handlers
  <2>1. p[1] = "handler" /\ p # <<"worker", w>>
    BY <1>2
  <2> QED BY <2>1 DEF Publishes, HandlerPublishes, BornLive
<1> QED BY <1>1, <1>2 DEF Publishers

LEMMA PublishersOfHandlerStep ==
  ASSUME handler \in [Handlers -> {Idle} \cup Handler], NEW h \in Handlers, NEW next,
         handler' = [handler EXCEPT ![h] = next], worker' = worker,
         NEW p \in Publishers, NEW id \in JobIds
  PROVE  Publishes(p, id)' <=>
           IF p = <<"handler", h>>
           THEN /\ next # Idle /\ next.op = "create" /\ id = <<next.auction, "start">>
                /\ \/ next.stage = "publish"
                   \/ next.stage = "adding" /\ next.terms.startTime <= next.now
           ELSE Publishes(p, id)
<1>1. CASE p \in {"worker"} \X Workers
  <2>1. p[1] = "worker" /\ p # <<"handler", h>>
    BY <1>1
  <2> QED BY <2>1 DEF Publishes, WorkerPublishes
<1>2. CASE p \in {"handler"} \X Handlers
  <2>1. p[1] = "handler" /\ p[2] \in Handlers /\ p = <<"handler", p[2]>>
    BY <1>2
  <2> QED BY <2>1 DEF Publishes, HandlerPublishes, BornLive
<1> QED BY <1>1, <1>2 DEF Publishers

------------------------------------------------------------------------------
(* The inductive invariant *)

SpentInv == spent \in [DOMAIN Bounds -> Nat] /\ \A what \in DOMAIN Bounds : spent[what] <= Bounds[what]
LifeInv ==
  /\ QueueInv /\ TablesInv /\ Owned /\ HandlersInv /\ EventsInv /\ SpentInv
  /\ \A w \in Workers : worker[w] # Idle => worker[w].now <= clock
  /\ silenced \subseteq JobIds

LEMMA ClockType == LifeInv => clock \in Nat
  BY MaxTimeAssumption DEF LifeInv, TablesInv, TablesTypeOK, Times

LEMMA SpendKeeps ==
  ASSUME SpentInv, NEW what \in DOMAIN Bounds, Spend(what)
  PROVE  SpentInv'
<1>1. Bounds[what] \in Nat
  BY EnvironmentAssumption DEF Bounds
<1> QED BY <1>1 DEF SpentInv, Spend

LEMMA TablesRest ==
  ASSUME LifeInv, UNCHANGED <<clock, tables>>
  PROVE  /\ TablesInv' /\ Owned' /\ Keeps
         /\ \A a \in Auctions : Exists(a)' <=> Exists(a)
<1>1. clock' = clock /\ auction' = auction /\ bids' = bids
  BY DEF tables
<1> QED BY <1>1 DEF LifeInv, TablesInv, TablesTypeOK, Owned, Keeps, Committed, Exists

(* A worker's step, with and without a write. *)
LEMMA WorkerStepKeeps ==
  ASSUME LifeInv, NEW w \in Workers, NEW next \in {Idle} \cup Worker,
         next # Idle => next.now <= clock,
         worker' = [worker EXCEPT ![w] = next], handler' = handler, clock' = clock,
         QueueInv', EventsInv', SpentInv', silenced' \subseteq JobIds,
         TablesInv', Owned', \A a \in Auctions : Exists(a)' => Exists(a)
  PROVE  LifeInv'
<1>1. HandlersInv'
  BY HandlersRest, ClockType DEF LifeInv
<1>2. \A v \in Workers : worker'[v] = IF v = w THEN next ELSE worker[v]
  BY DEF LifeInv, QueueInv, QueueType
<1> QED BY <1>1, <1>2 DEF LifeInv

LEMMA WorkerKeepsSilent ==
  ASSUME LifeInv, NEW w \in Workers, NEW next \in {Idle} \cup Worker,
         next # Idle => next.now <= clock,
         worker' = [worker EXCEPT ![w] = next], handler' = handler,
         UNCHANGED <<clock, tables>>, events' = events,
         QueueInv', SpentInv', silenced' \subseteq JobIds,
         next # Idle /\ next.stage = "publish" =>
           worker[w] # Idle /\ worker[w].stage = "publish" /\ next.job = worker[w].job
  PROVE  LifeInv'
<1>1. ASSUME NEW p \in Publishers, NEW id \in JobIds, Publishes(p, id)' PROVE Publishes(p, id)
  <2>1. CASE p = <<"worker", w>>
    <3>1. next # Idle /\ next.stage = "publish" /\ next.job = id
      BY <1>1, <2>1, PublishersOfWorkerStep DEF LifeInv, QueueInv, QueueType
    <3> QED BY <2>1, <3>1 DEF Publishes, WorkerPublishes
  <2>2. CASE p # <<"worker", w>>
    BY <1>1, <2>2, PublishersOfWorkerStep DEF LifeInv, QueueInv, QueueType
  <2> QED BY <2>1, <2>2
<1>2. TablesInv' /\ Owned' /\ Keeps /\ \A a \in Auctions : Exists(a)' <=> Exists(a)
  BY TablesRest
<1>3. EventsInv'
  BY <1>1, <1>2, EventsRest DEF LifeInv
<1> QED BY <1>2, <1>3, WorkerStepKeeps

LEMMA GoToMoves ==
  ASSUME QueueInv, NEW w \in Workers, worker[w] # Idle,
         NEW stage \in {"read", "write", "publish", "done"}, NEW now \in Nat, GoTo(w, stage, now)
  PROVE  /\ QueueInv'
         /\ \E next \in Worker : /\ worker' = [worker EXCEPT ![w] = next]
                                 /\ next.stage = stage /\ next.now = now
                                 /\ next.job = worker[w].job
<1> DEFINE next == [worker[w] EXCEPT !.stage = stage, !.now = now]
<1>1. worker[w] \in Worker
  BY WorkerType
<1>2. /\ next \in Worker /\ next.stage = stage /\ next.now = now
      /\ next.job = worker[w].job /\ next.locked = worker[w].locked
  BY <1>1 DEF Worker
<1>3. worker' = [worker EXCEPT ![w] = next] /\ queue' = queue
  BY DEF GoTo, QueueInv, QueueType
<1> HIDE DEF next
<1>4. QueueInv'
  BY <1>2, <1>3, GoOnKeepsQueue
<1> QED BY <1>2, <1>3, <1>4

LEMMA ReportMoves ==
  ASSUME QueueInv, NEW w \in Workers, worker[w] # Idle,
         Throw(w) \/ Report(w, Complete(queue, worker[w].job))
  PROVE  QueueInv' /\ worker' = [worker EXCEPT ![w] = Idle]
<1>1. worker' = [worker EXCEPT ![w] = Idle]
  BY DEF Throw, Report
<1> QED BY <1>1, ReportKeepsQueue

LEMMA WorkerLeavesTables ==
  ASSUME LifeInv, NEW w \in Workers, worker[w] # Idle,
         UNCHANGED <<clock, tables, handler, news, spent>>,
         GoTo(w, "write", clock) \/ Return(w) \/ Throw(w) \/ Report(w, Complete(queue, worker[w].job))
  PROVE  LifeInv'
<1>1. /\ events' = events /\ silenced' \subseteq JobIds /\ SpentInv'
      /\ QueueInv /\ clock \in Nat /\ worker[w].now \in Nat /\ worker[w].now <= clock
  BY WorkerType, ClockType DEF news, LifeInv, SpentInv
<1>2. ASSUME NEW stage \in {"write", "done"}, NEW now \in Nat, now <= clock, GoTo(w, stage, now)
      PROVE  LifeInv'
  <2>1. PICK next \in Worker : /\ worker' = [worker EXCEPT ![w] = next]
                               /\ next.stage = stage /\ next.now = now
    BY <1>1, <1>2, GoToMoves
  <2>2. QueueInv'
    BY <1>1, <1>2, GoToMoves
  <2> QED BY <1>1, <1>2, <2>1, <2>2, WorkerKeepsSilent
<1>3. CASE Throw(w) \/ Report(w, Complete(queue, worker[w].job))
  <2>1. QueueInv' /\ worker' = [worker EXCEPT ![w] = Idle]
    BY <1>1, <1>3, ReportMoves
  <2> QED BY <1>1, <2>1, WorkerKeepsSilent
<1> QED BY <1>1, <1>2, <1>3 DEF Return

LEMMA WorkerWrites ==
  ASSUME LifeInv, NEW w \in Workers, worker[w] # Idle,
         NEW id \in JobIds, worker[w].job = id,
         Exists(id[1]), Written(id[1]), ~Committed(id), Committed(id)',
         GoTo(w, "publish", worker[w].now), UNCHANGED <<handler, news, spent>>
  PROVE  LifeInv'
<1> DEFINE a == id[1]
<1>1. /\ events' = events /\ silenced' \subseteq JobIds /\ SpentInv' /\ clock' = clock
      /\ QueueInv /\ worker[w].now \in Nat /\ worker[w].now <= clock
      /\ a \in Auctions
      /\ worker \in [Workers -> {Idle} \cup Worker]
  BY WorkerType DEF news, LifeInv, SpentInv, Written, QueueInv, QueueType, JobIds
<1>2. /\ TablesInv' /\ Owned' /\ Keeps
      /\ \A b \in Auctions : Exists(b)' => Exists(b)
  <2>1. TablesInv /\ Owned
    BY DEF LifeInv
  <2>2. /\ TablesInv' /\ Owned' /\ \A b \in Auctions : b # a => auction'[b] = auction[b]
        /\ \A other \in JobIds : Committed(other) => Committed(other)'
    BY <1>1, <2>1, WrittenKeepsTables
  <2> QED BY <2>2 DEF Exists, Keeps
<1>3. PICK next \in Worker : /\ worker' = [worker EXCEPT ![w] = next]
                             /\ next.stage = "publish" /\ next.now = worker[w].now
                             /\ next.job = id
  BY <1>1, GoToMoves
<1>4. QueueInv'
  BY <1>1, GoToMoves
<1>5. \A q \in Publishers, other \in JobIds :
        Publishes(q, other)' => Publishes(q, other) \/ (q = <<"worker", w>> /\ other = id)
  BY <1>1, <1>3, PublishersOfWorkerStep
<1>6. <<"worker", w>> \in Publishers
  BY DEF Publishers
<1>7. EventsInv'
  BY <1>1, <1>2, <1>5, <1>6, EventBorn DEF LifeInv
<1> QED BY <1>1, <1>2, <1>3, <1>4, <1>7, WorkerStepKeeps

LEMMA ReadKeeps ==
  ASSUME LifeInv, NEW w \in Workers, StartRead(w) \/ EndRead(w)
  PROVE  LifeInv'
<1>1. /\ worker[w] # Idle /\ UNCHANGED <<clock, tables, handler, news, spent>>
      /\ GoTo(w, "write", clock) \/ Return(w) \/ Throw(w)
  BY DEF StartRead, EndRead, ReadRow, At, Idle
<1> QED BY <1>1, WorkerLeavesTables

(* The write of a worker, under the rule evaluated for the moment it read.   *)
LEMMA StartWriteIsAllowed ==
  ASSUME LifeInv, NEW w \in Workers, NEW id \in JobIds, worker[w] # Idle, worker[w].job = id,
         id[2] = "start", UNCHANGED <<clock, bids>>,
         StartAllowed(auction[id[1]], worker[w].now),
         auction' = [auction EXCEPT ![id[1]].status = "LIVE"]
  PROVE  Written(id[1]) /\ Exists(id[1]) /\ ~Committed(id) /\ Committed(id)'
<1>1. /\ id[1] \in Auctions /\ worker[w].now \in 0 .. clock /\ auction \in [Auctions -> Auction]
  BY WorkerType, ClockType DEF LifeInv, TablesInv, TablesTypeOK
<1>2. auction[id[1]].status = "SCHEDULED"
  BY DEF StartAllowed
<1>3. auction'[id[1]].status = "LIVE"
  BY <1>1 DEF Auction
<1>4. Written(id[1])
  BY <1>1 DEF Written, Started
<1> QED BY <1>2, <1>3, <1>4 DEF Exists, Committed

LEMMA EndWriteIsAllowed ==
  ASSUME LifeInv, NEW w \in Workers, NEW id \in JobIds, worker[w] # Idle, worker[w].job = id,
         id[2] = "end", UNCHANGED <<clock, bids>>,
         EndAllowed(auction[id[1]], worker[w].now),
         NEW best \in WinningBids(bids[id[1]]),
         auction' = [auction EXCEPT ![id[1]] = Finalized(auction[id[1]], bids[id[1]], best)]
  PROVE  Written(id[1]) /\ Exists(id[1]) /\ ~Committed(id) /\ Committed(id)'
<1>1. /\ id[1] \in Auctions /\ worker[w].now \in 0 .. clock /\ auction \in [Auctions -> Auction]
  BY WorkerType, ClockType DEF LifeInv, TablesInv, TablesTypeOK
<1>2. auction[id[1]].status = "LIVE"
  BY DEF EndAllowed
<1>3. auction'[id[1]].status = "ENDED"
  BY <1>1 DEF Auction, Finalized
<1>4. Written(id[1])
  BY <1>1 DEF Written, Ended
<1> QED BY <1>2, <1>3, <1>4 DEF Exists, Committed

LEMMA StartWriteKeeps ==
  ASSUME LifeInv, NEW w \in Workers, StartWrite(w)
  PROVE  LifeInv'
<1>1. worker[w] # Idle /\ UNCHANGED <<clock, bids, handler, news, spent>>
  BY DEF StartWrite, At, Idle
<1>2. PICK id \in JobIds : worker[w].job = id
  BY <1>1, WorkerType DEF LifeInv
<1>3. CASE StartAllowed(Row(w), worker[w].now)
  <2>1. /\ StartAllowed(auction[id[1]], worker[w].now) /\ id[2] = "start"
        /\ auction' = [auction EXCEPT ![id[1]].status = "LIVE"]
        /\ GoTo(w, "publish", worker[w].now)
    BY <1>2, <1>3 DEF StartWrite, At, Row
  <2>2. Written(id[1]) /\ Exists(id[1]) /\ ~Committed(id) /\ Committed(id)'
    BY <1>1, <1>2, <2>1, StartWriteIsAllowed
  <2> QED BY <1>1, <1>2, <2>1, <2>2, WorkerWrites
<1>4. CASE ~StartAllowed(Row(w), worker[w].now)
  <2>1. Throw(w) /\ UNCHANGED <<clock, tables, handler, news, spent>>
    BY <1>1, <1>4 DEF StartWrite, tables
  <2> QED BY <1>1, <2>1, WorkerLeavesTables
<1> QED BY <1>3, <1>4

LEMMA EndWriteKeeps ==
  ASSUME LifeInv, NEW w \in Workers, EndWrite(w)
  PROVE  LifeInv'
<1>1. worker[w] # Idle /\ UNCHANGED <<clock, bids, handler, news, spent>>
  BY DEF EndWrite, At, Idle
<1>2. PICK id \in JobIds : worker[w].job = id
  BY <1>1, WorkerType DEF LifeInv
<1>3. CASE EndAllowed(Row(w), worker[w].now)
  <2>1. EndAllowed(auction[id[1]], worker[w].now) /\ id[2] = "end" /\ GoTo(w, "publish", worker[w].now)
    BY <1>2, <1>3 DEF EndWrite, At, Row
  <2>2. PICK best \in WinningBids(bids[id[1]]) :
          auction' = [auction EXCEPT ![id[1]] = Finalized(auction[id[1]], bids[id[1]], best)]
    BY <1>2, <1>3 DEF EndWrite, Row
  <2>3. Written(id[1]) /\ Exists(id[1]) /\ ~Committed(id) /\ Committed(id)'
    BY <1>1, <1>2, <2>1, <2>2, EndWriteIsAllowed
  <2> QED BY <1>1, <1>2, <2>1, <2>3, WorkerWrites
<1>4. CASE ~EndAllowed(Row(w), worker[w].now)
  <2>1. (Return(w) \/ Throw(w)) /\ UNCHANGED <<clock, tables, handler, news, spent>>
    BY <1>1, <1>4 DEF EndWrite, tables
  <2> QED BY <1>1, <2>1, WorkerLeavesTables
<1> QED BY <1>3, <1>4

LEMMA PublishKeeps ==
  ASSUME LifeInv, NEW w \in Workers, Publish(w)
  PROVE  LifeInv'
<1>1. /\ worker[w] # Idle /\ worker[w].stage = "publish" /\ GoTo(w, "done", worker[w].now)
      /\ UNCHANGED <<clock, tables, handler, silenced, spent>>
  BY DEF Publish, Return, Idle
<1>2. PICK id \in JobIds : worker[w].job = id
  BY <1>1, WorkerType DEF LifeInv
<1>3. /\ events' = [events EXCEPT ![id] = @ + 1] /\ worker[w].now \in Nat /\ worker[w].now <= clock
      /\ SpentInv' /\ worker \in [Workers -> {Idle} \cup Worker]
      /\ handler' = handler /\ clock' = clock
  BY <1>1, <1>2, WorkerType DEF Publish, LifeInv, SpentInv, QueueInv, QueueType
<1>4. PICK next \in Worker : /\ worker' = [worker EXCEPT ![w] = next]
                             /\ next.stage = "done" /\ next.now = worker[w].now
  BY <1>1, <1>3, GoToMoves DEF LifeInv
<1>5. QueueInv'
  BY <1>1, <1>3, GoToMoves DEF LifeInv
<1>6. TablesInv' /\ Owned' /\ Keeps /\ \A a \in Auctions : Exists(a)' <=> Exists(a)
  BY <1>1, TablesRest
<1>7. \A q \in Publishers, other \in JobIds :
        Publishes(q, other)' => Publishes(q, other) /\ q # <<"worker", w>>
  BY <1>3, <1>4, PublishersOfWorkerStep
<1>8. <<"worker", w>> \in Publishers /\ Publishes(<<"worker", w>>, id)
  BY <1>1, <1>2 DEF Publishers, Publishes, WorkerPublishes
<1>9. EventsInv'
  BY <1>3, <1>6, <1>7, <1>8, EventPublished DEF LifeInv
<1> QED BY <1>1, <1>3, <1>4, <1>5, <1>6, <1>9, WorkerStepKeeps DEF LifeInv

LEMMA TakeKeeps ==
  ASSUME LifeInv, NEW w \in Workers, NEW id \in JobIds, TakeJob(w, id)
  PROVE  LifeInv'
<1> DEFINE next == [stage |-> "read", job |-> id, now |-> 0, locked |-> TRUE]
<1>1. /\ worker' = [worker EXCEPT ![w] = next] /\ handler' = handler
      /\ UNCHANGED <<clock, tables>> /\ events' = events /\ silenced' = silenced /\ spent' = spent
  BY DEF TakeJob, news
<1>2. next \in Worker /\ next.now <= clock /\ next.stage = "read"
  BY ClockType DEF Worker
<1>3. QueueInv' /\ SpentInv' /\ silenced' \subseteq JobIds
  BY <1>1, TakeKeepsQueue DEF LifeInv, SpentInv
<1> HIDE DEF next
<1> QED BY <1>1, <1>2, <1>3, WorkerKeepsSilent

(* Faults of the worker. *)
LEMMA WorkerFaultKeeps ==
  ASSUME LifeInv, NEW w \in Workers, JobFails(w) \/ WorkerCrash(w) \/ WorkerStalls(w)
  PROVE  LifeInv'
<1>1. /\ worker[w] # Idle /\ handler' = handler /\ UNCHANGED <<clock, tables>>
      /\ Spend("jobs") \/ Spend("crashes")
      /\ events' = events /\ (silenced' = silenced \/ silenced' = silenced \cup {worker[w].job})
  BY DEF JobFails, WorkerCrash, WorkerStalls, Silence, news
<1>2. worker[w].job \in JobIds /\ QueueInv /\ worker[w] \in Worker /\ worker[w].now <= clock
  BY <1>1, WorkerType DEF LifeInv
<1>3. SpentInv' /\ silenced' \subseteq JobIds
  BY <1>1, <1>2, SpendKeeps DEF LifeInv, Bounds
<1>4. CASE JobFails(w)
  <2>1. QueueInv' /\ worker' = [worker EXCEPT ![w] = Idle]
    BY <1>1, <1>2, <1>4, ReportMoves DEF JobFails
  <2> QED BY <1>1, <1>3, <2>1, WorkerKeepsSilent
<1>5. CASE WorkerCrash(w)
  <2>1. worker' = [worker EXCEPT ![w] = Idle] /\ queue' = queue
    BY <1>5 DEF WorkerCrash
  <2>2. QueueInv'
    BY <1>1, <1>2, <2>1, LetGoKeepsQueue DEF QueueInv, QueueType
  <2> QED BY <1>1, <1>3, <2>1, <2>2, WorkerKeepsSilent
<1>6. CASE WorkerStalls(w)
  <2> DEFINE next == [worker[w] EXCEPT !.locked = FALSE]
  <2>1. /\ next \in Worker /\ next.now = worker[w].now /\ next.job = worker[w].job
        /\ next.stage = worker[w].stage /\ ~next.locked
    BY <1>2 DEF Worker
  <2>2. worker' = [worker EXCEPT ![w] = next] /\ queue' = queue
    BY <1>6 DEF WorkerStalls
  <2> HIDE DEF next
  <2>3. QueueInv'
    BY <1>1, <1>2, <2>1, <2>2, GoOnKeepsQueue
  <2> QED BY <1>1, <1>2, <1>3, <2>1, <2>2, <2>3, WorkerKeepsSilent
<1> QED BY <1>4, <1>5, <1>6

LEMMA RecoverKeeps ==
  ASSUME LifeInv, NEW id \in JobIds, RecoverJob(id)
  PROVE  LifeInv'
<1>1. /\ UNCHANGED <<clock, tables>> /\ handler' = handler /\ worker' = worker
      /\ events' = events /\ silenced' = silenced /\ spent' = spent
  BY DEF RecoverJob, news
<1>2. QueueInv'
  BY RecoverKeepsQueue DEF LifeInv
<1>3. TablesInv' /\ Owned' /\ Keeps /\ \A a \in Auctions : Exists(a)' <=> Exists(a)
  BY <1>1, TablesRest
<1>4. HandlersInv'
  BY <1>1, <1>3, HandlersRest, ClockType DEF LifeInv
<1>5. \A p \in Publishers, other \in JobIds : Publishes(p, other)' => Publishes(p, other)
  BY <1>1 DEF Publishes, WorkerPublishes, HandlerPublishes, BornLive
<1>6. EventsInv'
  BY <1>1, <1>3, <1>5, EventsRest DEF LifeInv
<1> QED BY <1>1, <1>2, <1>3, <1>4, <1>6 DEF LifeInv, SpentInv

LEMMA TimeKeeps ==
  ASSUME LifeInv, PassTime
  PROVE  LifeInv'
<1>1. /\ Tick /\ clock' = clock + 1 /\ auction' = auction /\ bids' = bids
      /\ handler' = handler /\ worker' = worker /\ queue' = queue
      /\ events' = events /\ silenced' = silenced /\ spent' = spent
  BY DEF PassTime, Tick, tables, news
<1>2. TablesInv' /\ Owned' /\ Keeps /\ \A a \in Auctions : Exists(a)' <=> Exists(a)
  BY <1>1, TickKeepsTables DEF LifeInv, Owned, Keeps, Committed, Exists
<1>3. QueueInv'
  BY <1>1, QueueRests DEF LifeInv
<1>4. HandlersInv'
  BY <1>1, <1>2, HandlersRest, ClockType DEF LifeInv
<1>5. \A p \in Publishers, other \in JobIds : Publishes(p, other)' => Publishes(p, other)
  BY <1>1 DEF Publishes, WorkerPublishes, HandlerPublishes, BornLive
<1>6. EventsInv'
  BY <1>1, <1>2, <1>5, EventsRest DEF LifeInv
<1>7. \A w \in Workers : worker'[w] # Idle => worker'[w].now <= clock'
  BY <1>1, WorkerType, ClockType DEF LifeInv
<1> QED BY <1>1, <1>2, <1>3, <1>4, <1>6, <1>7 DEF LifeInv, SpentInv

(* A step of a request, with and without a write. *)
LEMMA HandlerKeepsSilent ==
  ASSUME LifeInv, NEW h \in Handlers, NEW next \in {Idle} \cup Handler,
         handler' = [handler EXCEPT ![h] = next], worker' = worker, UNCHANGED clock,
         events' = events, QueueInv', HandlersInv', SpentInv', silenced' \subseteq JobIds,
         TablesInv', Owned', Keeps,
         ~(next # Idle /\ next.op = "create" /\ next.stage \in {"adding", "publish"})
  PROVE  LifeInv'
<1>1. ASSUME NEW p \in Publishers, NEW id \in JobIds, Publishes(p, id)' PROVE Publishes(p, id)
  BY <1>1, PublishersOfHandlerStep DEF LifeInv, HandlersInv
<1>2. EventsInv'
  BY <1>1, EventsRest DEF LifeInv
<1> QED BY <1>2 DEF LifeInv

LEMMA CreateRequestKeeps ==
  ASSUME LifeInv, NEW h \in Handlers, CreateRequest(h)
  PROVE  LifeInv'
<1>1. PICK next \in Handler :
        /\ next.stage = "checked" /\ next.now <= clock
        /\ ~Exists(next.auction)
        /\ \A g \in Handlers : handler[g] # Idle => handler[g].auction # next.auction
        /\ handler' = [handler EXCEPT ![h] = next] /\ Spend("requests")
  <2>1. PICK a \in Auctions, user \in Users, terms \in Terms :
          /\ ~Exists(a) /\ Spend("requests")
          /\ \A g \in Handlers : handler[g] # Idle => handler[g].auction # a
          /\ handler' = [handler EXCEPT ![h] =
               [stage |-> "checked", op |-> "create", auction |-> a, user |-> user,
                terms |-> terms, now |-> clock, calls |-> {}, failed |-> FALSE]]
    BY DEF CreateRequest, Become
  <2> DEFINE new == [stage |-> "checked", op |-> "create", auction |-> a, user |-> user,
                     terms |-> terms, now |-> clock, calls |-> {}, failed |-> FALSE]
  <2>2. new \in Handler /\ new.stage = "checked" /\ new.now <= clock /\ new.auction = a
    BY ClockType DEF Handler
  <2>3. handler' = [handler EXCEPT ![h] = new]
    BY <2>1
  <2> HIDE DEF new
  <2> QED BY <2>1, <2>2, <2>3
<1>2. /\ UNCHANGED <<clock, tables>> /\ worker' = worker /\ queue' = queue
      /\ events' = events /\ silenced' = silenced
  BY DEF CreateRequest, news
<1>3. TablesInv' /\ Owned' /\ Keeps /\ \A b \in Auctions : Exists(b)' <=> Exists(b)
  BY <1>2, TablesRest
<1>4. \A g \in Handlers : g # h /\ Reserved(g) =>
        ~Exists(handler[g].auction)' /\ next.auction # handler[g].auction
  <2> SUFFICES ASSUME NEW g \in Handlers, g # h, Reserved(g)
               PROVE  ~Exists(handler[g].auction)' /\ next.auction # handler[g].auction
    OBVIOUS
  <2>1. handler[g] # Idle /\ handler[g].auction \in Auctions /\ ~Exists(handler[g].auction)
    BY HandlerType DEF Reserved, LifeInv, HandlersInv, HandlerOK
  <2>2. next.auction # handler[g].auction
    BY <1>1, <2>1
  <2>3. handler'[g] = handler[g]
    BY <1>1 DEF LifeInv, HandlersInv
  <2>4. ~Exists(handler[g].auction)'
    BY <1>3, <2>1, <2>3
  <2> QED BY <2>2, <2>4
<1>5. HandlersInv'
  <2>1. next.auction \in Auctions
    BY DEF Handler
  <2>2. ~Exists(next.auction)'
    BY <1>1, <1>3, <2>1
  <2>3. /\ next # Idle => next.now <= clock
        /\ next # Idle /\ next.stage = "checked" /\ next.op = "create" =>
             ~Exists(next.auction)' /\ Alone(h, next.auction)
    BY <1>1, <2>2 DEF Alone
  <2>4. \A g \in Handlers : g # h /\ Reserved(g) =>
          ~Exists(handler[g].auction)' /\ (next # Idle => next.auction # handler[g].auction)
    BY <1>4
  <2>5. /\ HandlersInv /\ next \in {Idle} \cup Handler /\ clock' = clock
        /\ handler' = [handler EXCEPT ![h] = next]
    BY <1>1, <1>2 DEF LifeInv
  <2> QED BY <2>3, <2>4, <2>5, HandlerMoves
<1>6. QueueInv' /\ SpentInv' /\ silenced' \subseteq JobIds
  BY <1>1, <1>2, QueueRests, SpendKeeps DEF LifeInv, Bounds
<1> QED BY <1>1, <1>2, <1>3, <1>5, <1>6, HandlerKeepsSilent

LEMMA EditRequestKeeps ==
  ASSUME LifeInv, NEW h \in Handlers, EditRequest(h)
  PROVE  LifeInv'
<1>1. PICK next \in Handler :
        /\ next.stage = "checked" /\ next.op = "edit" /\ next.now <= clock
        /\ Exists(next.auction)
        /\ handler' = [handler EXCEPT ![h] = next] /\ Spend("requests")
  <2>1. PICK a \in Auctions, terms \in Terms :
          /\ SellerMayChange(auction[a], auction[a].sellerId) /\ Spend("requests")
          /\ handler' = [handler EXCEPT ![h] =
               [stage |-> "checked", op |-> "edit", auction |-> a, user |-> auction[a].sellerId,
                terms |-> terms, now |-> clock, calls |-> {}, failed |-> FALSE]]
    BY DEF EditRequest, Become
  <2>2. Exists(a) /\ auction[a].sellerId \in Users
    BY <2>1 DEF SellerMayChange, Exists, LifeInv, Owned
  <2> DEFINE new == [stage |-> "checked", op |-> "edit", auction |-> a,
                     user |-> auction[a].sellerId, terms |-> terms, now |-> clock, calls |-> {},
                     failed |-> FALSE]
  <2>3. new \in Handler /\ new.stage = "checked" /\ new.op = "edit" /\ new.now <= clock /\ new.auction = a
    BY <2>2, ClockType DEF Handler
  <2>4. handler' = [handler EXCEPT ![h] = new]
    BY <2>1
  <2> HIDE DEF new
  <2> QED BY <2>1, <2>2, <2>3, <2>4
<1>2. /\ UNCHANGED <<clock, tables>> /\ worker' = worker /\ queue' = queue
      /\ events' = events /\ silenced' = silenced
  BY DEF EditRequest, news
<1>3. TablesInv' /\ Owned' /\ Keeps /\ \A b \in Auctions : Exists(b)' <=> Exists(b)
  BY <1>2, TablesRest
<1>4. \A g \in Handlers : g # h /\ Reserved(g) =>
        ~Exists(handler[g].auction)' /\ next.auction # handler[g].auction
  <2> SUFFICES ASSUME NEW g \in Handlers, g # h, Reserved(g)
               PROVE  ~Exists(handler[g].auction)' /\ next.auction # handler[g].auction
    OBVIOUS
  <2>1. handler[g] # Idle /\ handler[g].auction \in Auctions /\ ~Exists(handler[g].auction)
    BY HandlerType DEF Reserved, LifeInv, HandlersInv, HandlerOK
  <2> QED BY <1>1, <1>3, <2>1
<1>5. HandlersInv'
  <2>1. /\ next # Idle => next.now <= clock
        /\ ~(next # Idle /\ next.stage = "checked" /\ next.op = "create")
    BY <1>1
  <2>2. \A g \in Handlers : g # h /\ Reserved(g) =>
          ~Exists(handler[g].auction)' /\ (next # Idle => next.auction # handler[g].auction)
    BY <1>4
  <2>3. HandlersInv /\ next \in {Idle} \cup Handler /\ clock' = clock
    BY <1>2 DEF LifeInv
  <2> QED BY <1>1, <2>1, <2>2, <2>3, HandlerMoves
<1>6. QueueInv' /\ SpentInv' /\ silenced' \subseteq JobIds
  BY <1>1, <1>2, QueueRests, SpendKeeps DEF LifeInv, Bounds
<1> QED BY <1>1, <1>2, <1>3, <1>5, <1>6, HandlerKeepsSilent

LEMMA CancelIsAllowed ==
  ASSUME LifeInv, NEW h \in Handlers, CancelScheduledAuction(h)
  PROVE  \E a \in Auctions, next \in Handler :
           /\ Written(a) /\ Exists(a) /\ handler' = [handler EXCEPT ![h] = next]
           /\ next.stage = "removing" /\ next.op = "cancel" /\ next.now = 0 /\ next.auction = a
<1>1. PICK a \in Auctions :
        /\ SellerMayChange(auction[a], auction[a].sellerId)
        /\ auction' = [auction EXCEPT ![a].status = "CANCELLED"]
        /\ handler' = [handler EXCEPT ![h] =
             [stage |-> "removing", op |-> "cancel", auction |-> a, user |-> auction[a].sellerId,
              terms |-> CHOOSE terms \in Terms : TRUE, now |-> 0, calls |-> Kinds,
              failed |-> FALSE]]
        /\ UNCHANGED <<clock, bids>>
  BY DEF CancelScheduledAuction, Become
<1>2. auction[a].status = "SCHEDULED" /\ Exists(a)
  BY <1>1 DEF SellerMayChange, Exists
<1>3. auction[a].sellerId \in Users /\ Terms # {}
  BY <1>2 DEF LifeInv, Owned
<1>4. (CHOOSE terms \in Terms : TRUE) \in Terms
  BY <1>3
<1> DEFINE any  == CHOOSE terms \in Terms : TRUE
           next == [stage |-> "removing", op |-> "cancel", auction |-> a,
                    user |-> auction[a].sellerId, terms |-> any, now |-> 0, calls |-> Kinds,
                    failed |-> FALSE]
<1>5. handler' = [handler EXCEPT ![h] = next]
  BY <1>1
<1>6. any \in Terms
  BY <1>4
<1> HIDE DEF any
<1>7. /\ next \in Handler /\ next.stage = "removing" /\ next.op = "cancel" /\ next.now = 0
      /\ next.auction = a
  BY <1>3, <1>6 DEF Handler
<1>8. Written(a)
  BY <1>1, <1>2 DEF Written, Cancelled
<1> HIDE DEF next
<1> QED BY <1>2, <1>5, <1>7, <1>8

LEMMA CancelKeeps ==
  ASSUME LifeInv, NEW h \in Handlers, CancelScheduledAuction(h)
  PROVE  LifeInv'
<1>1. PICK a \in Auctions, next \in Handler :
           /\ Written(a) /\ Exists(a) /\ handler' = [handler EXCEPT ![h] = next]
           /\ next.stage = "removing" /\ next.op = "cancel" /\ next.now = 0 /\ next.auction = a
  BY CancelIsAllowed
<1>2. /\ clock' = clock /\ worker' = worker /\ queue' = queue
      /\ events' = events /\ silenced' = silenced /\ spent' = spent
  BY DEF CancelScheduledAuction, news
<1>3. /\ TablesInv' /\ Owned' /\ \A b \in Auctions : b # a => auction'[b] = auction[b]
      /\ \A id \in JobIds : Committed(id) => Committed(id)'
  BY <1>1, WrittenKeepsTables DEF LifeInv
<1>4. next.now <= clock
  BY <1>1, ClockType
<1>5. \A g \in Handlers : g # h /\ Reserved(g) =>
        ~Exists(handler[g].auction)' /\ next.auction # handler[g].auction
  <2> SUFFICES ASSUME NEW g \in Handlers, g # h, Reserved(g)
               PROVE  ~Exists(handler[g].auction)' /\ next.auction # handler[g].auction
    OBVIOUS
  <2>1. handler[g] # Idle /\ handler[g].auction \in Auctions /\ ~Exists(handler[g].auction)
    BY HandlerType DEF Reserved, LifeInv, HandlersInv, HandlerOK
  <2>2. handler[g].auction # a
    BY <1>1, <2>1
  <2> QED BY <1>1, <1>3, <2>1, <2>2 DEF Exists
<1>6. HandlersInv'
  <2>1. /\ next # Idle => next.now <= clock
        /\ ~(next # Idle /\ next.stage = "checked" /\ next.op = "create")
    BY <1>1, <1>4
  <2>2. \A g \in Handlers : g # h /\ Reserved(g) =>
          ~Exists(handler[g].auction)' /\ (next # Idle => next.auction # handler[g].auction)
    BY <1>5
  <2>3. HandlersInv /\ next \in {Idle} \cup Handler /\ clock' = clock
    BY <1>2 DEF LifeInv
  <2> QED BY <1>1, <2>1, <2>2, <2>3, HandlerMoves
<1>7. QueueInv' /\ SpentInv' /\ silenced' \subseteq JobIds /\ Keeps
  BY <1>2, <1>3, QueueRests DEF LifeInv, SpentInv, Keeps
<1> QED BY <1>1, <1>2, <1>3, <1>6, <1>7, HandlerKeepsSilent

LEMMA InsertIsAllowed ==
  ASSUME LifeInv, NEW h \in Handlers, InsertAuction(h)
  PROVE  \E next \in Handler :
           /\ Written(next.auction) /\ ~Exists(next.auction)
           /\ handler' = [handler EXCEPT ![h] = next]
           /\ next.auction = handler[h].auction /\ next.now = handler[h].now
           /\ next.stage = "adding" /\ next.op = "create"
           /\ next.terms.startTime <= next.now => Committed(<<next.auction, "start">>)'
<1> DEFINE me == handler[h]
           next == [me EXCEPT !.stage = "adding",
                              !.calls = IF BornLive(h) THEN {"end"} ELSE Kinds]
<1>1. /\ me # Idle /\ me.stage = "checked" /\ me.op = "create"
      /\ auction' = [auction EXCEPT ![me.auction] = NewRow(me.user, me.terms, me.now)]
      /\ handler' = [handler EXCEPT ![h] = next] /\ UNCHANGED <<clock, bids>>
  BY DEF InsertAuction, In, Become, Idle
<1>2. /\ me \in Handler /\ me.auction \in Auctions /\ me.user \in Users /\ me.terms \in Terms
      /\ me.now \in Nat /\ me.now <= clock /\ clock \in Nat
      /\ auction \in [Auctions -> Auction]
  BY <1>1, HandlerType, ClockType DEF LifeInv, TablesInv, TablesTypeOK
<1>3. ~Exists(me.auction)
  BY <1>1 DEF LifeInv, HandlersInv, HandlerOK, Reserved, In
<1>4. me.now \in 0 .. clock
  BY <1>2
<1>5. Written(me.auction)
  BY <1>1, <1>2, <1>3, <1>4 DEF Written, Inserted
<1>6. me.terms.startTime <= me.now => auction'[me.auction].status = "LIVE"
  <2>1. auction'[me.auction] = NewRow(me.user, me.terms, me.now)
    BY <1>1, <1>2
  <2>2. NewRow(me.user, me.terms, me.now).status = IF me.terms.startTime > me.now THEN "SCHEDULED" ELSE "LIVE"
    BY DEF NewRow, Rescheduled, NoRow
  <2>3. me.terms.startTime \in Nat
    BY <1>2, TermsType
  <2> QED BY <1>2, <2>1, <2>2, <2>3
<1>7. /\ next \in Handler /\ next.auction = me.auction /\ next.now = me.now /\ next.terms = me.terms
      /\ next.stage = "adding" /\ next.op = "create"
  BY <1>1, <1>2 DEF Handler, Kinds
<1>8. PICK new \in Handler : new = next
  BY <1>7
<1>9. new.terms.startTime <= new.now => Committed(<<new.auction, "start">>)'
  BY <1>6, <1>7, <1>8 DEF Committed
<1> HIDE DEF next, me
<1> QED BY <1>1, <1>3, <1>5, <1>7, <1>8, <1>9 DEF me

LEMMA InsertKeeps ==
  ASSUME LifeInv, NEW h \in Handlers, InsertAuction(h)
  PROVE  LifeInv'
<1>1. PICK next \in Handler :
           /\ Written(next.auction) /\ ~Exists(next.auction)
           /\ handler' = [handler EXCEPT ![h] = next]
           /\ next.auction = handler[h].auction /\ next.now = handler[h].now
           /\ next.stage = "adding" /\ next.op = "create"
           /\ next.terms.startTime <= next.now => Committed(<<next.auction, "start">>)'
  BY InsertIsAllowed
<1>2. /\ clock' = clock /\ worker' = worker /\ queue' = queue
      /\ events' = events /\ silenced' = silenced /\ spent' = spent
      /\ handler[h] # Idle
  BY DEF InsertAuction, news, In, Idle
<1>3. next.auction \in Auctions /\ next # Idle
  BY KindsOfRecords DEF Handler
<1>4. /\ TablesInv' /\ Owned' /\ Keeps
      /\ \A b \in Auctions : b # next.auction => auction'[b] = auction[b]
  BY <1>1, <1>3, WrittenKeepsTables DEF LifeInv, Keeps
<1>5. HandlersInv'
  <2>1. \A a \in Auctions : Exists(a)' => Exists(a) \/ a = handler[h].auction
    BY <1>1, <1>4 DEF Exists
  <2>2. HandlersInv /\ next \in {Idle} \cup Handler
    BY DEF LifeInv
  <2> QED BY <1>1, <1>2, <2>1, <2>2, HandlerGoesOn
<1>6. QueueInv' /\ SpentInv' /\ silenced' \subseteq JobIds
  BY <1>2, QueueRests DEF LifeInv, SpentInv
<1>7. CASE next.terms.startTime <= next.now
  <2> DEFINE id == <<next.auction, "start">>
  <2>1. id \in JobIds /\ <<"handler", h>> \in Publishers /\ ~Committed(id) /\ Committed(id)'
    BY <1>1, <1>3, <1>7 DEF JobIds, Kinds, Publishers, Committed, Exists
  <2>2. \A q \in Publishers, other \in JobIds :
          Publishes(q, other)' => Publishes(q, other) \/ (q = <<"handler", h>> /\ other = id)
    BY <1>1, <1>2, PublishersOfHandlerStep DEF LifeInv, HandlersInv
  <2> HIDE DEF id
  <2>3. EventsInv'
    <3>1. PICK it \in JobIds : it = id
      BY <2>1
    <3> QED BY <1>2, <1>4, <2>1, <2>2, <3>1, EventBorn DEF LifeInv, id
  <2> QED BY <1>2, <1>4, <1>5, <1>6, <2>3 DEF LifeInv
<1>8. CASE ~(next.terms.startTime <= next.now)
  <2>1. \A q \in Publishers, other \in JobIds : Publishes(q, other)' => Publishes(q, other)
    BY <1>1, <1>2, <1>8, PublishersOfHandlerStep DEF LifeInv, HandlersInv
  <2>2. EventsInv'
    BY <1>2, <1>4, <2>1, EventsRest DEF LifeInv
  <2> QED BY <1>2, <1>4, <1>5, <1>6, <2>2 DEF LifeInv
<1> QED BY <1>7, <1>8

LEMMA UpdateKeeps ==
  ASSUME LifeInv, NEW h \in Handlers, UpdateAuction(h)
  PROVE  LifeInv'
<1> DEFINE a == handler[h].auction
<1>1. /\ clock' = clock /\ bids' = bids /\ worker' = worker /\ queue' = queue
      /\ events' = events /\ silenced' = silenced /\ spent' = spent
      /\ handler[h] # Idle /\ handler[h].op = "edit"
  BY DEF UpdateAuction, news, In, Idle
<1>2. handler[h] \in Handler /\ a \in Auctions /\ handler[h].terms \in Terms
  BY <1>1, HandlerType DEF LifeInv
<1>3. /\ TablesInv' /\ Owned' /\ Keeps
      /\ \A b \in Auctions : Exists(b)' => Exists(b) \/ b = a
  <2>1. CASE auction' = auction
    <3>1. UNCHANGED <<clock, tables>>
      BY <1>1, <2>1 DEF tables
    <3> QED BY <3>1, TablesRest
  <2>2. CASE SellerMayChange(auction[a], handler[h].user)
             /\ auction' = [auction EXCEPT ![a] = Rescheduled(auction[a], handler[h].terms)]
    <3>1. PICK b \in Auctions : b = a
      BY <1>2
    <3>2. Written(b)
      BY <1>1, <1>2, <2>2, <3>1 DEF Written, Edited, SellerMayChange
    <3>3. /\ TablesInv' /\ Owned' /\ Keeps
          /\ \A c \in Auctions : c # b => auction'[c] = auction[c]
      BY <3>2, WrittenKeepsTables DEF LifeInv, Keeps
    <3> QED BY <3>1, <3>3 DEF Exists
  <2> QED BY <2>1, <2>2 DEF UpdateAuction
<1>4. PICK next \in {Idle} \cup Handler :
        /\ handler' = [handler EXCEPT ![h] = next]
        /\ next # Idle => /\ next.now = handler[h].now /\ next.auction = a
                          /\ next.stage = "removing" /\ next.op = "edit"
  <2> DEFINE new == [handler[h] EXCEPT !.stage = "removing", !.calls = Kinds]
  <2>1. /\ new \in Handler /\ new.now = handler[h].now /\ new.auction = a
        /\ new.stage = "removing" /\ new.op = "edit"
    BY <1>1, <1>2 DEF Handler
  <2>2. handler' = [handler EXCEPT ![h] = new] \/ handler' = [handler EXCEPT ![h] = Idle]
    BY DEF UpdateAuction, Become
  <2> HIDE DEF new
  <2> QED BY <2>1, <2>2
<1>5. HandlersInv'
  <2>1. HandlersInv
    BY DEF LifeInv
  <2> QED BY <1>1, <1>3, <1>4, <2>1, HandlerGoesOn
<1>6. QueueInv' /\ SpentInv' /\ silenced' \subseteq JobIds
  BY <1>1, QueueRests DEF LifeInv, SpentInv
<1> QED BY <1>1, <1>3, <1>4, <1>5, <1>6, HandlerKeepsSilent

(* A call of the queue leaves a request with less to do, and makes no         *)
(* publisher of a request that was none.                                     *)
GoesOn(h, next) ==
  next # Idle =>
    /\ next.now = handler[h].now /\ next.auction = handler[h].auction /\ next.stage # "checked"
    /\ next.op = handler[h].op
    /\ next.op = "create" /\ (next.stage = "publish" \/ (next.stage = "adding" /\ next.terms.startTime <= next.now))
         => handler[h].stage = "adding" /\ BornLive(h)

LEMMA CallMoves ==
  ASSUME LifeInv, NEW h \in Handlers, NEW kind \in Kinds, RemoveJob(h, kind) \/ AddJob(h, kind)
  PROVE  /\ handler[h] # Idle
         /\ \E next \in {Idle} \cup Handler :
              handler' = [handler EXCEPT ![h] = next] /\ GoesOn(h, next)
<1> DEFINE me == handler[h]
<1>1. me # Idle
  BY DEF RemoveJob, AddJob, Idle
<1>2. me \in Handler /\ me.calls \subseteq Kinds /\ me.failed \in BOOLEAN
  BY <1>1, HandlerType DEF LifeInv
<1>3. CASE RemoveJob(h, kind)
  <2>1. PICK id : id = <<me.auction, kind>>
    OBVIOUS
  <2> DEFINE new  == [me EXCEPT !.calls = @ \ {kind}, !.failed = @ \/ ~Removable(queue, id)]
             next == AfterRemovals(new)
  <2>2. new \in Handler /\ new.stage = "removing" /\ new.op = me.op /\ new.now = me.now
        /\ new.auction = me.auction
    <3>1. me.calls \ {kind} \in SUBSET Kinds /\ (me.failed \/ ~Removable(queue, id)) \in BOOLEAN
      BY <1>2
    <3>2. me.stage = "removing"
      BY <1>3 DEF RemoveJob
    <3> QED BY <1>2, <3>1, <3>2 DEF Handler
  <2>3. handler' = [handler EXCEPT ![h] = next]
    BY <1>3, <2>1 DEF RemoveJob, Become
  <2> HIDE DEF new
  <2>4. next = Idle \/ next = new \/
        (new.op = "edit" /\ \E ahead \in SUBSET Kinds : next = [new EXCEPT !.stage = "adding", !.calls = ahead])
    BY DEF AfterRemovals
  <2>5. next \in {Idle} \cup Handler /\ GoesOn(h, next)
    <3>1. CASE next = Idle
      BY <3>1 DEF GoesOn
    <3>2. CASE next = new
      BY <2>2, <3>2 DEF GoesOn
    <3>3. CASE new.op = "edit" /\ \E ahead \in SUBSET Kinds : next = [new EXCEPT !.stage = "adding", !.calls = ahead]
      <4>1. PICK ahead \in SUBSET Kinds : next = [new EXCEPT !.stage = "adding", !.calls = ahead]
        BY <3>3
      <4>2. next \in Handler /\ next.op = "edit" /\ next.now = me.now /\ next.auction = me.auction
            /\ next.stage = "adding"
        BY <2>2, <3>3, <4>1 DEF Handler
      <4> QED BY <2>2, <3>3, <4>2 DEF GoesOn
    <3> QED BY <2>4, <3>1, <3>2, <3>3
  <2> HIDE DEF next
  <2> QED BY <1>1, <2>3, <2>5
<1>4. CASE AddJob(h, kind)
  <2> DEFINE new   == [me EXCEPT !.calls = @ \ {kind}]
             ahead == me.op = "edit" \/ RunAt(me.terms, kind) > clock
             next  == AfterAdd(new, ahead)
  <2>1. /\ new \in Handler /\ new.stage = "adding" /\ me.stage = "adding"
        /\ new.op = me.op /\ new.now = me.now /\ new.auction = me.auction /\ new.terms = me.terms
    <3>1. me.calls \ {kind} \in SUBSET Kinds /\ me.stage = "adding"
      BY <1>2, <1>4 DEF AddJob
    <3> QED BY <1>2, <3>1 DEF Handler
  <2>2. handler' = [handler EXCEPT ![h] = next]
    BY <1>4 DEF AddJob, Become
  <2> HIDE DEF new, ahead
  <2>3. next = Idle \/ next = new \/
        (new.terms.startTime <= new.now /\ next = [new EXCEPT !.stage = "publish"])
    BY DEF AfterAdd
  <2>4. next \in {Idle} \cup Handler /\ GoesOn(h, next)
    <3>1. CASE next = Idle
      BY <3>1 DEF GoesOn
    <3>2. CASE next = new
      BY <2>1, <3>2 DEF GoesOn, BornLive
    <3>3. CASE new.terms.startTime <= new.now /\ next = [new EXCEPT !.stage = "publish"]
      <4>1. /\ next \in Handler /\ next.op = me.op /\ next.now = me.now /\ next.auction = me.auction
            /\ next.stage = "publish"
        BY <2>1, <3>3 DEF Handler
      <4> QED BY <2>1, <3>3, <4>1 DEF GoesOn, BornLive
    <3> QED BY <2>3, <3>1, <3>2, <3>3
  <2> HIDE DEF next
  <2> QED BY <1>1, <2>2, <2>4
<1> QED BY <1>3, <1>4

LEMMA CallKeeps ==
  ASSUME LifeInv, NEW h \in Handlers, NEW kind \in Kinds, RemoveJob(h, kind) \/ AddJob(h, kind)
  PROVE  LifeInv'
<1>1. PICK next \in {Idle} \cup Handler :
        /\ handler[h] # Idle /\ handler' = [handler EXCEPT ![h] = next] /\ GoesOn(h, next)
  BY CallMoves
<1>2. /\ UNCHANGED <<clock, tables>> /\ worker' = worker /\ clock' = clock
      /\ events' = events /\ silenced' = silenced /\ spent' = spent
  BY DEF RemoveJob, AddJob, news
<1>3. TablesInv' /\ Owned' /\ Keeps /\ \A a \in Auctions : Exists(a)' <=> Exists(a)
  BY <1>2, TablesRest
<1>4. HandlersInv'
  <2>1. HandlersInv /\ (next # Idle => /\ next.now = handler[h].now
                                       /\ next.auction = handler[h].auction
                                       /\ next.stage # "checked")
    BY <1>1 DEF LifeInv, GoesOn
  <2> QED BY <1>1, <1>2, <1>3, <2>1, HandlerGoesOn
<1>5. QueueInv'
  BY <1>1, HandlerStepKeepsQueue DEF LifeInv, HandlersInv
<1>6. ASSUME NEW p \in Publishers, NEW id \in JobIds, Publishes(p, id)' PROVE Publishes(p, id)
  <2>1. CASE p = <<"handler", h>>
    <3>1. /\ next # Idle /\ next.op = "create" /\ id = <<next.auction, "start">>
          /\ next.stage = "publish" \/ (next.stage = "adding" /\ next.terms.startTime <= next.now)
      BY <1>1, <1>2, <1>6, <2>1, PublishersOfHandlerStep DEF LifeInv, HandlersInv
    <3>2. HandlerPublishes(h, id)
      BY <1>1, <3>1 DEF GoesOn, HandlerPublishes
    <3> QED BY <2>1, <3>2 DEF Publishes
  <2>2. CASE p # <<"handler", h>>
    BY <1>1, <1>2, <1>6, <2>2, PublishersOfHandlerStep DEF LifeInv, HandlersInv
  <2> QED BY <2>1, <2>2
<1>7. EventsInv'
  BY <1>2, <1>3, <1>6, EventsRest DEF LifeInv
<1> QED BY <1>2, <1>3, <1>4, <1>5, <1>7 DEF LifeInv, SpentInv

LEMMA PublishBornLiveKeeps ==
  ASSUME LifeInv, NEW h \in Handlers, PublishBornLive(h)
  PROVE  LifeInv'
<1>1. /\ handler[h] # Idle /\ handler[h].op = "create" /\ handler[h].stage = "publish"
      /\ UNCHANGED <<clock, tables>> /\ clock' = clock /\ worker' = worker /\ queue' = queue
      /\ silenced' = silenced /\ spent' = spent
      /\ handler' = [handler EXCEPT ![h] = Idle]
  BY DEF PublishBornLive, In, Become, Idle
<1>2. PICK id \in JobIds : id = <<handler[h].auction, "start">>
  BY <1>1, HandlerType DEF JobIds, Kinds, LifeInv
<1>3. events' = [events EXCEPT ![id] = @ + 1]
  BY <1>2 DEF PublishBornLive
<1>4. TablesInv' /\ Owned' /\ Keeps /\ \A a \in Auctions : Exists(a)' <=> Exists(a)
  BY <1>1, TablesRest
<1>5. HandlersInv'
  BY <1>1, <1>4, HandlerGoesOn DEF LifeInv
<1>6. <<"handler", h>> \in Publishers /\ Publishes(<<"handler", h>>, id)
  BY <1>1, <1>2 DEF Publishers, Publishes, HandlerPublishes
<1>7. \A q \in Publishers, other \in JobIds :
        Publishes(q, other)' => Publishes(q, other) /\ q # <<"handler", h>>
  BY <1>1, PublishersOfHandlerStep DEF LifeInv, HandlersInv
<1>8. EventsInv'
  BY <1>3, <1>4, <1>6, <1>7, EventPublished DEF LifeInv
<1>9. QueueInv'
  BY <1>1, QueueRests DEF LifeInv
<1> QED BY <1>1, <1>4, <1>5, <1>8, <1>9 DEF LifeInv, SpentInv

LEMMA HandlerFailsKeeps ==
  ASSUME LifeInv, NEW h \in Handlers, HandlerFails(h)
  PROVE  LifeInv'
<1>1. /\ handler[h] # Idle /\ Spend("handlers") /\ handler' = [handler EXCEPT ![h] = Idle]
      /\ UNCHANGED <<clock, tables>> /\ clock' = clock /\ worker' = worker /\ queue' = queue
      /\ events' = events
      /\ silenced' = silenced \/ silenced' = silenced \cup {<<handler[h].auction, "start">>}
  BY DEF HandlerFails, Become, Silence
<1>2. <<handler[h].auction, "start">> \in JobIds
  BY <1>1, HandlerType DEF JobIds, Kinds, LifeInv
<1>3. TablesInv' /\ Owned' /\ Keeps /\ \A a \in Auctions : Exists(a)' <=> Exists(a)
  BY <1>1, TablesRest
<1>4. HandlersInv'
  BY <1>1, <1>3, HandlerGoesOn DEF LifeInv
<1>5. QueueInv' /\ SpentInv' /\ silenced' \subseteq JobIds
  BY <1>1, <1>2, QueueRests, SpendKeeps DEF LifeInv, Bounds
<1> QED BY <1>1, <1>3, <1>4, <1>5, HandlerKeepsSilent

------------------------------------------------------------------------------
(* The theorems *)

LEMMA LifeInitial == Init => LifeInv
<1> SUFFICES ASSUME Init PROVE LifeInv
  OBVIOUS
<1>1. TablesInv /\ Owned
  BY EmptyTables DEF Init, Owned, Exists, NoRow
<1>2. QueueInv
  BY DEF Init, QueueInv, QueueType, LocksHeld, Holds
<1>3. HandlersInv
  BY DEF Init, HandlersInv, HandlerOK, Reserved
<1>4. EventsInv
  <2>1. \A p \in Publishers, id \in JobIds : ~Publishes(p, id)
    BY DEF Init, Publishers, Publishes, WorkerPublishes, HandlerPublishes
  <2> QED BY <2>1 DEF Init, EventsInv, EventOK
<1>5. SpentInv
  BY EnvironmentAssumption DEF Init, SpentInv, Bounds
<1> QED BY <1>1, <1>2, <1>3, <1>4, <1>5 DEF LifeInv, Init

LEMMA LifeKept == LifeInv /\ [Next]_vars => LifeInv'
<1> SUFFICES ASSUME LifeInv, [Next]_vars PROVE LifeInv'
  OBVIOUS
<1>1. ASSUME NEW h \in Handlers,
             CreateRequest(h) \/ EditRequest(h) \/ CancelScheduledAuction(h)
               \/ HandlerStep(h) \/ HandlerFails(h)
      PROVE  LifeInv'
  BY <1>1, CreateRequestKeeps, EditRequestKeeps, CancelKeeps, InsertKeeps, UpdateKeeps,
     PublishBornLiveKeeps, CallKeeps, HandlerFailsKeeps DEF HandlerStep
<1>2. ASSUME NEW w \in Workers,
             WorkerStep(w) \/ JobFails(w) \/ WorkerCrash(w) \/ WorkerStalls(w)
               \/ \E id \in JobIds : TakeJob(w, id)
      PROVE  LifeInv'
  <2>1. CASE CompleteJob(w)
    <3>1. /\ worker[w] # Idle /\ UNCHANGED <<clock, tables, handler, news, spent>>
          /\ Report(w, Complete(queue, worker[w].job))
      BY <2>1 DEF CompleteJob, Idle
    <3> QED BY <3>1, WorkerLeavesTables
  <2> QED BY <1>2, <2>1, ReadKeeps, StartWriteKeeps, EndWriteKeeps, PublishKeeps, TakeKeeps,
             WorkerFaultKeeps DEF WorkerStep
<1>3. CASE UNCHANGED vars
  <2>1. /\ UNCHANGED <<clock, tables>> /\ clock' = clock /\ handler' = handler
        /\ worker' = worker /\ queue' = queue
        /\ events' = events /\ silenced' = silenced /\ spent' = spent
    BY <1>3 DEF vars, news
  <2>2. TablesInv' /\ Owned' /\ Keeps /\ \A a \in Auctions : Exists(a)' <=> Exists(a)
    BY <2>1, TablesRest
  <2>3. QueueInv' /\ HandlersInv'
    BY <2>1, <2>2, QueueRests, HandlersRest, ClockType DEF LifeInv
  <2>4. \A p \in Publishers, other \in JobIds : Publishes(p, other)' => Publishes(p, other)
    BY <2>1 DEF Publishes, WorkerPublishes, HandlerPublishes, BornLive
  <2>5. EventsInv'
    BY <2>1, <2>2, <2>4, EventsRest DEF LifeInv
  <2> QED BY <2>1, <2>2, <2>3, <2>5 DEF LifeInv, SpentInv
<1> QED BY <1>1, <1>2, <1>3, TimeKeeps, RecoverKeeps DEF Next

LEMMA LifeInvHolds == Spec => []LifeInv
  BY LifeInitial, LifeKept, PTL DEF Spec

(* The rows, the requests, the jobs and the workers of the lifecycle keep    *)
(* their types, and a job is retried a bounded number of times.              *)
THEOREM LifecycleTypeCorrect == Spec => []TypeOK
<1>1. LifeInv => TypeOK
  <2> SUFFICES ASSUME LifeInv PROVE TypeOK
    OBVIOUS
  <2>1. /\ TablesTypeOK /\ handler \in [Handlers -> {Idle} \cup Handler]
        /\ worker \in [Workers -> {Idle} \cup Worker] /\ queue \in [JobIds -> {NoJob} \cup Job]
        /\ silenced \subseteq JobIds
    BY DEF LifeInv, TablesInv, HandlersInv, QueueInv, QueueType
  <2>2. events \in [JobIds -> Nat]
    BY DEF LifeInv, EventsInv
  <2>3. \A what \in DOMAIN Bounds : spent[what] \in 0 .. Bounds[what]
    BY EnvironmentAssumption DEF LifeInv, SpentInv, Bounds
  <2> QED BY <2>1, <2>2, <2>3 DEF TypeOK
<1> QED BY <1>1, LifeInvHolds, PTL

(* auction.worker.ts, createAuctionService: whatever is retried, duplicated   *)
(* or handed out twice, each event of an auction is published at most once,   *)
(* and only for a change that is committed.                                  *)
THEOREM EventsAlwaysTrue == Spec => []EventsTellTheTruth
<1>1. LifeInv => EventsTellTheTruth
  <2> SUFFICES ASSUME LifeInv, NEW a \in Auctions
               PROVE  /\ events[<<a, "start">>] <= (IF auction[a].status \in {"LIVE", "ENDED"} THEN 1 ELSE 0)
                      /\ events[<<a, "end">>] <= (IF auction[a].status = "ENDED" THEN 1 ELSE 0)
    BY DEF EventsTellTheTruth
  <2>1. \A kind \in Kinds : /\ events[<<a, kind>>] \in {0, 1}
                            /\ events[<<a, kind>>] = 1 => Committed(<<a, kind>>)
    BY DEF LifeInv, EventsInv, EventOK, JobIds
  <2>2. "start" \in Kinds /\ "end" \in Kinds
    BY DEF Kinds
  <2> QED BY <2>1, <2>2 DEF Committed
<1> QED BY <1>1, LifeInvHolds, PTL

LEMMA LifeStepImplements == LifeInv /\ [Next]_vars => [Contract!Next]_(Contract!vars)
<1> SUFFICES ASSUME LifeInv, Next, ~UNCHANGED <<clock, auction, bids>> PROVE Contract!Next
  BY DEF vars, tables, Contract!vars
<1>1. CASE PassTime
  BY <1>1 DEF PassTime, Tick, tables, Contract!Next, Contract!Tick, Contract!tables
<1>2. ASSUME NEW h \in Handlers, InsertAuction(h) PROVE Contract!Next
  <2>1. PICK next \in Handler : Written(next.auction)
    BY <1>2, InsertIsAllowed
  <2>2. next.auction \in Auctions
    BY DEF Handler
  <2> QED BY <2>1, <2>2, WrittenImplements
<1>3. ASSUME NEW h \in Handlers, CancelScheduledAuction(h) PROVE Contract!Next
  BY <1>3, CancelIsAllowed, WrittenImplements
<1>4. ASSUME NEW h \in Handlers, UpdateAuction(h) PROVE Contract!Next
  <2>1. handler[h] # Idle
    BY <1>4 DEF UpdateAuction, In, Idle
  <2>2. PICK a \in Auctions : a = handler[h].auction /\ handler[h].terms \in Terms
    BY <2>1, HandlerType DEF LifeInv
  <2>3. Written(a)
    BY <1>4, <2>2 DEF UpdateAuction, Written, Edited, SellerMayChange, tables
  <2> QED BY <2>3, WrittenImplements
<1>5. ASSUME NEW w \in Workers, StartWrite(w) PROVE Contract!Next
  <2>1. worker[w] # Idle /\ UNCHANGED <<clock, bids>>
    BY <1>5 DEF StartWrite, At, Idle
  <2>2. PICK id \in JobIds : worker[w].job = id
    BY <2>1, WorkerType DEF LifeInv
  <2>3. /\ StartAllowed(auction[id[1]], worker[w].now) /\ id[2] = "start"
        /\ auction' = [auction EXCEPT ![id[1]].status = "LIVE"]
    BY <1>5, <2>1, <2>2 DEF StartWrite, At, Row
  <2>4. Written(id[1]) /\ id[1] \in Auctions
    BY <2>1, <2>2, <2>3, StartWriteIsAllowed DEF JobIds
  <2> QED BY <2>4, WrittenImplements
<1>6. ASSUME NEW w \in Workers, EndWrite(w) PROVE Contract!Next
  <2>1. worker[w] # Idle /\ UNCHANGED <<clock, bids>>
    BY <1>6 DEF EndWrite, At, Idle
  <2>2. PICK id \in JobIds : worker[w].job = id
    BY <2>1, WorkerType DEF LifeInv
  <2>3. EndAllowed(auction[id[1]], worker[w].now) /\ id[2] = "end"
    BY <1>6, <2>1, <2>2 DEF EndWrite, At, Row
  <2>4. PICK best \in WinningBids(bids[id[1]]) :
          auction' = [auction EXCEPT ![id[1]] = Finalized(auction[id[1]], bids[id[1]], best)]
    BY <1>6, <2>1, <2>2, <2>3 DEF EndWrite, Row
  <2>5. Written(id[1]) /\ id[1] \in Auctions
    BY <2>1, <2>2, <2>3, <2>4, EndWriteIsAllowed DEF JobIds
  <2> QED BY <2>5, WrittenImplements
<1> QED BY <1>1, <1>2, <1>3, <1>4, <1>5, <1>6
        DEF Next, HandlerStep, WorkerStep, CreateRequest, EditRequest, PublishBornLive, RemoveJob,
            AddJob, HandlerFails, StartRead, EndRead, ReadRow, Publish, CompleteJob, JobFails,
            WorkerCrash, WorkerStalls, TakeJob, RecoverJob, tables

(* startAuctionService, endAuctionService, editAuctionService: every write of *)
(* a job or a request, however late, stale or repeated, is a step that the    *)
(* contract allows on the row as it is then.                                 *)
THEOREM LifecycleImplementsContract == Spec => ImplementsContract
<1>1. Init => Contract!Init
  BY DEF Init, Contract!Init, Contract!NoRow, NoRow
<1> QED BY <1>1, LifeStepImplements, LifeInvHolds, PTL DEF Spec, ImplementsContract, Contract!Spec
------------------------------------------------------------------------------
(* No event is forgotten *)

LEMMA IdsOfJobs ==
  /\ \A a \in Auctions, kind \in Kinds : <<a, kind>> \in JobIds
  /\ \A id \in JobIds : id[1] \in Auctions /\ id[2] \in Kinds /\ id = <<id[1], id[2]>>
  BY DEF JobIds

LEMMA RowTypes ==
  ASSUME LifeInv, NEW a \in Auctions
  PROVE  /\ auction[a] \in Auction /\ clock \in Nat /\ auction \in [Auctions -> Auction]
         /\ auction[a].startTime \in Nat /\ auction[a].endTime \in Nat
         /\ auction[a].status \in Status
<1>1. auction[a] \in Auction /\ clock \in Nat /\ auction \in [Auctions -> Auction]
  BY ClockType DEF LifeInv, TablesInv, TablesTypeOK
<1> QED BY <1>1 DEF Auction

(* The endTime of a create lies ahead until its jobs are added, so that its   *)
(* additions cannot throw before it has published. Of the two jobs one that   *)
(* is born live adds only the second.                                        *)
Undisturbed(me) ==
  me.op = "create" =>
    /\ me.stage \in {"checked", "adding"} => me.terms.endTime > clock
    /\ me.stage = "adding" /\ me.terms.startTime <= me.now => "start" \notin me.calls
    /\ me.stage = "publish" => me.terms.startTime <= me.now
Foretold(id) == Announced(id) \/ \E p \in Publishers : Publishes(p, id)
NewsInv ==
  /\ \A id \in JobIds : Committed(id) => Foretold(id)
  /\ \A h \in Handlers : handler[h] # Idle => Undisturbed(handler[h])

(* A step of one process that publishes what it was to publish, or says that  *)
(* it will not, and that commits only what it will publish.                  *)
LEMMA WorkerKeepsNews ==
  ASSUME LifeInv, NewsInv, NEW w \in Workers, NEW next,
         worker' = [worker EXCEPT ![w] = next], handler' = handler, clock' = clock,
         \A id \in JobIds : Announced(id) => Announced(id)',
         \A id \in JobIds : Committed(id)' =>
           Committed(id) \/ (next # Idle /\ next.stage = "publish" /\ next.job = id),
         \A id \in JobIds : WorkerPublishes(w, id) =>
           Announced(id)' \/ (next # Idle /\ next.stage = "publish" /\ next.job = id)
  PROVE  NewsInv'
<1>1. worker \in [Workers -> {Idle} \cup Worker] /\ <<"worker", w>> \in Publishers
  BY DEF LifeInv, QueueInv, QueueType, Publishers
<1>2. ASSUME NEW id \in JobIds, Committed(id)' PROVE Foretold(id)'
  <2>1. CASE next # Idle /\ next.stage = "publish" /\ next.job = id
    <3>1. Publishes(<<"worker", w>>, id)'
      BY <1>1, <2>1, PublishersOfWorkerStep
    <3> QED BY <1>1, <3>1 DEF Foretold, Publishers
  <2>2. CASE Announced(id)'
    BY <2>2 DEF Foretold
  <2>3. CASE ~(next # Idle /\ next.stage = "publish" /\ next.job = id) /\ ~Announced(id)'
    <3>1. ~Announced(id) /\ Committed(id) /\ ~WorkerPublishes(w, id)
      BY <1>2, <2>3
    <3>2. PICK p \in Publishers : Publishes(p, id)
      BY <3>1 DEF NewsInv, Foretold
    <3>3. p # <<"worker", w>>
      BY <3>1, <3>2 DEF Publishes
    <3>4. Publishes(p, id)'
      BY <1>1, <3>2, <3>3, PublishersOfWorkerStep
    <3> QED BY <3>4 DEF Foretold, Publishers
  <2> QED BY <2>1, <2>2, <2>3
<1>3. \A h \in Handlers : handler'[h] # Idle => Undisturbed(handler[h])'
  BY DEF NewsInv, Undisturbed
<1> QED BY <1>2, <1>3 DEF NewsInv, Undisturbed

Proclaims(it, id) ==
  /\ it # Idle /\ it.op = "create" /\ id = <<it.auction, "start">>
  /\ it.stage = "publish" \/ (it.stage = "adding" /\ it.terms.startTime <= it.now)

LEMMA HandlerKeepsNews ==
  ASSUME LifeInv, NewsInv, NEW h \in Handlers, NEW next,
         handler' = [handler EXCEPT ![h] = next], worker' = worker, clock' = clock,
         \A id \in JobIds : Announced(id) => Announced(id)',
         \A id \in JobIds : Committed(id)' => Committed(id) \/ Proclaims(next, id),
         \A id \in JobIds : Proclaims(handler[h], id) => Announced(id)' \/ Proclaims(next, id),
         next # Idle => Undisturbed(next)
  PROVE  NewsInv'
<1>1. handler \in [Handlers -> {Idle} \cup Handler] /\ <<"handler", h>> \in Publishers
  BY DEF LifeInv, HandlersInv, Publishers
<1>2. ASSUME NEW id \in JobIds, Committed(id)' PROVE Foretold(id)'
  <2>1. CASE Proclaims(next, id)
    <3>1. Publishes(<<"handler", h>>, id)'
      BY <1>1, <2>1, PublishersOfHandlerStep DEF Proclaims
    <3> QED BY <1>1, <3>1 DEF Foretold, Publishers
  <2>2. CASE Announced(id)'
    BY <2>2 DEF Foretold
  <2>3. CASE ~Proclaims(next, id) /\ ~Announced(id)'
    <3>1. ~Announced(id) /\ Committed(id) /\ ~Proclaims(handler[h], id)
      BY <1>2, <2>3
    <3>2. PICK p \in Publishers : Publishes(p, id)
      BY <3>1 DEF NewsInv, Foretold
    <3>3. p # <<"handler", h>>
      BY <3>1, <3>2 DEF Publishes, HandlerPublishes, Proclaims, BornLive
    <3>4. Publishes(p, id)'
      BY <1>1, <3>2, <3>3, PublishersOfHandlerStep
    <3> QED BY <3>4 DEF Foretold, Publishers
  <2> QED BY <2>1, <2>2, <2>3
<1>3. ASSUME NEW g \in Handlers, handler'[g] # Idle PROVE Undisturbed(handler[g])'
  <2>1. handler'[g] = IF g = h THEN next ELSE handler[g]
    BY <1>1
  <2> QED BY <1>3, <2>1 DEF NewsInv, Undisturbed
<1> QED BY <1>2, <1>3 DEF NewsInv

LEMMA CommittedRests ==
  ASSUME auction' = auction
  PROVE  \A id \in JobIds : Committed(id)' <=> Committed(id)
  BY DEF Committed
LEMMA AnnouncedRests ==
  ASSUME events' = events, silenced \subseteq silenced'
  PROVE  \A id \in JobIds : Announced(id) => Announced(id)'
  BY DEF Announced

(* The jobs: what is not published is left to be, or is known to be lost.     *)
LEMMA ReadKeepsNews ==
  ASSUME LifeInv, NewsInv, NEW w \in Workers, StartRead(w) \/ EndRead(w) \/ CompleteJob(w)
  PROVE  NewsInv'
<1>1. /\ worker[w] # Idle /\ worker[w].stage # "publish"
      /\ UNCHANGED <<clock, tables, handler, news, spent>>
      /\ \E next : worker' = [worker EXCEPT ![w] = next]
  BY DEF StartRead, EndRead, ReadRow, CompleteJob, At, Idle, GoTo, Return, Throw, Report
<1>2. PICK next : worker' = [worker EXCEPT ![w] = next]
  BY <1>1
<1>3. \A id \in JobIds : (Committed(id)' => Committed(id)) /\ (Announced(id) => Announced(id)')
  BY <1>1, CommittedRests, AnnouncedRests DEF tables, news
<1>4. \A id \in JobIds : ~WorkerPublishes(w, id)
  BY <1>1 DEF WorkerPublishes
<1> QED BY <1>1, <1>2, <1>3, <1>4, WorkerKeepsNews

LEMMA WorkerWriteKeepsNews ==
  ASSUME LifeInv, NewsInv, NEW w \in Workers, StartWrite(w) \/ EndWrite(w)
  PROVE  NewsInv'
<1>1. /\ worker[w] # Idle /\ worker[w].stage = "write"
      /\ UNCHANGED <<clock, bids, handler, news, spent>> /\ clock' = clock /\ handler' = handler
  BY DEF StartWrite, EndWrite, At, Idle
<1>2. PICK me \in JobIds : worker[w].job = me
  BY <1>1, WorkerType DEF LifeInv
<1>3. \A id \in JobIds : (Announced(id) => Announced(id)') /\ ~WorkerPublishes(w, id)
  BY <1>1, AnnouncedRests DEF news, WorkerPublishes
<1>4. CASE auction' = auction
  <2>1. \E next : worker' = [worker EXCEPT ![w] = next]
    BY DEF StartWrite, EndWrite, GoTo, Return, Throw, Report
  <2>2. PICK next : worker' = [worker EXCEPT ![w] = next]
    BY <2>1
  <2>3. \A id \in JobIds : Committed(id)' => Committed(id)
    BY <1>4, CommittedRests
  <2> QED BY <1>1, <1>3, <2>2, <2>3, WorkerKeepsNews
<1>5. CASE /\ GoTo(w, "publish", worker[w].now)
           /\ \E row : /\ auction' = [auction EXCEPT ![me[1]] = row]
                       /\ row.status = IF me[2] = "start" THEN "LIVE" ELSE "ENDED"
                       /\ me[2] = "end" => auction[me[1]].status = "LIVE"
  <2>1. PICK next : /\ worker' = [worker EXCEPT ![w] = next]
                    /\ next # Idle /\ next.stage = "publish" /\ next.job = me
    <3>1. \E next \in Worker : /\ worker' = [worker EXCEPT ![w] = next]
                               /\ next.stage = "publish" /\ next.job = worker[w].job
      BY <1>1, <1>5, WorkerType, GoToMoves DEF LifeInv
    <3> QED BY <1>2, <3>1, KindsOfRecords
  <2>2. PICK row : /\ auction' = [auction EXCEPT ![me[1]] = row]
                   /\ row.status = IF me[2] = "start" THEN "LIVE" ELSE "ENDED"
                   /\ me[2] = "end" => auction[me[1]].status = "LIVE"
    BY <1>5
  <2>3. \A a \in Auctions : auction'[a] = IF a = me[1] THEN row ELSE auction[a]
    BY <2>2, RowTypes
  <2>4. ASSUME NEW id \in JobIds, Committed(id)', ~Committed(id) PROVE id = me
    <3>1. id[1] = me[1]
      BY <2>3, <2>4, IdsOfJobs DEF Committed
    <3>2. id[2] = me[2]
      BY <2>2, <2>3, <2>4, <3>1, IdsOfJobs DEF Committed, Kinds
    <3> QED BY <3>1, <3>2, IdsOfJobs
  <2> QED BY <1>1, <1>3, <2>1, <2>4, WorkerKeepsNews
<1>6. auction' = auction \/
        (/\ GoTo(w, "publish", worker[w].now)
         /\ \E row : /\ auction' = [auction EXCEPT ![me[1]] = row]
                     /\ row.status = IF me[2] = "start" THEN "LIVE" ELSE "ENDED"
                     /\ me[2] = "end" => auction[me[1]].status = "LIVE")
  <2>1. auction[me[1]] \in Auction
    BY RowTypes, IdsOfJobs
  <2>2. CASE StartWrite(w) /\ auction' # auction
    <3> DEFINE row == [auction[me[1]] EXCEPT !.status = "LIVE"]
    <3>1. /\ me[2] = "start" /\ GoTo(w, "publish", worker[w].now)
          /\ auction' = [auction EXCEPT ![me[1]] = row]
      BY <1>2, <2>2 DEF StartWrite, At
    <3>2. row.status = "LIVE"
      BY <2>1 DEF Auction
    <3> HIDE DEF row
    <3> QED BY <3>1, <3>2
  <2>3. CASE EndWrite(w) /\ auction' # auction
    <3>1. /\ me[2] = "end" /\ GoTo(w, "publish", worker[w].now)
          /\ EndAllowed(auction[me[1]], worker[w].now)
      BY <1>2, <2>3 DEF EndWrite, At, Row
    <3>2. PICK best : auction' = [auction EXCEPT ![me[1]] = Finalized(auction[me[1]], bids[me[1]], best)]
      BY <1>2, <2>3 DEF EndWrite, Row
    <3>3. Finalized(auction[me[1]], bids[me[1]], best).status = "ENDED"
      BY <2>1 DEF Auction, Finalized
    <3> QED BY <3>1, <3>2, <3>3 DEF EndAllowed
  <2> QED BY <2>2, <2>3
<1> QED BY <1>4, <1>5, <1>6

LEMMA PublishKeepsNews ==
  ASSUME LifeInv, NewsInv, NEW w \in Workers, Publish(w)
  PROVE  NewsInv'
<1>1. /\ UNCHANGED <<clock, tables, handler, silenced, spent>>
      /\ worker[w] # Idle /\ events' = [events EXCEPT ![worker[w].job] = @ + 1]
      /\ GoTo(w, "done", worker[w].now)
  BY DEF Publish, Return, Idle
<1>2. /\ events \in [JobIds -> {0, 1}] /\ worker[w].job \in JobIds
      /\ \E next \in Worker : worker' = [worker EXCEPT ![w] = next]
  BY <1>1, WorkerType, GoToMoves DEF LifeInv, EventsInv
<1>3. \A id \in JobIds : events'[id] = IF id = worker[w].job THEN events[id] + 1 ELSE events[id]
  BY <1>1, <1>2
<1>4. \A id \in JobIds : events[id] \in {0, 1}
  BY <1>2
<1>5. \A id \in JobIds : /\ Announced(id) => Announced(id)'
                         /\ WorkerPublishes(w, id) => Announced(id)'
  BY <1>1, <1>3, <1>4 DEF Announced, WorkerPublishes
<1>6. \A id \in JobIds : Committed(id)' => Committed(id)
  BY <1>1, CommittedRests DEF tables
<1> QED BY <1>1, <1>2, <1>5, <1>6, WorkerKeepsNews

LEMMA TakeKeepsNews ==
  ASSUME LifeInv, NewsInv, NEW w \in Workers, NEW job \in JobIds, TakeJob(w, job)
  PROVE  NewsInv'
<1>1. /\ worker[w] = Idle /\ UNCHANGED <<clock, tables, handler, news, spent>>
      /\ \E next : worker' = [worker EXCEPT ![w] = next]
  BY DEF TakeJob
<1>2. \A id \in JobIds : (Committed(id)' => Committed(id)) /\ (Announced(id) => Announced(id)')
  BY <1>1, CommittedRests, AnnouncedRests DEF tables, news
<1>3. \A id \in JobIds : ~WorkerPublishes(w, id)
  BY <1>1 DEF WorkerPublishes
<1> QED BY <1>1, <1>2, <1>3, WorkerKeepsNews

LEMMA WorkerFaultKeepsNews ==
  ASSUME LifeInv, NewsInv, NEW w \in Workers, JobFails(w) \/ WorkerCrash(w) \/ WorkerStalls(w)
  PROVE  NewsInv'
<1>1. /\ worker[w] # Idle /\ UNCHANGED <<clock, tables, handler>>
      /\ events' = events /\ silenced \subseteq silenced'
  BY DEF JobFails, WorkerCrash, WorkerStalls, Silence, news
<1>2. \A id \in JobIds : (Committed(id)' => Committed(id)) /\ (Announced(id) => Announced(id)')
  BY <1>1, CommittedRests, AnnouncedRests DEF tables
<1>3. CASE JobFails(w) \/ WorkerCrash(w)
  <2>1. worker' = [worker EXCEPT ![w] = Idle]
    BY <1>3 DEF JobFails, WorkerCrash, Throw, Report
  <2>2. \A id \in JobIds : WorkerPublishes(w, id) => Announced(id)'
    BY <1>3 DEF JobFails, WorkerCrash, Silence, WorkerPublishes, Announced
  <2> QED BY <1>1, <1>2, <2>1, <2>2, WorkerKeepsNews
<1>4. CASE WorkerStalls(w)
  <2> DEFINE next == [worker[w] EXCEPT !.locked = FALSE]
  <2>1. worker' = [worker EXCEPT ![w] = next]
    BY <1>4 DEF WorkerStalls
  <2>2. worker[w] \in Worker
    BY <1>1, WorkerType DEF LifeInv
  <2>3. next \in Worker /\ next.stage = worker[w].stage /\ next.job = worker[w].job
    BY <2>2 DEF Worker
  <2>4. next # Idle
    BY <2>3, KindsOfRecords
  <2> HIDE DEF next
  <2>5. \A id \in JobIds : WorkerPublishes(w, id) =>
          next # Idle /\ next.stage = "publish" /\ next.job = id
    BY <2>3, <2>4 DEF WorkerPublishes
  <2> QED BY <1>1, <1>2, <2>1, <2>5, WorkerKeepsNews
<1> QED BY <1>3, <1>4

(* The requests *)
LEMMA RequestKeepsNews ==
  ASSUME LifeInv, NewsInv, NEW h \in Handlers,
         CreateRequest(h) \/ EditRequest(h) \/ CancelScheduledAuction(h)
  PROVE  NewsInv'
<1>1. /\ handler[h] = Idle /\ clock' = clock /\ worker' = worker
      /\ events' = events /\ silenced' = silenced
  BY DEF CreateRequest, EditRequest, CancelScheduledAuction, news
<1>2. PICK next : /\ handler' = [handler EXCEPT ![h] = next]
                  /\ next # Idle => Undisturbed(next)
  <2>1. CASE CreateRequest(h)
    <3>1. PICK a \in Auctions, user \in Users, terms \in Terms :
            /\ terms.endTime > clock
            /\ handler' = [handler EXCEPT ![h] =
                 [stage |-> "checked", op |-> "create", auction |-> a, user |-> user,
                  terms |-> terms, now |-> clock, calls |-> {}, failed |-> FALSE]]
      BY <2>1 DEF CreateRequest, Become
    <3>2. Undisturbed([stage |-> "checked", op |-> "create", auction |-> a, user |-> user,
                       terms |-> terms, now |-> clock, calls |-> {}, failed |-> FALSE])
      BY <3>1 DEF Undisturbed
    <3> QED BY <3>1, <3>2
  <2>2. CASE EditRequest(h)
    <3>1. PICK a \in Auctions, terms \in Terms :
            handler' = [handler EXCEPT ![h] =
              [stage |-> "checked", op |-> "edit", auction |-> a, user |-> auction[a].sellerId,
               terms |-> terms, now |-> clock, calls |-> {}, failed |-> FALSE]]
      BY <2>2 DEF EditRequest, Become
    <3>2. Undisturbed([stage |-> "checked", op |-> "edit", auction |-> a, user |-> auction[a].sellerId,
                       terms |-> terms, now |-> clock, calls |-> {}, failed |-> FALSE])
      BY DEF Undisturbed
    <3> QED BY <3>1, <3>2
  <2>3. CASE CancelScheduledAuction(h)
    <3>1. PICK a \in Auctions :
            handler' = [handler EXCEPT ![h] =
              [stage |-> "removing", op |-> "cancel", auction |-> a, user |-> auction[a].sellerId,
               terms |-> CHOOSE terms \in Terms : TRUE, now |-> 0, calls |-> Kinds,
               failed |-> FALSE]]
      BY <2>3 DEF CancelScheduledAuction, Become
    <3>2. Undisturbed([stage |-> "removing", op |-> "cancel", auction |-> a,
                       user |-> auction[a].sellerId, terms |-> CHOOSE terms \in Terms : TRUE,
                       now |-> 0, calls |-> Kinds, failed |-> FALSE])
      BY DEF Undisturbed
    <3> QED BY <3>1, <3>2
  <2> QED BY <2>1, <2>2, <2>3
<1>3. \A id \in JobIds : Committed(id)' => Committed(id)
  <2>1. CASE auction' = auction
    BY <2>1, CommittedRests
  <2>2. CASE CancelScheduledAuction(h)
    <3>1. PICK a \in Auctions : auction' = [auction EXCEPT ![a].status = "CANCELLED"]
      BY <2>2 DEF CancelScheduledAuction
    <3>2. \A b \in Auctions : auction'[b] = IF b = a THEN [auction[a] EXCEPT !.status = "CANCELLED"]
                                            ELSE auction[b]
      BY <3>1, RowTypes
    <3>3. [auction[a] EXCEPT !.status = "CANCELLED"].status = "CANCELLED"
      BY RowTypes DEF Auction
    <3> QED BY <3>2, <3>3, IdsOfJobs DEF Committed
  <2> QED BY <2>1, <2>2 DEF CreateRequest, EditRequest, tables
<1>4. \A id \in JobIds : (Announced(id) => Announced(id)') /\ ~Proclaims(handler[h], id)
  BY <1>1, AnnouncedRests DEF Proclaims
<1> QED BY <1>1, <1>2, <1>3, <1>4, HandlerKeepsNews

LEMMA InsertKeepsNews ==
  ASSUME LifeInv, NewsInv, NEW h \in Handlers, InsertAuction(h)
  PROVE  NewsInv'
<1> DEFINE me   == handler[h]
           next == [me EXCEPT !.stage = "adding",
                              !.calls = IF BornLive(h) THEN {"end"} ELSE Kinds]
<1>1. /\ me # Idle /\ me.stage = "checked" /\ me.op = "create"
      /\ auction' = [auction EXCEPT ![me.auction] = NewRow(me.user, me.terms, me.now)]
      /\ handler' = [handler EXCEPT ![h] = next] /\ clock' = clock /\ worker' = worker
      /\ events' = events /\ silenced' = silenced
  BY DEF InsertAuction, In, Become, Idle, news
<1>2. me \in Handler /\ me.terms.startTime \in Nat /\ me.now \in Nat /\ me.auction \in Auctions
  BY <1>1, HandlerType, TermsType DEF LifeInv
<1>3. /\ next \in Handler /\ next.stage = "adding" /\ next.op = "create" /\ next.terms = me.terms
      /\ next.now = me.now /\ next.auction = me.auction
      /\ next.calls = IF BornLive(h) THEN {"end"} ELSE Kinds
  BY <1>1, <1>2 DEF Handler, Kinds
<1>4. next # Idle
  BY <1>3, KindsOfRecords
<1>5. Undisturbed(next)
  <2>1. me.terms.endTime > clock
    BY <1>1 DEF NewsInv, Undisturbed
  <2>2. me.terms.startTime <= me.now => next.calls = {"end"}
    BY <1>3 DEF BornLive
  <2> QED BY <1>3, <2>1, <2>2 DEF Undisturbed
<1>6. NewRow(me.user, me.terms, me.now).status =
        IF me.terms.startTime > me.now THEN "SCHEDULED" ELSE "LIVE"
  BY DEF NewRow, Rescheduled, NoRow
<1> HIDE DEF next, me
<1>7. \A a \in Auctions : auction'[a] = IF a = me.auction THEN NewRow(me.user, me.terms, me.now)
                                                          ELSE auction[a]
  BY <1>1, RowTypes
<1>8. ASSUME NEW id \in JobIds, Committed(id)', ~Committed(id) PROVE Proclaims(next, id)
  <2>1. id[1] = me.auction
    BY <1>7, <1>8, IdsOfJobs DEF Committed
  <2>2. id[2] = "start" /\ me.terms.startTime <= me.now
    BY <1>2, <1>6, <1>7, <1>8, <2>1, IdsOfJobs DEF Committed, Kinds
  <2>3. id = <<next.auction, "start">>
    BY <1>3, <2>1, <2>2, IdsOfJobs
  <2> QED BY <1>3, <1>4, <2>2, <2>3 DEF Proclaims
<1>9. \A id \in JobIds : (Announced(id) => Announced(id)') /\ ~Proclaims(handler[h], id)
  BY <1>1, AnnouncedRests DEF Proclaims, me
<1> QED BY <1>1, <1>5, <1>8, <1>9, HandlerKeepsNews

LEMMA UpdateKeepsNews ==
  ASSUME LifeInv, NewsInv, NEW h \in Handlers, UpdateAuction(h)
  PROVE  NewsInv'
<1> DEFINE me == handler[h]
<1>1. /\ me # Idle /\ me.op = "edit" /\ clock' = clock /\ worker' = worker
      /\ events' = events /\ silenced' = silenced
  BY DEF UpdateAuction, In, Idle, news
<1>2. me \in Handler /\ me.auction \in Auctions
  BY <1>1, HandlerType DEF LifeInv
<1>3. PICK next : /\ handler' = [handler EXCEPT ![h] = next]
                  /\ next # Idle => Undisturbed(next)
  <2> DEFINE new == [me EXCEPT !.stage = "removing", !.calls = Kinds]
  <2>1. handler' = [handler EXCEPT ![h] = new] \/ handler' = [handler EXCEPT ![h] = Idle]
    BY DEF UpdateAuction, Become
  <2>2. new.op = "edit"
    BY <1>1, <1>2 DEF Handler
  <2> HIDE DEF new
  <2>3. Undisturbed(new)
    BY <2>2 DEF Undisturbed
  <2> QED BY <2>1, <2>3
<1>4. \A id \in JobIds : Committed(id)' => Committed(id)
  <2>1. CASE auction' = auction
    BY <2>1, CommittedRests
  <2>2. CASE auction' # auction
    <3> DEFINE row == Rescheduled(auction[me.auction], me.terms)
    <3>1. auction[me.auction].status = "SCHEDULED" /\ auction' = [auction EXCEPT ![me.auction] = row]
      BY <2>2 DEF UpdateAuction, SellerMayChange
    <3>2. row.status = "SCHEDULED"
      BY <1>2, <3>1, RowTypes DEF Rescheduled, Auction
    <3> HIDE DEF row
    <3>3. \A b \in Auctions : auction'[b] = IF b = me.auction THEN row ELSE auction[b]
      BY <3>1, RowTypes
    <3> QED BY <3>2, <3>3, IdsOfJobs DEF Committed
  <2> QED BY <2>1, <2>2
<1>5. \A id \in JobIds : (Announced(id) => Announced(id)') /\ ~Proclaims(handler[h], id)
  BY <1>1, AnnouncedRests DEF Proclaims
<1> QED BY <1>1, <1>3, <1>4, <1>5, HandlerKeepsNews

(* The additions of a create that is born live: the one job it has to add is  *)
(* still ahead, and the request goes on to its publication.                  *)
LEMMA RemoveKeepsNews ==
  ASSUME LifeInv, NewsInv, NEW h \in Handlers, NEW kind \in Kinds, RemoveJob(h, kind)
  PROVE  NewsInv'
<1>1. /\ handler[h] # Idle /\ handler[h].stage = "removing" /\ UNCHANGED <<clock, tables>>
      /\ clock' = clock /\ worker' = worker /\ events' = events /\ silenced' = silenced
  BY DEF RemoveJob, Idle, news
<1> DEFINE left == [handler[h] EXCEPT !.calls = @ \ {kind},
                                       !.failed = @ \/ ~Removable(queue, <<handler[h].auction, kind>>)]
           next == AfterRemovals(left)
<1>2. handler' = [handler EXCEPT ![h] = next]
  BY DEF RemoveJob, Become
<1>3. next # Idle => Undisturbed(next)
  <2>1. handler[h] \in Handler /\ handler[h].calls \subseteq Kinds /\ handler[h].failed \in BOOLEAN
    BY <1>1, HandlerType DEF LifeInv
  <2>2. left \in Handler /\ left.stage = "removing"
    <3>1. /\ handler[h].calls \ {kind} \in SUBSET Kinds
          /\ (handler[h].failed \/ ~Removable(queue, <<handler[h].auction, kind>>)) \in BOOLEAN
      BY <2>1
    <3> QED BY <1>1, <2>1, <3>1 DEF Handler
  <2> HIDE DEF left
  <2> DEFINE ahead == {other \in Kinds : RunAt(left.terms, other) > clock}
  <2>3. \/ next = Idle
        \/ next = left
        \/ left.op = "edit" /\ next = [left EXCEPT !.stage = "adding", !.calls = ahead]
    BY DEF AfterRemovals
  <2> HIDE DEF next, ahead
  <2>4. next = Idle \/ next = left \/ next.op = "edit"
    BY <2>2, <2>3 DEF Handler
  <2> QED BY <2>2, <2>4 DEF Undisturbed
<1>4. \A id \in JobIds : /\ Committed(id)' => Committed(id)
                         /\ Announced(id) => Announced(id)'
                         /\ ~Proclaims(handler[h], id)
  BY <1>1, CommittedRests, AnnouncedRests DEF tables, Proclaims
<1> QED BY <1>1, <1>2, <1>3, <1>4, HandlerKeepsNews

LEMMA AddKeepsNews ==
  ASSUME LifeInv, NewsInv, NEW h \in Handlers, NEW kind \in Kinds, AddJob(h, kind)
  PROVE  NewsInv'
<1> DEFINE me    == handler[h]
           new   == [me EXCEPT !.calls = @ \ {kind}]
           ahead == me.op = "edit" \/ RunAt(me.terms, kind) > clock
           next  == AfterAdd(new, ahead)
<1>1. /\ me # Idle /\ me.stage = "adding" /\ kind \in me.calls /\ UNCHANGED <<clock, tables>>
      /\ clock' = clock /\ worker' = worker /\ events' = events /\ silenced' = silenced
      /\ handler' = [handler EXCEPT ![h] = next]
  BY DEF AddJob, Become, Idle, news
<1>2. me \in Handler /\ Undisturbed(me)
  BY <1>1, HandlerType DEF LifeInv, NewsInv
<1>3. /\ new \in Handler /\ new.stage = "adding" /\ new.op = me.op /\ new.terms = me.terms
      /\ new.now = me.now /\ new.auction = me.auction /\ new.calls \subseteq me.calls
  <2>1. me.calls \ {kind} \in SUBSET Kinds
    BY <1>2 DEF Handler
  <2> QED BY <1>1, <1>2, <2>1 DEF Handler
<1>4. \A id \in JobIds : (Committed(id)' => Committed(id)) /\ (Announced(id) => Announced(id)')
  BY <1>1, CommittedRests, AnnouncedRests DEF tables
<1>5. ASSUME NEW id \in JobIds, Proclaims(me, id) PROVE ahead
  <2>1. me.terms.endTime > clock /\ kind = "end"
    BY <1>1, <1>2, <1>5 DEF Proclaims, Undisturbed, Kinds
  <2> QED BY <2>1 DEF RunAt
<1> HIDE DEF new, ahead, me
<1>6. \/ next = Idle /\ (~ahead \/ new.op # "create" \/ ~(new.terms.startTime <= new.now))
      \/ next = new
      \/ /\ next = [new EXCEPT !.stage = "publish"]
         /\ new.op = "create" /\ new.terms.startTime <= new.now
  BY DEF AfterAdd
<1>7. CASE next = Idle /\ (~ahead \/ new.op # "create" \/ ~(new.terms.startTime <= new.now))
  <2>1. \A id \in JobIds : ~Proclaims(handler[h], id)
    BY <1>1, <1>3, <1>5, <1>7 DEF Proclaims, me
  <2> QED BY <1>1, <1>4, <1>7, <2>1, HandlerKeepsNews
<1>8. CASE next = new
  <2>1. new # Idle
    BY <1>3, KindsOfRecords
  <2>2. \A id \in JobIds : Proclaims(handler[h], id) => Proclaims(new, id)
    BY <1>1, <1>3, <2>1 DEF Proclaims, me
  <2>3. Undisturbed(new)
    BY <1>1, <1>2, <1>3 DEF Undisturbed
  <2> QED BY <1>1, <1>4, <1>8, <2>2, <2>3, HandlerKeepsNews
<1>9. CASE /\ next = [new EXCEPT !.stage = "publish"]
           /\ new.op = "create" /\ new.terms.startTime <= new.now
  <2>1. /\ next \in Handler /\ next.stage = "publish" /\ next.op = new.op
        /\ next.auction = new.auction /\ next.terms = new.terms /\ next.now = new.now
    BY <1>3, <1>9 DEF Handler
  <2>2. next # Idle
    BY <2>1, KindsOfRecords
  <2> HIDE DEF next
  <2>3. \A id \in JobIds : Proclaims(handler[h], id) => Proclaims(next, id)
    BY <1>3, <1>9, <2>1, <2>2 DEF Proclaims, me
  <2>4. Undisturbed(next)
    BY <1>9, <2>1 DEF Undisturbed
  <2> QED BY <1>1, <1>4, <2>3, <2>4, HandlerKeepsNews
<1> QED BY <1>6, <1>7, <1>8, <1>9

LEMMA HandlerEndKeepsNews ==
  ASSUME LifeInv, NewsInv, NEW h \in Handlers, PublishBornLive(h) \/ HandlerFails(h)
  PROVE  NewsInv'
<1>1. /\ handler[h] # Idle /\ UNCHANGED <<clock, tables>> /\ clock' = clock /\ worker' = worker
      /\ handler' = [handler EXCEPT ![h] = Idle]
  BY DEF PublishBornLive, HandlerFails, In, Become, Idle
<1>2. PICK id \in JobIds : id = <<handler[h].auction, "start">>
  BY <1>1, HandlerType DEF LifeInv, JobIds, Kinds
<1>3. \A other \in JobIds : Committed(other)' => Committed(other)
  BY <1>1, CommittedRests DEF tables
<1>4. CASE PublishBornLive(h)
  <2>1. events' = [events EXCEPT ![id] = @ + 1] /\ silenced' = silenced
    BY <1>2, <1>4 DEF PublishBornLive
  <2>2. events \in [JobIds -> {0, 1}]
    BY DEF LifeInv, EventsInv
  <2>3. \A other \in JobIds : /\ events'[other] = IF other = id THEN events[id] + 1 ELSE events[other]
                              /\ events[other] \in {0, 1}
    BY <2>1, <2>2
  <2>4. \A other \in JobIds : /\ Announced(other) => Announced(other)'
                              /\ Proclaims(handler[h], other) => Announced(other)'
    BY <1>2, <2>1, <2>3 DEF Announced, Proclaims
  <2> QED BY <1>1, <1>3, <2>4, HandlerKeepsNews
<1>5. CASE HandlerFails(h)
  <2>1. events' = events /\ silenced \subseteq silenced'
    BY <1>5 DEF HandlerFails, Silence
  <2>2. ASSUME NEW other \in JobIds, Proclaims(handler[h], other) PROVE Announced(other)'
    <3>1. handler[h].op = "create" /\ handler[h].stage # "checked" /\ other = id
      BY <1>2, <2>2 DEF Proclaims
    <3>2. CASE BornLive(h)
      BY <1>2, <1>5, <3>1, <3>2 DEF HandlerFails, Silence, Announced
    <3>3. CASE ~BornLive(h)
      BY <1>1, <2>2, <3>1, <3>3 DEF Proclaims, NewsInv, Undisturbed, BornLive
    <3> QED BY <3>2, <3>3
  <2> QED BY <1>1, <1>3, <2>1, <2>2, AnnouncedRests, HandlerKeepsNews
<1> QED BY <1>4, <1>5

(* Whoever is in the middle of its work keeps the clock from moving on.        *)
LEMMA TimeKeepsNews ==
  ASSUME "server" \in Prompt, LifeInv, NewsInv, PassTime
  PROVE  NewsInv'
<1>1. /\ \A h \in Handlers : handler[h] = Idle
      /\ handler' = handler /\ worker' = worker /\ auction' = auction
      /\ events' = events /\ silenced' = silenced
  BY DEF PassTime, ServerSettled, Tick, tables, news
<1>2. \A p \in Publishers, id \in JobIds : Publishes(p, id) => Publishes(p, id)'
  BY <1>1 DEF Publishes, WorkerPublishes, HandlerPublishes, BornLive
<1>3. \A id \in JobIds : Committed(id)' => Foretold(id)'
  BY <1>1, <1>2, CommittedRests, AnnouncedRests DEF NewsInv, Foretold, Publishers
<1> QED BY <1>1, <1>3 DEF NewsInv

LEMMA NewsRest ==
  ASSUME NewsInv, clock' = clock, auction' = auction, handler' = handler, worker' = worker,
         events' = events, silenced' = silenced
  PROVE  NewsInv'
<1>1. \A p \in Publishers, id \in JobIds : Publishes(p, id) => Publishes(p, id)'
  BY DEF Publishes, WorkerPublishes, HandlerPublishes, BornLive
<1>2. \A id \in JobIds : Committed(id)' => Foretold(id)'
  BY <1>1, CommittedRests, AnnouncedRests DEF NewsInv, Foretold, Publishers
<1> QED BY <1>2 DEF NewsInv, Undisturbed

LEMMA NewsKept ==
  ASSUME "server" \in Prompt, LifeInv, NewsInv, [Next]_vars
  PROVE  NewsInv'
<1>1. CASE PassTime
  BY <1>1, TimeKeepsNews
<1>2. ASSUME NEW h \in Handlers,
             CreateRequest(h) \/ EditRequest(h) \/ CancelScheduledAuction(h)
               \/ HandlerStep(h) \/ HandlerFails(h)
      PROVE  NewsInv'
  BY <1>2, RequestKeepsNews, InsertKeepsNews, UpdateKeepsNews, RemoveKeepsNews, AddKeepsNews,
     HandlerEndKeepsNews DEF HandlerStep
<1>3. ASSUME NEW w \in Workers,
             WorkerStep(w) \/ JobFails(w) \/ WorkerCrash(w) \/ WorkerStalls(w)
               \/ \E id \in JobIds : TakeJob(w, id)
      PROVE  NewsInv'
  BY <1>3, ReadKeepsNews, WorkerWriteKeepsNews, PublishKeepsNews, TakeKeepsNews,
     WorkerFaultKeepsNews DEF WorkerStep
<1>4. CASE \E id \in JobIds : RecoverJob(id)
  BY <1>4, NewsRest DEF RecoverJob, tables, news
<1>5. CASE UNCHANGED vars
  BY <1>5, NewsRest DEF vars, tables, news
<1> QED BY <1>1, <1>2, <1>3, <1>4, <1>5 DEF Next

LEMMA NewsInitial == Init => NewsInv
<1> SUFFICES ASSUME Init PROVE NewsInv
  OBVIOUS
<1>1. /\ \A h \in Handlers : handler[h] = Idle
      /\ \A a \in Auctions : auction[a].status = "NONE"
  BY DEF Init, NoRow
<1> QED BY <1>1, IdsOfJobs DEF NewsInv, Committed

(* createAuctionService, auction.worker.ts: whatever fails, stalls, is retried *)
(* or races, for any number of auctions, requests, workers and faults: once   *)
(* nobody is at work, a committed start or end has been announced, unless its *)
(* publisher failed between its commit and its publication. Time is assumed   *)
(* to wait for the server: a create that is still adding its END job when     *)
(* endTime comes gives up, and its start is not announced.                   *)
THEOREM EventsNeverForgotten ==
  ASSUME "server" \in Prompt
  PROVE  Spec => []NoEventIsForgotten
<1>1. LifeInv /\ NewsInv /\ [Next]_vars => NewsInv'
  BY NewsKept
<1>2. NewsInv => NoEventIsForgotten
  <2> SUFFICES ASSUME NewsInv PROVE NoEventIsForgotten
    OBVIOUS
  <2> DEFINE AtRest == ServerSettled /\ \A w \in Workers : worker[w] = Idle
  <2>1. AtRest => \A p \in Publishers, id \in JobIds : ~Publishes(p, id)
    BY DEF ServerSettled, Publishers, Publishes, WorkerPublishes, HandlerPublishes
  <2>2. AtRest => \A id \in JobIds : Committed(id) => Announced(id)
    <3> HIDE DEF AtRest
    <3> QED BY <2>1 DEF NewsInv, Foretold
  <2>3. ASSUME NEW a \in Auctions, AtRest
        PROVE  /\ auction[a].status \in {"LIVE", "ENDED"} => Announced(<<a, "start">>)
               /\ auction[a].status = "ENDED" => Announced(<<a, "end">>)
    <3>1. <<a, "start">> \in JobIds /\ <<a, "end">> \in JobIds
      BY IdsOfJobs DEF Kinds
    <3>2. /\ Committed(<<a, "start">>) => Announced(<<a, "start">>)
          /\ Committed(<<a, "end">>) => Announced(<<a, "end">>)
      BY <2>2, <2>3, <3>1
    <3> QED BY <3>2 DEF Committed
  <2> QED BY <2>3, Zenon DEF NoEventIsForgotten
<1> QED BY <1>1, <1>2, NewsInitial, LifeInvHolds, PTL DEF Spec

------------------------------------------------------------------------------
(* The jobs follow the row, unless a mishap of the auction takes them away *)

HasTerms(row, terms) == row.startTime = terms.startTime /\ row.endTime = terms.endTime

(* A request between its commit and its last call to the queue: what it has   *)
(* removed is gone, what it has added is there and fits the row.             *)
OnSchedule(me) ==
  /\ HasTerms(auction[me.auction], me.terms)
  /\ me.stage = "removing" =>
       /\ me.op = "edit" /\ ~me.failed
       /\ \A kind \in Kinds : kind \notin me.calls => queue[<<me.auction, kind>>] = NoJob
  /\ me.stage = "adding" =>
       \A kind \in Kinds :
         IF kind \in me.calls THEN queue[<<me.auction, kind>>] = NoJob
         ELSE Pending(me.auction, kind) => Queued(me.auction, kind)

(* A job that is missing, or has another moment than the row, belongs to the  *)
(* one request that is scheduling it.                                        *)
Served(a) ==
  /\ \A g, h \in Handlers : Scheduling(g, a) /\ Scheduling(h, a) => g = h
  /\ \A h \in Handlers : Scheduling(h, a) => OnSchedule(handler[h])
  /\ \A kind \in Kinds :
       Pending(a, kind) => Queued(a, kind) \/ \E h \in Handlers : Scheduling(h, a)

(* What holds of an auction after a mishap too: nothing is removed for a      *)
(* request but a cancel or an edit, and a job is completed only when its     *)
(* change is committed.                                                      *)
Prepared(me) ==
  /\ me.stage = "checked" => ~me.failed
  /\ me.stage # "checked" => Exists(me.auction)
  /\ me.op = "cancel" => me.stage = "removing" /\ auction[me.auction].status = "CANCELLED"
HandlersPrepared == \A h \in Handlers : handler[h] # Idle => Prepared(handler[h])
DoneIsCommitted ==
  \A w \in Workers : worker[w] # Idle /\ worker[w].stage \in {"publish", "done"} =>
    Committed(worker[w].job)
NoRowNoJob == \A a \in Auctions, kind \in Kinds : ~Exists(a) => queue[<<a, kind>>] = NoJob

JobsInv ==
  /\ HandlersPrepared /\ DoneIsCommitted /\ NoRowNoJob
  /\ \A a \in Auctions \ mishaps : Served(a)

(* The same of a step of the lifecycle, before the history is brought up to   *)
(* date.                                                                     *)
JobsStep ==
  /\ HandlersPrepared' /\ DoneIsCommitted' /\ NoRowNoJob'
  /\ \A a \in Auctions \ mishaps : ~Mishap(a) => Served(a)'

(* A step that neither begins nor ends the scheduling of an auction, makes    *)
(* none of its jobs needed, and leaves those that are needed where they are. *)
LEMMA ServedRests ==
  ASSUME NEW a \in Auctions, Served(a),
         \A h \in Handlers : Scheduling(h, a)' <=> Scheduling(h, a),
         \A h \in Handlers : Scheduling(h, a) => handler'[h] = handler[h],
         HasTerms(auction'[a], auction[a]),
         \A kind \in Kinds : Pending(a, kind)' => Pending(a, kind),
         \A kind \in Kinds : queue[<<a, kind>>] = NoJob => queue'[<<a, kind>>] = NoJob,
         \A kind \in Kinds : Pending(a, kind)' /\ queue[<<a, kind>>] # NoJob =>
           queue'[<<a, kind>>] # NoJob /\ queue'[<<a, kind>>].runAt = queue[<<a, kind>>].runAt
  PROVE  Served(a)'
<1>1. \A kind \in Kinds : Pending(a, kind)' /\ Queued(a, kind) => Queued(a, kind)'
  BY DEF Queued, RunAt, HasTerms
<1>2. ASSUME NEW h \in Handlers, Scheduling(h, a) PROVE OnSchedule(handler[h])'
  <2>1. OnSchedule(handler[h]) /\ handler[h].auction = a /\ handler'[h] = handler[h]
    BY <1>2 DEF Served, Scheduling
  <2>2. HasTerms(auction'[a], handler[h].terms)
    BY <2>1 DEF OnSchedule, HasTerms
  <2>3. \A kind \in Kinds :
          (Pending(a, kind) => Queued(a, kind)) => (Pending(a, kind)' => Queued(a, kind)')
    BY <1>1
  <2> QED BY <2>1, <2>2, <2>3 DEF OnSchedule
<1>3. \A h \in Handlers : Scheduling(h, a)' => OnSchedule(handler[h])'
  BY <1>2
<1>4. \A kind \in Kinds :
        Pending(a, kind)' => Queued(a, kind)' \/ \E h \in Handlers : Scheduling(h, a)'
  BY <1>1 DEF Served
<1>5. \A g, h \in Handlers : Scheduling(g, a)' /\ Scheduling(h, a)' => g = h
  BY DEF Served
<1> QED BY <1>3, <1>4, <1>5 DEF Served

LEMMA PreparedRests ==
  ASSUME HandlersPrepared, NEW h \in Handlers, NEW next,
         handler \in [Handlers -> {Idle} \cup Handler],
         handler' = [handler EXCEPT ![h] = next],
         next = Idle \/ Prepared(next)',
         \A a \in Auctions : /\ Exists(a) => Exists(a)'
                             /\ auction[a].status = "CANCELLED" => auction'[a].status = "CANCELLED"
  PROVE  HandlersPrepared'
<1>1. ASSUME NEW g \in Handlers, g # h, handler[g] # Idle PROVE Prepared(handler[g])'
  <2>1. Prepared(handler[g]) /\ handler[g].auction \in Auctions
    BY <1>1 DEF HandlersPrepared, Handler
  <2>2. handler'[g] = handler[g]
    BY <1>1
  <2> QED BY <2>1, <2>2 DEF Prepared
<1>2. \A g \in Handlers : handler'[g] = IF g = h THEN next ELSE handler[g]
  OBVIOUS
<1> QED BY <1>1, <1>2 DEF HandlersPrepared, Prepared

LEMMA DoneRests ==
  ASSUME DoneIsCommitted, NEW w \in Workers, NEW next,
         worker \in [Workers -> {Idle} \cup Worker],
         worker' = [worker EXCEPT ![w] = next],
         next # Idle /\ next.stage \in {"publish", "done"} => Committed(next.job)',
         \A id \in JobIds : Committed(id) => Committed(id)'
  PROVE  DoneIsCommitted'
<1>1. ASSUME NEW v \in Workers, v # w, worker[v] # Idle, worker[v].stage \in {"publish", "done"}
      PROVE  Committed(worker[v].job)'
  <2>1. Committed(worker[v].job) /\ worker[v].job \in JobIds /\ worker'[v] = worker[v]
    BY <1>1 DEF DoneIsCommitted, Worker
  <2>2. PICK id \in JobIds : id = worker[v].job
    BY <2>1
  <2> QED BY <2>1, <2>2 DEF Committed
<1>2. \A v \in Workers : worker'[v] = IF v = w THEN next ELSE worker[v]
  OBVIOUS
<1> QED BY <1>1, <1>2 DEF DoneIsCommitted, Committed

------------------------------------------------------------------------------
(* The steps that leave the requests alone *)

(* A job that is needed stays where it is, unless the step is a mishap.      *)
JobStays(id) ==
  /\ queue[id] = NoJob => queue'[id] = NoJob
  /\ queue[id] # NoJob /\ Pending(id[1], id[2]) /\ ~Mishap(id[1]) =>
       queue'[id] # NoJob /\ queue'[id].runAt = queue[id].runAt
RowStays(a) ==
  /\ HasTerms(auction'[a], auction[a]) /\ (Exists(a)' <=> Exists(a))
  /\ auction[a].status = "CANCELLED" => auction'[a].status = "CANCELLED"
  /\ \A kind \in Kinds : Pending(a, kind)' => Pending(a, kind)

LEMMA RequestsRest ==
  ASSUME LifeInv, JobsInv, handler' = handler, DoneIsCommitted',
         \A a \in Auctions : RowStays(a), \A id \in JobIds : JobStays(id)
  PROVE  JobsStep
<1>1. HandlersPrepared'
  <2> SUFFICES ASSUME NEW h \in Handlers, handler[h] # Idle PROVE Prepared(handler[h])'
    BY DEF HandlersPrepared, Prepared
  <2>1. Prepared(handler[h]) /\ handler[h].auction \in Auctions
    BY HandlerType DEF JobsInv, HandlersPrepared, LifeInv
  <2>2. RowStays(handler[h].auction) /\ handler'[h] = handler[h]
    BY <2>1
  <2> QED BY <2>1, <2>2 DEF Prepared, RowStays
<1>2. NoRowNoJob'
  BY IdsOfJobs DEF JobsInv, NoRowNoJob, RowStays, JobStays
<1>3. ASSUME NEW a \in Auctions \ mishaps, ~Mishap(a) PROVE Served(a)'
  <2>1. Served(a) /\ RowStays(a)
    BY DEF JobsInv
  <2>2. \A h \in Handlers : Scheduling(h, a)' <=> Scheduling(h, a)
    BY DEF Scheduling
  <2>3. \A kind \in Kinds : <<a, kind>> \in JobIds /\ <<a, kind>>[1] = a /\ <<a, kind>>[2] = kind
    BY IdsOfJobs
  <2>4. ASSUME NEW kind \in Kinds
        PROVE  /\ queue[<<a, kind>>] = NoJob => queue'[<<a, kind>>] = NoJob
               /\ Pending(a, kind)' /\ queue[<<a, kind>>] # NoJob =>
                    /\ queue'[<<a, kind>>] # NoJob
                    /\ queue'[<<a, kind>>].runAt = queue[<<a, kind>>].runAt
    <3>1. JobStays(<<a, kind>>)
      BY <2>3
    <3>2. Pending(a, kind)' => Pending(a, kind)
      BY <2>1 DEF RowStays
    <3> QED BY <1>3, <2>3, <3>1, <3>2 DEF JobStays
  <2>5. HasTerms(auction'[a], auction[a]) /\ \A kind \in Kinds : Pending(a, kind)' => Pending(a, kind)
    BY <2>1 DEF RowStays
  <2> QED BY <2>1, <2>2, <2>4, <2>5, ServedRests
<1> QED BY <1>1, <1>2, <1>3 DEF JobsStep

(* Handing a job out, another attempt and the first stall leave its moment.  *)
LEMMA SameJob ==
  ASSUME LifeInv, NEW id \in JobIds, queue[id] # NoJob,
         \/ queue' = Take(queue, id)
         \/ queue' = Retry(queue, id) /\ queue[id].tries # Attempts - 1
         \/ queue' = Unstall(queue, id) /\ ~queue[id].stalled
  PROVE  /\ queue'[id] # NoJob /\ queue'[id].runAt = queue[id].runAt
         /\ \A other \in JobIds : other # id => queue'[other] = queue[other]
<1>1. QueueType /\ queue[id] \in Job
  BY DEF LifeInv, QueueInv, QueueType
<1>2. PICK new :
        /\ queue' = [queue EXCEPT ![id] = new] /\ new \in Job /\ new.runAt = queue[id].runAt
  <2>1. CASE queue' = Take(queue, id)
    <3> DEFINE new == [queue[id] EXCEPT !.state = "active"]
    <3>1. new \in Job /\ new.runAt = queue[id].runAt
      BY <1>1 DEF Job
    <3>2. queue' = [queue EXCEPT ![id] = new]
      BY <2>1 DEF Take
    <3> HIDE DEF new
    <3> QED BY <3>1, <3>2
  <2>2. CASE queue' = Retry(queue, id) /\ queue[id].tries # Attempts - 1
    <3> DEFINE new == [queue[id] EXCEPT !.state = "waiting", !.tries = queue[id].tries + 1]
    <3>1. queue[id].tries + 1 \in 0 .. Attempts - 1
      BY <1>1, <2>2 DEF Job, Attempts
    <3>2. new \in Job /\ new.runAt = queue[id].runAt
      BY <1>1, <3>1 DEF Job
    <3>3. queue' = [queue EXCEPT ![id] = new]
      BY <1>1, <2>2 DEF Retry
    <3> HIDE DEF new
    <3> QED BY <3>2, <3>3
  <2>3. CASE queue' = Unstall(queue, id) /\ ~queue[id].stalled
    <3> DEFINE new == [queue[id] EXCEPT !.state = "waiting", !.stalled = TRUE]
    <3>1. new \in Job /\ new.runAt = queue[id].runAt
      BY <1>1 DEF Job
    <3>2. queue' = [queue EXCEPT ![id] = new]
      BY <1>1, <2>3 DEF Unstall
    <3> HIDE DEF new
    <3> QED BY <3>1, <3>2
  <2> QED BY <2>1, <2>2, <2>3
<1> QED BY <1>1, <1>2, KindsOfRecords DEF QueueType

LEMMA CommittedIsDone ==
  ASSUME NEW id \in JobIds, Committed(id)
  PROVE  ~Pending(id[1], id[2])
  BY IdsOfJobs DEF Committed, Pending, Kinds

LEMMA ThrowKeepsJobs ==
  ASSUME LifeInv, NEW w \in Workers, worker[w] # Idle, Throw(w)
  PROVE  \A id \in JobIds : JobStays(id)
<1>1. PICK id \in JobIds : worker[w].job = id
  BY WorkerType DEF LifeInv
<1>2. CASE queue' = queue
  BY <1>2 DEF JobStays
<1>3. CASE worker[w].locked /\ queue' = Retry(queue, id)
  <2>1. queue[id] # NoJob /\ QueueType
    BY <1>1, <1>3 DEF LifeInv, QueueInv, LocksHeld, Holds
  <2>2. CASE queue[id].tries # Attempts - 1
    BY <1>3, <2>1, <2>2, SameJob DEF JobStays
  <2>3. CASE queue[id].tries = Attempts - 1
    <3>1. GivenUp(id)
      BY <1>1, <1>3, <2>1, <2>3 DEF GivenUp
    <3>2. Pending(id[1], id[2]) => Mishap(id[1])
      BY <3>1, IdsOfJobs DEF Mishap
    <3>3. \A other \in JobIds : other # id => queue'[other] = queue[other]
      BY <1>3, <2>1, <2>3, RemoveOfJob DEF Retry
    <3> QED BY <2>1, <3>2, <3>3 DEF JobStays
  <2> QED BY <2>2, <2>3
<1> QED BY <1>1, <1>2, <1>3 DEF Throw, Report

(* A worker that reads, writes, publishes or reports. *)
LEMMA WorkerKeepsJobs ==
  ASSUME LifeInv, JobsInv, NEW w \in Workers, NEW next, handler' = handler,
         worker' = [worker EXCEPT ![w] = next],
         next # Idle /\ next.stage \in {"publish", "done"} => Committed(next.job)',
         \A id \in JobIds : Committed(id) => Committed(id)',
         \A a \in Auctions : RowStays(a), \A id \in JobIds : JobStays(id)
  PROVE  JobsStep
<1>1. worker \in [Workers -> {Idle} \cup Worker] /\ DoneIsCommitted
  BY DEF LifeInv, QueueInv, QueueType, JobsInv
<1>2. DoneIsCommitted'
  BY <1>1, DoneRests
<1> QED BY <1>2, RequestsRest

LEMMA RowsRest ==
  ASSUME auction' = auction
  PROVE  /\ \A a \in Auctions : RowStays(a)
         /\ \A id \in JobIds : Committed(id) => Committed(id)'
  BY DEF RowStays, HasTerms, Exists, Pending, Committed

(* A row goes on along its diagram. *)
LEMMA RowGoesOn ==
  ASSUME LifeInv, NEW a \in Auctions, NEW row, auction' = [auction EXCEPT ![a] = row],
         HasTerms(row, auction[a]),
         <<auction[a].status, row.status>> \in
           {<<"SCHEDULED", "LIVE">>, <<"SCHEDULED", "CANCELLED">>, <<"LIVE", "ENDED">>}
  PROVE  /\ \A b \in Auctions : RowStays(b)
         /\ \A id \in JobIds : Committed(id) => Committed(id)'
<1>1. /\ auction'[a] = row /\ \A b \in Auctions : b # a => auction'[b] = auction[b]
  BY RowTypes
<1>2. RowStays(a)
  BY <1>1 DEF RowStays, Exists, Pending, Kinds
<1>3. \A b \in Auctions : b # a => RowStays(b)
  BY <1>1 DEF RowStays, HasTerms, Exists, Pending
<1>4. ASSUME NEW id \in JobIds, Committed(id) PROVE Committed(id)'
  <2>1. CASE id[1] = a
    BY <1>1, <1>4, <2>1 DEF Committed
  <2>2. CASE id[1] # a
    BY <1>1, <1>4, <2>2, IdsOfJobs DEF Committed
  <2> QED BY <2>1, <2>2
<1> QED BY <1>2, <1>3, <1>4

LEMMA ReadKeepsJobs ==
  ASSUME LifeInv, JobsInv, NEW w \in Workers, StartRead(w) \/ EndRead(w)
  PROVE  JobsStep
<1>1. /\ worker[w] # Idle /\ worker[w].now \in Nat /\ clock \in Nat /\ QueueInv
      /\ auction' = auction /\ handler' = handler
      /\ GoTo(w, "write", clock) \/ (Return(w) /\ Committed(worker[w].job)) \/ Throw(w)
  <2>1. worker[w] # Idle
    BY DEF StartRead, EndRead, ReadRow, At, Idle
  <2>2. GoTo(w, "write", clock) \/ (Return(w) /\ Committed(worker[w].job)) \/ Throw(w)
    BY DEF StartRead, EndRead, ReadRow, At, Row, Committed
  <2> QED BY <2>1, <2>2, WorkerType, ClockType DEF StartRead, EndRead, ReadRow, tables, LifeInv
<1>2. (\A a \in Auctions : RowStays(a)) /\ (\A id \in JobIds : Committed(id) => Committed(id)')
  BY <1>1, RowsRest
<1>3. CASE Throw(w)
  <2>1. worker' = [worker EXCEPT ![w] = Idle]
    BY <1>3 DEF Throw, Report
  <2> QED BY <1>1, <1>2, <1>3, <2>1, ThrowKeepsJobs, WorkerKeepsJobs
<1>4. CASE GoTo(w, "write", clock)
  <2>1. PICK next \in Worker : worker' = [worker EXCEPT ![w] = next] /\ next.stage = "write"
    BY <1>1, <1>4, GoToMoves
  <2>2. \A id \in JobIds : JobStays(id)
    BY <1>4 DEF GoTo, JobStays
  <2> QED BY <1>1, <1>2, <2>1, <2>2, WorkerKeepsJobs
<1>5. CASE Return(w) /\ Committed(worker[w].job)
  <2>1. PICK next \in Worker : worker' = [worker EXCEPT ![w] = next] /\ next.job = worker[w].job
    BY <1>1, <1>5, GoToMoves DEF Return
  <2>2. \A id \in JobIds : JobStays(id)
    BY <1>5 DEF Return, GoTo, JobStays
  <2>3. Committed(next.job)'
    BY <1>1, <1>5, <2>1 DEF Committed
  <2> QED BY <1>1, <1>2, <2>1, <2>2, <2>3, WorkerKeepsJobs
<1> QED BY <1>1, <1>3, <1>4, <1>5

LEMMA WriteKeepsJobs ==
  ASSUME LifeInv, JobsInv, NEW w \in Workers, StartWrite(w) \/ EndWrite(w)
  PROVE  JobsStep
<1>1. worker[w] # Idle /\ handler' = handler /\ UNCHANGED <<clock, bids>>
  BY DEF StartWrite, EndWrite, At, Idle
<1>2. PICK id \in JobIds : worker[w].job = id
  BY <1>1, WorkerType DEF LifeInv
<1>3. /\ worker[w].now \in Nat /\ QueueInv /\ id[1] \in Auctions
      /\ auction[id[1]] \in Auction /\ auction \in [Auctions -> Auction]
  BY <1>1, WorkerType, IdsOfJobs, RowTypes DEF LifeInv
<1>4. ASSUME NEW row, auction' = [auction EXCEPT ![id[1]] = row], HasTerms(row, auction[id[1]]),
             <<auction[id[1]].status, row.status>> \in {<<"SCHEDULED", "LIVE">>, <<"LIVE", "ENDED">>},
             Committed(id)', GoTo(w, "publish", worker[w].now)
      PROVE  JobsStep
  <2>1. PICK next \in Worker : worker' = [worker EXCEPT ![w] = next] /\ next.stage = "publish"
                               /\ next.job = id
    BY <1>1, <1>2, <1>3, <1>4, GoToMoves
  <2>2. \A other \in JobIds : JobStays(other)
    BY <1>4 DEF GoTo, JobStays
  <2>3. (\A a \in Auctions : RowStays(a)) /\ \A other \in JobIds : Committed(other) => Committed(other)'
    BY <1>3, <1>4, RowGoesOn
  <2>4. Committed(next.job)'
    BY <1>4, <2>1 DEF Committed
  <2> QED BY <1>1, <2>1, <2>2, <2>3, <2>4, WorkerKeepsJobs
<1>5. CASE StartWrite(w) /\ StartAllowed(Row(w), worker[w].now)
  <2>1. /\ StartAllowed(auction[id[1]], worker[w].now) /\ id[2] = "start"
        /\ auction' = [auction EXCEPT ![id[1]].status = "LIVE"]
        /\ GoTo(w, "publish", worker[w].now)
    BY <1>2, <1>5 DEF StartWrite, At, Row
  <2>2. Committed(id)'
    BY <1>1, <1>2, <2>1, StartWriteIsAllowed
  <2> DEFINE row == [auction[id[1]] EXCEPT !.status = "LIVE"]
  <2>3. /\ HasTerms(row, auction[id[1]]) /\ row.status = "LIVE"
        /\ auction[id[1]].status = "SCHEDULED"
    BY <1>3, <2>1 DEF HasTerms, Auction, StartAllowed
  <2>4. auction' = [auction EXCEPT ![id[1]] = row]
    BY <2>1
  <2> HIDE DEF row
  <2> QED BY <1>4, <2>1, <2>2, <2>3, <2>4
<1>6. CASE EndWrite(w) /\ EndAllowed(Row(w), worker[w].now)
  <2>1. EndAllowed(auction[id[1]], worker[w].now) /\ id[2] = "end" /\ GoTo(w, "publish", worker[w].now)
    BY <1>2, <1>6 DEF EndWrite, At, Row
  <2>2. PICK best \in WinningBids(bids[id[1]]) :
          auction' = [auction EXCEPT ![id[1]] = Finalized(auction[id[1]], bids[id[1]], best)]
    BY <1>2, <1>6 DEF EndWrite, Row
  <2>3. Committed(id)'
    BY <1>1, <1>2, <2>1, <2>2, EndWriteIsAllowed
  <2> DEFINE row == Finalized(auction[id[1]], bids[id[1]], best)
  <2>4. HasTerms(row, auction[id[1]]) /\ row.status = "ENDED" /\ auction[id[1]].status = "LIVE"
    BY <1>3, <2>1 DEF HasTerms, Auction, EndAllowed, Finalized
  <2>5. auction' = [auction EXCEPT ![id[1]] = row]
    BY <2>2
  <2> HIDE DEF row
  <2> QED BY <1>4, <2>1, <2>3, <2>4, <2>5
<1>7. CASE Throw(w) /\ auction' = auction
  <2>1. worker' = [worker EXCEPT ![w] = Idle]
    BY <1>7 DEF Throw, Report
  <2>2. (\A a \in Auctions : RowStays(a)) /\ \A other \in JobIds : Committed(other) => Committed(other)'
    BY <1>7, RowsRest
  <2> QED BY <1>1, <1>7, <2>1, <2>2, ThrowKeepsJobs, WorkerKeepsJobs
<1>8. CASE EndWrite(w) /\ Row(w).status = "ENDED" /\ Return(w) /\ auction' = auction
  <2>1. PICK next \in Worker : worker' = [worker EXCEPT ![w] = next] /\ next.job = id
    BY <1>1, <1>2, <1>3, <1>8, GoToMoves DEF Return
  <2>2. \A other \in JobIds : JobStays(other)
    BY <1>8 DEF Return, GoTo, JobStays
  <2>3. (\A a \in Auctions : RowStays(a)) /\ \A other \in JobIds : Committed(other) => Committed(other)'
    BY <1>8, RowsRest
  <2>4. Committed(next.job)'
    BY <1>2, <1>8, <2>1 DEF Committed, Row
  <2> QED BY <1>1, <2>1, <2>2, <2>3, <2>4, WorkerKeepsJobs
<1> QED BY <1>5, <1>6, <1>7, <1>8 DEF StartWrite, EndWrite

LEMMA ReportKeepsJobs ==
  ASSUME LifeInv, JobsInv, NEW w \in Workers, Publish(w) \/ CompleteJob(w)
  PROVE  JobsStep
<1>1. worker[w] # Idle /\ handler' = handler /\ auction' = auction
      /\ worker[w].stage \in {"publish", "done"}
  BY DEF Publish, CompleteJob, Idle, tables
<1>2. worker[w].now \in Nat /\ QueueInv /\ Committed(worker[w].job)
  BY <1>1, WorkerType DEF LifeInv, JobsInv, DoneIsCommitted
<1>3. (\A a \in Auctions : RowStays(a)) /\ (\A id \in JobIds : Committed(id) => Committed(id)')
  BY <1>1, RowsRest
<1>4. CASE Publish(w)
  <2>1. PICK next \in Worker : worker' = [worker EXCEPT ![w] = next] /\ next.job = worker[w].job
    BY <1>1, <1>2, <1>4, GoToMoves DEF Publish, Return
  <2>2. \A id \in JobIds : JobStays(id)
    BY <1>4 DEF Publish, Return, GoTo, JobStays
  <2>3. Committed(next.job)'
    BY <1>1, <1>2, <2>1 DEF Committed
  <2> QED BY <1>1, <1>3, <2>1, <2>2, <2>3, WorkerKeepsJobs
<1>5. CASE CompleteJob(w)
  <2>1. PICK id \in JobIds : worker[w].job = id
    BY <1>1, <1>2, WorkerType
  <2>2. /\ worker' = [worker EXCEPT ![w] = Idle]
        /\ queue' = queue \/ queue' = Remove(queue, id)
    BY <1>5, <2>1 DEF CompleteJob, Report, Complete
  <2>3. ~Pending(id[1], id[2])
    BY <1>2, <2>1, CommittedIsDone
  <2>4. /\ queue' = queue \/ queue'[id] = NoJob
        /\ \A other \in JobIds : other # id => queue'[other] = queue[other]
    BY <1>2, <2>2, RemoveOfJob DEF QueueInv, QueueType, Remove
  <2>5. \A other \in JobIds : JobStays(other)
    BY <2>3, <2>4 DEF JobStays
  <2> QED BY <1>1, <1>3, <2>2, <2>5, WorkerKeepsJobs
<1> QED BY <1>4, <1>5

LEMMA TakeKeepsJobs ==
  ASSUME LifeInv, JobsInv, NEW w \in Workers, NEW id \in JobIds, TakeJob(w, id)
  PROVE  JobsStep
<1> DEFINE next == [stage |-> "read", job |-> id, now |-> 0, locked |-> TRUE]
<1>1. /\ worker' = [worker EXCEPT ![w] = next] /\ handler' = handler /\ auction' = auction
      /\ queue[id] # NoJob /\ queue' = Take(queue, id)
  BY DEF TakeJob, tables, Ready
<1>2. (\A a \in Auctions : RowStays(a)) /\ (\A other \in JobIds : Committed(other) => Committed(other)')
  BY <1>1, RowsRest
<1>3. \A other \in JobIds : JobStays(other)
  BY <1>1, SameJob DEF JobStays
<1>4. next.stage = "read"
  OBVIOUS
<1> HIDE DEF next
<1> QED BY <1>1, <1>2, <1>3, <1>4, WorkerKeepsJobs

LEMMA WorkerFaultKeepsJobs ==
  ASSUME LifeInv, JobsInv, NEW w \in Workers, JobFails(w) \/ WorkerCrash(w) \/ WorkerStalls(w)
  PROVE  JobsStep
<1>1. worker[w] # Idle /\ handler' = handler /\ auction' = auction
  BY DEF JobFails, WorkerCrash, WorkerStalls, tables
<1>2. (\A a \in Auctions : RowStays(a)) /\ (\A id \in JobIds : Committed(id) => Committed(id)')
  BY <1>1, RowsRest
<1>3. CASE JobFails(w)
  <2>1. Throw(w) /\ worker' = [worker EXCEPT ![w] = Idle]
    BY <1>3 DEF JobFails, Throw, Report
  <2> QED BY <1>1, <1>2, <2>1, ThrowKeepsJobs, WorkerKeepsJobs
<1>4. CASE WorkerCrash(w)
  <2>1. worker' = [worker EXCEPT ![w] = Idle] /\ \A id \in JobIds : JobStays(id)
    BY <1>4 DEF WorkerCrash, JobStays
  <2> QED BY <1>1, <1>2, <2>1, WorkerKeepsJobs
<1>5. CASE WorkerStalls(w)
  <2> DEFINE new == [worker[w] EXCEPT !.locked = FALSE]
  <2>1. worker[w] \in Worker
    BY <1>1, WorkerType DEF LifeInv
  <2>2. new.job = worker[w].job /\ new.stage = worker[w].stage
    BY <2>1 DEF Worker
  <2>3. worker' = [worker EXCEPT ![w] = new] /\ \A id \in JobIds : JobStays(id)
    BY <1>5 DEF WorkerStalls, JobStays
  <2>4. PICK next : next = new
    OBVIOUS
  <2> HIDE DEF new
  <2>5. next.stage \in {"publish", "done"} => Committed(next.job)'
    BY <1>1, <2>2, <2>4 DEF JobsInv, DoneIsCommitted, Committed
  <2> QED BY <1>1, <1>2, <2>3, <2>4, <2>5, WorkerKeepsJobs
<1> QED BY <1>3, <1>4, <1>5

LEMMA RecoverKeepsJobs ==
  ASSUME LifeInv, JobsInv, NEW id \in JobIds, RecoverJob(id)
  PROVE  JobsStep
<1>1. /\ handler' = handler /\ auction' = auction /\ worker' = worker
      /\ queue[id] # NoJob /\ queue' = Unstall(queue, id) /\ QueueType
  BY DEF RecoverJob, Abandoned, tables, LifeInv, QueueInv
<1>2. \A a \in Auctions : RowStays(a)
  BY <1>1, RowsRest
<1>3. DoneIsCommitted'
  BY <1>1 DEF JobsInv, DoneIsCommitted, Committed
<1>4. CASE ~queue[id].stalled
  <2>1. \A other \in JobIds : JobStays(other)
    BY <1>1, <1>4, SameJob DEF JobStays
  <2> QED BY <1>1, <1>2, <1>3, <2>1, RequestsRest
<1>5. CASE queue[id].stalled
  <2>1. Pending(id[1], id[2]) => Mishap(id[1])
    BY <1>5, IdsOfJobs DEF Mishap, GivenUp
  <2>2. \A other \in JobIds : other # id => queue'[other] = queue[other]
    BY <1>1, <1>5, RemoveOfJob DEF Unstall
  <2>3. \A other \in JobIds : JobStays(other)
    BY <1>1, <2>1, <2>2 DEF JobStays
  <2> QED BY <1>1, <1>2, <1>3, <2>3, RequestsRest
<1> QED BY <1>4, <1>5

LEMMA StillKeepsJobs ==
  ASSUME LifeInv, JobsInv, UNCHANGED <<auction, handler, worker, queue>>
  PROVE  JobsStep
<1>1. \A a \in Auctions : RowStays(a)
  BY RowsRest
<1>2. DoneIsCommitted' /\ \A id \in JobIds : JobStays(id)
  BY DEF JobsInv, DoneIsCommitted, Committed, JobStays
<1> QED BY <1>1, <1>2, RequestsRest

------------------------------------------------------------------------------
(* The steps of the requests *)

(* A request that works on one auction. *)
WorksOn(h, next, a) ==
  /\ handler' = [handler EXCEPT ![h] = next] /\ worker' = worker
  /\ handler[h] # Idle => handler[h].auction = a
  /\ next # Idle => next.auction = a /\ Prepared(next)'
  /\ \A b \in Auctions : b # a =>
       auction'[b] = auction[b] /\ \A kind \in Kinds : queue'[<<b, kind>>] = queue[<<b, kind>>]
  /\ Exists(a) => Exists(a)'
  /\ ~Exists(a)' => \A kind \in Kinds : queue'[<<a, kind>>] = NoJob
  /\ auction[a].status = "CANCELLED" => auction'[a].status = "CANCELLED"
  /\ \A id \in JobIds : Committed(id) => Committed(id)'

LEMMA HandlerKeepsJobs ==
  ASSUME LifeInv, JobsInv, NEW h \in Handlers, NEW next \in {Idle} \cup Handler,
         NEW a \in Auctions, WorksOn(h, next, a),
         a \notin mishaps /\ ~Mishap(a) => Served(a)'
  PROVE  JobsStep
<1>1. handler \in [Handlers -> {Idle} \cup Handler]
      /\ \A g \in Handlers : handler'[g] = IF g = h THEN next ELSE handler[g]
  BY DEF LifeInv, HandlersInv, WorksOn
<1>2. HandlersPrepared'
  <2>1. next = Idle \/ Prepared(next)'
    BY DEF WorksOn
  <2>2. \A b \in Auctions :
          /\ Exists(b) => Exists(b)'
          /\ auction[b].status = "CANCELLED" => auction'[b].status = "CANCELLED"
    BY DEF WorksOn, Exists
  <2> QED BY <1>1, <2>1, <2>2, PreparedRests DEF JobsInv, WorksOn
<1>3. DoneIsCommitted'
  <2> SUFFICES ASSUME NEW w \in Workers, worker[w] # Idle, worker[w].stage \in {"publish", "done"}
               PROVE  Committed(worker[w].job)'
    BY DEF DoneIsCommitted, WorksOn
  <2>1. PICK id \in JobIds : id = worker[w].job
    BY WorkerType DEF LifeInv
  <2>2. Committed(id)'
    BY <2>1 DEF JobsInv, DoneIsCommitted, WorksOn
  <2> QED BY <2>1, <2>2 DEF WorksOn, Committed
<1>4. NoRowNoJob'
  BY DEF JobsInv, NoRowNoJob, WorksOn, Exists
<1>5. ASSUME NEW b \in Auctions \ mishaps, b # a PROVE Served(b)'
  <2>1. Served(b) /\ auction'[b] = auction[b]
        /\ \A kind \in Kinds : queue'[<<b, kind>>] = queue[<<b, kind>>]
    BY <1>5 DEF JobsInv, WorksOn
  <2>2. ~Scheduling(h, b) /\ ~Scheduling(h, b)'
    BY <1>1, <1>5 DEF Scheduling, WorksOn
  <2>3. \A g \in Handlers : /\ Scheduling(g, b)' <=> Scheduling(g, b)
                            /\ Scheduling(g, b) => handler'[g] = handler[g]
    BY <1>1, <2>2 DEF Scheduling
  <2>4. HasTerms(auction'[b], auction[b]) /\ \A kind \in Kinds : Pending(b, kind)' => Pending(b, kind)
    BY <2>1 DEF HasTerms, Pending
  <2> QED BY <2>1, <2>3, <2>4, ServedRests
<1>6. \A b \in Auctions \ mishaps : ~Mishap(b) => Served(b)'
  BY <1>5
<1> QED BY <1>2, <1>3, <1>4, <1>6 DEF JobsStep

(* A request that is not scheduling jobs, before and after its step.         *)
Aside(it) == it = Idle \/ it.op = "cancel" \/ it.stage \notin {"removing", "adding"}

LEMMA AsideKeepsJobs ==
  ASSUME LifeInv, JobsInv, NEW h \in Handlers, NEW next \in {Idle} \cup Handler,
         NEW a \in Auctions, WorksOn(h, next, a), Aside(handler[h]), Aside(next),
         HasTerms(auction'[a], auction[a]),
         \A kind \in Kinds : Pending(a, kind)' =>
           Pending(a, kind) /\ queue'[<<a, kind>>] = queue[<<a, kind>>],
         \A kind \in Kinds : queue[<<a, kind>>] = NoJob => queue'[<<a, kind>>] = NoJob
  PROVE  JobsStep
<1>1. \A g \in Handlers : handler'[g] = IF g = h THEN next ELSE handler[g]
  BY DEF LifeInv, HandlersInv, WorksOn
<1>2. ~Scheduling(h, a) /\ ~Scheduling(h, a)'
  BY <1>1 DEF Scheduling, Aside
<1>3. \A g \in Handlers : /\ Scheduling(g, a)' <=> Scheduling(g, a)
                          /\ Scheduling(g, a) => handler'[g] = handler[g]
  BY <1>1, <1>2 DEF Scheduling
<1>4. a \notin mishaps => Served(a)'
  <2> SUFFICES ASSUME Served(a) PROVE Served(a)'
    BY DEF JobsInv
  <2> QED BY <1>3, ServedRests
<1> QED BY <1>4, HandlerKeepsJobs

(* The one request that schedules the jobs of its auction, or has just        *)
(* finished.                                                                 *)
LEMMA SchedulerServes ==
  ASSUME LifeInv, NEW h \in Handlers, NEW next \in {Idle} \cup Handler,
         NEW a \in Auctions, handler' = [handler EXCEPT ![h] = next],
         \A g \in Handlers : g # h => ~Scheduling(g, a),
         next # Idle => next.auction = a,
         ~Aside(next) => OnSchedule(next)',
         Aside(next) => \A kind \in Kinds : Pending(a, kind)' => Queued(a, kind)'
  PROVE  Served(a)'
<1>1. \A g \in Handlers : handler'[g] = IF g = h THEN next ELSE handler[g]
  BY DEF LifeInv, HandlersInv
<1>2. \A g \in Handlers : Scheduling(g, a)' => g = h /\ ~Aside(next)
  BY <1>1 DEF Scheduling, Aside
<1>3. ~Aside(next) => Scheduling(h, a)'
  BY <1>1 DEF Scheduling, Aside
<1>4. \A g \in Handlers : Scheduling(g, a)' => OnSchedule(handler[g])'
  <2> SUFFICES ASSUME NEW g \in Handlers, Scheduling(g, a)' PROVE OnSchedule(handler[g])'
    OBVIOUS
  <2>1. handler'[g] = next /\ OnSchedule(next)'
    BY <1>1, <1>2
  <2> QED BY <2>1 DEF OnSchedule, Pending, Queued
<1>5. \A kind \in Kinds :
        Pending(a, kind)' => Queued(a, kind)' \/ \E g \in Handlers : Scheduling(g, a)'
  BY <1>3
<1>6. \A f, g \in Handlers : Scheduling(f, a)' /\ Scheduling(g, a)' => f = g
  BY <1>2
<1> QED BY <1>4, <1>5, <1>6 DEF Served

LEMMA StillWorksOn ==
  ASSUME LifeInv, JobsInv, UNCHANGED <<auction, queue, worker>>, NEW h \in Handlers,
         NEW next, NEW a \in Auctions, handler' = [handler EXCEPT ![h] = next],
         handler[h] # Idle => handler[h].auction = a, Aside(handler[h]),
         next # Idle => next.auction = a /\ Prepared(next)', Aside(next),
         next \in {Idle} \cup Handler
  PROVE  JobsStep
<1>1. Exists(a)' <=> Exists(a)
  BY DEF Exists
<1>2. \A kind \in Kinds : ~Exists(a) => queue[<<a, kind>>] = NoJob
  BY DEF JobsInv, NoRowNoJob
<1>3. WorksOn(h, next, a)
  BY <1>1, <1>2 DEF WorksOn, Committed
<1>4. HasTerms(auction'[a], auction[a]) /\ \A kind \in Kinds : Pending(a, kind)' => Pending(a, kind)
  BY DEF HasTerms, Pending
<1> QED BY <1>3, <1>4, AsideKeepsJobs

LEMMA RequestKeepsJobs ==
  ASSUME LifeInv, JobsInv, NEW h \in Handlers, CreateRequest(h) \/ EditRequest(h)
  PROVE  JobsStep
<1>1. handler[h] = Idle /\ UNCHANGED <<auction, queue, worker>>
  BY DEF CreateRequest, EditRequest, tables
<1>2. PICK a \in Auctions, op \in {"create", "edit"}, user \in Users, terms \in Terms :
        handler' = [handler EXCEPT ![h] =
          [stage |-> "checked", op |-> op, auction |-> a, user |-> user,
           terms |-> terms, now |-> clock, calls |-> {}, failed |-> FALSE]]
  <2>1. CASE CreateRequest(h)
    BY <2>1 DEF CreateRequest, Become
  <2>2. CASE EditRequest(h)
    <3>1. PICK a \in Auctions, terms \in Terms :
            /\ SellerMayChange(auction[a], auction[a].sellerId)
            /\ handler' = [handler EXCEPT ![h] =
                 [stage |-> "checked", op |-> "edit", auction |-> a,
                  user |-> auction[a].sellerId, terms |-> terms, now |-> clock,
                  calls |-> {}, failed |-> FALSE]]
      BY <2>2 DEF EditRequest, Become
    <3>2. auction[a].sellerId \in Users
      BY <3>1 DEF LifeInv, Owned, Exists, SellerMayChange
    <3> QED BY <3>1, <3>2
  <2> QED BY <2>1, <2>2
<1> DEFINE new == [stage |-> "checked", op |-> op, auction |-> a, user |-> user,
                   terms |-> terms, now |-> clock, calls |-> {}, failed |-> FALSE]
<1>3. PICK next \in Handler :
        /\ next.stage = "checked" /\ next.op # "cancel" /\ next.auction = a /\ ~next.failed
        /\ handler' = [handler EXCEPT ![h] = next]
  <2>1. /\ new \in Handler /\ new.stage = "checked" /\ new.op # "cancel" /\ new.auction = a
        /\ ~new.failed
    BY ClockType DEF Handler
  <2>2. handler' = [handler EXCEPT ![h] = new]
    BY <1>2
  <2> HIDE DEF new
  <2> QED BY <2>1, <2>2
<1>4. Prepared(next)' /\ Aside(next) /\ Aside(handler[h])
  BY <1>1, <1>3 DEF Prepared, Aside
<1> QED BY <1>1, <1>3, <1>4, StillWorksOn

LEMMA CancelKeepsJobs ==
  ASSUME LifeInv, JobsInv, NEW h \in Handlers, CancelScheduledAuction(h)
  PROVE  JobsStep
<1>1. PICK a \in Auctions :
        /\ SellerMayChange(auction[a], auction[a].sellerId) /\ handler[h] = Idle
        /\ auction' = [auction EXCEPT ![a].status = "CANCELLED"]
        /\ handler' = [handler EXCEPT ![h] =
             [stage |-> "removing", op |-> "cancel", auction |-> a,
              user |-> auction[a].sellerId, terms |-> CHOOSE terms \in Terms : TRUE,
              now |-> 0, calls |-> Kinds, failed |-> FALSE]]
        /\ queue' = queue /\ worker' = worker
  BY DEF CancelScheduledAuction, Become
<1>2. auction[a].status = "SCHEDULED" /\ auction[a] \in Auction /\ auction \in [Auctions -> Auction]
  BY <1>1, RowTypes DEF SellerMayChange
<1>3. PICK row :
        /\ auction' = [auction EXCEPT ![a] = row] /\ HasTerms(row, auction[a])
        /\ row.status = "CANCELLED"
  <2>1. auction' = [auction EXCEPT ![a] = [auction[a] EXCEPT !.status = "CANCELLED"]]
    BY <1>1
  <2>2. /\ HasTerms([auction[a] EXCEPT !.status = "CANCELLED"], auction[a])
        /\ [auction[a] EXCEPT !.status = "CANCELLED"].status = "CANCELLED"
    BY <1>2 DEF HasTerms, Auction
  <2> QED BY <2>1, <2>2
<1>4. PICK next \in Handler :
        /\ next.stage = "removing" /\ next.op = "cancel" /\ next.auction = a
        /\ handler' = [handler EXCEPT ![h] = next]
  <2> DEFINE new == [stage |-> "removing", op |-> "cancel", auction |-> a,
                     user |-> auction[a].sellerId, terms |-> CHOOSE terms \in Terms : TRUE,
                     now |-> 0, calls |-> Kinds, failed |-> FALSE]
  <2>1. auction[a].sellerId \in Users /\ Terms # {}
    BY <1>2 DEF LifeInv, Owned, Exists
  <2>2. (CHOOSE terms \in Terms : TRUE) \in Terms
    BY <2>1
  <2>3. new \in Handler /\ new.stage = "removing" /\ new.op = "cancel" /\ new.auction = a
    BY <2>1, <2>2 DEF Handler
  <2>4. handler' = [handler EXCEPT ![h] = new]
    BY <1>1
  <2> HIDE DEF new
  <2> QED BY <2>3, <2>4
<1>5. auction'[a] = row /\ \A b \in Auctions : b # a => auction'[b] = auction[b]
  BY <1>2, <1>3
<1>6. \A id \in JobIds : Committed(id) => Committed(id)'
  BY <1>2, <1>3, RowGoesOn
<1>7. Prepared(next)' /\ Exists(a)'
  BY <1>3, <1>4, <1>5 DEF Prepared, Exists
<1>8. WorksOn(h, next, a)
  BY <1>1, <1>3, <1>4, <1>5, <1>6, <1>7 DEF WorksOn
<1>9. HasTerms(auction'[a], auction[a]) /\ \A kind \in Kinds : ~Pending(a, kind)'
  BY <1>3, <1>5 DEF Pending
<1>10. Aside(next) /\ Aside(handler[h])
  BY <1>1, <1>4 DEF Aside
<1> QED BY <1>1, <1>8, <1>9, <1>10, AsideKeepsJobs

LEMMA InsertKeepsJobs ==
  ASSUME LifeInv, JobsInv, NEW h \in Handlers, InsertAuction(h)
  PROVE  JobsStep
<1>1. /\ handler[h] # Idle /\ In(h, "checked", "create")
      /\ worker' = worker /\ queue' = queue
  BY DEF InsertAuction, In, Idle
<1>2. PICK me \in Handler : me = handler[h]
  BY <1>1, HandlerType DEF LifeInv
<1>3. PICK a \in Auctions, terms \in Terms : a = me.auction /\ terms = me.terms
  BY <1>1, <1>2, HandlerType DEF LifeInv
<1>4. ~Exists(a) /\ Alone(h, a) /\ me.now \in Nat /\ terms.startTime \in Nat
  BY <1>1, <1>2, <1>3, HandlerType, TermsType DEF LifeInv, HandlersInv, HandlerOK, Reserved
<1>5. PICK row :
        /\ auction' = [auction EXCEPT ![a] = row] /\ HasTerms(row, terms)
        /\ row.status = (IF terms.startTime > me.now THEN "SCHEDULED" ELSE "LIVE")
  <2>1. auction' = [auction EXCEPT ![a] = NewRow(me.user, terms, me.now)]
    BY <1>2, <1>3 DEF InsertAuction
  <2>2. /\ HasTerms(NewRow(me.user, terms, me.now), terms)
        /\ NewRow(me.user, terms, me.now).status =
             (IF terms.startTime > me.now THEN "SCHEDULED" ELSE "LIVE")
    BY DEF HasTerms, NewRow, Rescheduled, NoRow
  <2> QED BY <2>1, <2>2
<1>6. PICK next \in Handler :
        /\ next.stage = "adding" /\ next.op = "create" /\ next.auction = a /\ next.terms = terms
        /\ next.calls = (IF terms.startTime <= me.now THEN {"end"} ELSE Kinds)
        /\ handler' = [handler EXCEPT ![h] = next]
  <2> DEFINE new == [me EXCEPT !.stage = "adding",
                               !.calls = IF BornLive(h) THEN {"end"} ELSE Kinds]
  <2>1. handler' = [handler EXCEPT ![h] = new]
    BY <1>2 DEF InsertAuction, Become
  <2>2. BornLive(h) <=> terms.startTime <= me.now
    BY <1>2, <1>3 DEF BornLive
  <2>3. /\ new \in Handler /\ new.stage = "adding" /\ new.op = "create" /\ new.auction = a
        /\ new.terms = terms /\ new.calls = (IF terms.startTime <= me.now THEN {"end"} ELSE Kinds)
    BY <1>1, <1>2, <1>3, <2>2 DEF Handler, Kinds, In
  <2> HIDE DEF new
  <2> QED BY <2>1, <2>3
<1>7. auction'[a] = row /\ \A b \in Auctions : b # a => auction'[b] = auction[b]
  BY <1>5, RowTypes
<1>8. \A kind \in Kinds : queue'[<<a, kind>>] = NoJob
  BY <1>1, <1>4 DEF JobsInv, NoRowNoJob
<1>9. OnSchedule(next)'
  <2>1. HasTerms(row, terms) /\ auction'[a] = row /\ next.auction = a /\ next.terms = terms
        /\ next.stage = "adding"
    BY <1>5, <1>6, <1>7
  <2>2. ASSUME NEW kind \in Kinds, kind \notin next.calls PROVE ~Pending(a, kind)'
    <3>1. terms.startTime <= me.now /\ next.calls = {"end"}
      BY <1>6, <2>2
    <3>2. row.status = "LIVE"
      BY <1>4, <1>5, <3>1
    <3> QED BY <2>1, <2>2, <3>1, <3>2 DEF Pending, Kinds
  <2> QED BY <1>8, <2>1, <2>2 DEF OnSchedule, HasTerms
<1>10. \A id \in JobIds : Committed(id) => Committed(id)'
  <2> SUFFICES ASSUME NEW id \in JobIds, Committed(id) PROVE Committed(id)'
    OBVIOUS
  <2>1. id[1] # a /\ id[1] \in Auctions
    BY <1>4, IdsOfJobs DEF Committed, Exists
  <2> QED BY <1>7, <2>1 DEF Committed
<1>11. Exists(a)' /\ Prepared(next)'
  BY <1>5, <1>6, <1>7 DEF Exists, Prepared
<1>12. ~(auction[a].status = "CANCELLED")
  BY <1>4 DEF Exists
<1>13. WorksOn(h, next, a)
  BY <1>1, <1>2, <1>3, <1>6, <1>7, <1>10, <1>11, <1>12 DEF WorksOn
<1>14. (\A g \in Handlers : g # h => ~Scheduling(g, a)) /\ ~Aside(next)
  BY <1>4, <1>6, KindsOfRecords DEF Alone, Scheduling, Aside
<1>15. Served(a)'
  BY <1>6, <1>9, <1>14, SchedulerServes
<1> QED BY <1>13, <1>15, HandlerKeepsJobs

LEMMA UpdateKeepsJobs ==
  ASSUME LifeInv, JobsInv, NEW h \in Handlers, UpdateAuction(h)
  PROVE  JobsStep
<1>1. /\ handler[h] # Idle /\ In(h, "checked", "edit")
      /\ worker' = worker /\ queue' = queue /\ UNCHANGED <<clock, bids>>
  BY DEF UpdateAuction, In, Idle
<1>2. PICK me \in Handler : me = handler[h]
  BY <1>1, HandlerType DEF LifeInv
<1>3. PICK a \in Auctions, terms \in Terms : a = me.auction /\ terms = me.terms
  BY <1>1, <1>2, HandlerType DEF LifeInv
<1>4. me.op = "edit" /\ me.stage = "checked" /\ ~me.failed
  BY <1>1, <1>2 DEF In, JobsInv, HandlersPrepared, Prepared
<1>5. CASE auction' = auction /\ handler' = [handler EXCEPT ![h] = Idle]
  <2>1. Aside(handler[h]) /\ Aside(Idle)
    BY <1>2, <1>4 DEF Aside
  <2> QED BY <1>1, <1>2, <1>3, <1>5, <2>1, StillWorksOn
<1>6. CASE /\ auction[a].status = "SCHEDULED"
           /\ auction' = [auction EXCEPT ![a] = Rescheduled(auction[a], terms)]
           /\ handler' = [handler EXCEPT ![h] = [me EXCEPT !.stage = "removing", !.calls = Kinds]]
  <2>1. PICK next \in Handler :
          /\ next.stage = "removing" /\ next.op = "edit" /\ next.auction = a /\ next.terms = terms
          /\ next.calls = Kinds /\ ~next.failed
          /\ handler' = [handler EXCEPT ![h] = next]
    <3> DEFINE new == [me EXCEPT !.stage = "removing", !.calls = Kinds]
    <3>1. /\ new \in Handler /\ new.stage = "removing" /\ new.op = "edit" /\ new.auction = a
          /\ new.terms = terms /\ new.calls = Kinds /\ ~new.failed
      BY <1>3, <1>4 DEF Handler
    <3> HIDE DEF new
    <3> QED BY <1>6, <3>1 DEF new
  <2>2. PICK row : /\ auction' = [auction EXCEPT ![a] = row]
                   /\ HasTerms(row, terms) /\ row.status = "SCHEDULED"
    <3>1. auction[a] \in Auction
      BY RowTypes
    <3>2. HasTerms(Rescheduled(auction[a], terms), terms)
          /\ Rescheduled(auction[a], terms).status = "SCHEDULED"
      BY <1>6, <3>1 DEF HasTerms, Rescheduled, Auction
    <3> QED BY <1>6, <3>2
  <2>3. auction'[a] = row /\ \A b \in Auctions : b # a => auction'[b] = auction[b]
    BY <2>2, RowTypes
  <2>4. OnSchedule(next)'
    BY <2>1, <2>2, <2>3 DEF OnSchedule, HasTerms
  <2>5. \A id \in JobIds : Committed(id) => Committed(id)'
    <3> SUFFICES ASSUME NEW id \in JobIds, Committed(id) PROVE Committed(id)'
      OBVIOUS
    <3>1. id[1] # a /\ id[1] \in Auctions
      BY <1>6, IdsOfJobs DEF Committed
    <3> QED BY <2>3, <3>1 DEF Committed
  <2>6. Exists(a)' /\ Prepared(next)'
    BY <2>1, <2>2, <2>3 DEF Exists, Prepared
  <2>7. WorksOn(h, next, a)
    BY <1>1, <1>2, <1>3, <1>6, <2>1, <2>3, <2>5, <2>6 DEF WorksOn
  <2>8. ~Aside(next) /\ Scheduling(h, a)'
        /\ \A g \in Handlers : g # h /\ Scheduling(g, a) => Scheduling(g, a)'
    <3>1. \A g \in Handlers : handler'[g] = IF g = h THEN next ELSE handler[g]
      BY <2>1 DEF LifeInv, HandlersInv
    <3> QED BY <2>1, <3>1, KindsOfRecords DEF Aside, Scheduling
  <2>9. ~Mishap(a) => \A g \in Handlers : g # h => ~Scheduling(g, a)
    BY <2>8 DEF Mishap, Overlap
  <2>10. ~Mishap(a) => Served(a)'
    BY <2>1, <2>4, <2>8, <2>9, SchedulerServes
  <2> QED BY <2>7, <2>10, HandlerKeepsJobs
<1> QED BY <1>2, <1>3, <1>5, <1>6 DEF UpdateAuction, Become, SellerMayChange

LEMMA RemoveKeepsJobs ==
  ASSUME LifeInv, JobsInv, NEW h \in Handlers, NEW called \in Kinds, RemoveJob(h, called)
  PROVE  JobsStep
<1>1. /\ handler[h] # Idle /\ worker' = worker /\ auction' = auction /\ clock' = clock
  BY DEF RemoveJob, Idle, tables
<1>2. PICK me \in Handler : me = handler[h]
  BY <1>1, HandlerType DEF LifeInv
<1>3. PICK a \in Auctions, terms \in Terms : a = me.auction /\ terms = me.terms
  BY <1>1, <1>2, HandlerType DEF LifeInv
<1> DEFINE id  == <<a, called>>
           new == [me EXCEPT !.calls = @ \ {called}, !.failed = @ \/ ~Removable(queue, id)]
<1>4. /\ me.stage = "removing" /\ called \in me.calls /\ id \in JobIds
      /\ queue' = (IF Removable(queue, id) THEN Remove(queue, id) ELSE queue)
      /\ handler' = [handler EXCEPT ![h] = AfterRemovals(new)]
  BY <1>2, <1>3, IdsOfJobs DEF RemoveJob, Become
<1>5. /\ new \in Handler /\ new.stage = "removing" /\ new.op = me.op /\ new.auction = a
      /\ new.terms = terms /\ new.calls = me.calls \ {called}
      /\ new.failed = (me.failed \/ ~Removable(queue, id))
  BY <1>3, <1>4 DEF Handler
<1>6. PICK it \in Handler : it = new /\ handler' = [handler EXCEPT ![h] = AfterRemovals(it)]
  BY <1>4, <1>5
<1>7. /\ it.stage = "removing" /\ it.op = me.op /\ it.auction = a /\ it.terms = terms
      /\ it.calls = me.calls \ {called} /\ it.failed = (me.failed \/ ~Removable(queue, id))
  BY <1>5, <1>6
<1> HIDE DEF new
<1>8. /\ \A other \in JobIds : other # id => queue'[other] = queue[other]
      /\ queue[id] = NoJob => queue'[id] = NoJob
      /\ Removable(queue, id) => queue'[id] = NoJob
  <2>1. QueueType
    BY DEF LifeInv, QueueInv
  <2> HIDE DEF id
  <2> QED BY <1>4, <2>1, RemoveOfJob DEF Remove, QueueType, Removable
<1>9. /\ \A kind \in Kinds : kind # called => queue'[<<a, kind>>] = queue[<<a, kind>>]
      /\ \A b \in Auctions, kind \in Kinds : b # a => queue'[<<b, kind>>] = queue[<<b, kind>>]
  BY <1>8, IdsOfJobs
<1>10. Exists(a) /\ (me.op = "cancel" => auction[a].status = "CANCELLED")
  BY <1>1, <1>2, <1>3, <1>4 DEF JobsInv, HandlersPrepared, Prepared
<1>11. PICK next \in {Idle} \cup Handler :
         /\ next = AfterRemovals(it)
         /\ next # Idle =>
              /\ next.auction = a /\ next.terms = terms /\ next.op = me.op
              /\ next = it \/ (me.op = "edit" /\ next.stage = "adding")
  <2>1. \/ AfterRemovals(it) = it \/ AfterRemovals(it) = Idle
        \/ /\ it.op = "edit"
           /\ \E ahead \in SUBSET Kinds :
                AfterRemovals(it) = [it EXCEPT !.stage = "adding", !.calls = ahead]
    BY DEF AfterRemovals
  <2>2. ASSUME NEW ahead \in SUBSET Kinds
        PROVE  /\ [it EXCEPT !.stage = "adding", !.calls = ahead] \in Handler
               /\ [it EXCEPT !.stage = "adding", !.calls = ahead].stage = "adding"
               /\ [it EXCEPT !.stage = "adding", !.calls = ahead].auction = a
               /\ [it EXCEPT !.stage = "adding", !.calls = ahead].terms = terms
               /\ [it EXCEPT !.stage = "adding", !.calls = ahead].op = me.op
    BY <1>7 DEF Handler
  <2> QED BY <1>7, <2>1, <2>2
<1>12. handler' = [handler EXCEPT ![h] = next]
  BY <1>6, <1>11
<1>13. next # Idle => Prepared(next)'
  BY <1>1, <1>7, <1>10, <1>11 DEF Prepared, Exists
<1>14. WorksOn(h, next, a)
  BY <1>1, <1>2, <1>3, <1>9, <1>10, <1>11, <1>12, <1>13 DEF WorksOn, Exists, Committed
<1>15. CASE me.op = "cancel"
  <2>1. Aside(handler[h]) /\ Aside(next)
    BY <1>2, <1>11, <1>15 DEF Aside
  <2>2. HasTerms(auction'[a], auction[a]) /\ \A kind \in Kinds : ~Pending(a, kind)'
    BY <1>1, <1>10, <1>15 DEF HasTerms, Pending
  <2>3. \A kind \in Kinds : queue[<<a, kind>>] = NoJob => queue'[<<a, kind>>] = NoJob
    BY <1>8, <1>9
  <2> QED BY <1>14, <2>1, <2>2, <2>3, AsideKeepsJobs
<1>16. ASSUME me.op # "cancel", a \notin mishaps, ~Mishap(a) PROVE Served(a)'
  <2>1. Scheduling(h, a)
    BY <1>1, <1>2, <1>3, <1>4, <1>16 DEF Scheduling
  <2>2. OnSchedule(me) /\ \A g \in Handlers : g # h => ~Scheduling(g, a)
    BY <1>2, <1>16, <2>1 DEF JobsInv, Served
  <2>3. Removable(queue, id)
    BY <1>2, <1>3, <1>16, <2>1 DEF Mishap, RemovalThrows
  <2>4. /\ me.op = "edit" /\ ~me.failed /\ HasTerms(auction[a], terms)
        /\ \A kind \in Kinds : kind \notin me.calls => queue[<<a, kind>>] = NoJob
    BY <1>3, <1>4, <2>2 DEF OnSchedule
  <2>5. \A kind \in Kinds : kind \notin it.calls => queue'[<<a, kind>>] = NoJob
    BY <1>7, <1>8, <1>9, <2>3, <2>4
  <2>6. ~it.failed /\ it.op = "edit"
    BY <1>7, <2>3, <2>4
  <2>7. CASE it.calls # {}
    <3>1. next = it
      BY <1>11, <2>7 DEF AfterRemovals
    <3>2. OnSchedule(next)'
      BY <1>1, <1>7, <2>4, <2>5, <2>6, <3>1 DEF OnSchedule, HasTerms
    <3>3. ~Aside(next) /\ next.auction = a
      BY <1>7, <2>6, <3>1, KindsOfRecords DEF Aside
    <3> QED BY <1>12, <2>2, <3>2, <3>3, SchedulerServes
  <2>8. CASE it.calls = {}
    <3>1. me.calls = {called}
      BY <1>4, <1>7, <2>8
    <3>2. ~(terms.startTime <= clock)
      BY <1>2, <1>3, <1>16, <2>1, <3>1 DEF Mishap, AdditionThrows
    <3>3. terms.startTime > clock /\ terms.endTime > clock
      BY <3>2, TermsType, ClockType
    <3>4. {kind \in Kinds : RunAt(it.terms, kind) > clock} = Kinds
      BY <1>7, <3>3 DEF RunAt
    <3>5. next = [it EXCEPT !.stage = "adding", !.calls = Kinds]
      BY <1>11, <2>6, <2>8, <3>4 DEF AfterRemovals, Kinds
    <3>6. next.stage = "adding" /\ next.calls = Kinds /\ next.auction = a /\ next.terms = terms
          /\ next.op = "edit" /\ next # Idle
      BY <1>7, <2>6, <3>5, KindsOfRecords DEF Handler
    <3>7. OnSchedule(next)'
      BY <1>1, <2>4, <2>5, <2>8, <3>6 DEF OnSchedule, HasTerms
    <3>8. ~Aside(next)
      BY <3>6 DEF Aside
    <3> QED BY <1>12, <2>2, <3>6, <3>7, <3>8, SchedulerServes
  <2> QED BY <2>7, <2>8
<1> QED BY <1>14, <1>15, <1>16, HandlerKeepsJobs

LEMMA AddKeepsJobs ==
  ASSUME LifeInv, JobsInv, NEW h \in Handlers, NEW called \in Kinds, AddJob(h, called)
  PROVE  JobsStep
<1>1. /\ handler[h] # Idle /\ worker' = worker /\ auction' = auction /\ clock' = clock
  BY DEF AddJob, Idle, tables
<1>2. PICK me \in Handler : me = handler[h]
  BY <1>1, HandlerType DEF LifeInv
<1>3. PICK a \in Auctions, terms \in Terms : a = me.auction /\ terms = me.terms
  BY <1>1, <1>2, HandlerType DEF LifeInv
<1> DEFINE id    == <<a, called>>
           runAt == RunAt(terms, called)
           ahead == me.op = "edit" \/ runAt > clock
           new   == [me EXCEPT !.calls = @ \ {called}]
<1>4. /\ me.stage = "adding" /\ called \in me.calls /\ id \in JobIds /\ runAt \in Int
      /\ queue' = (IF ahead THEN Add(queue, id, runAt) ELSE queue)
      /\ handler' = [handler EXCEPT ![h] = AfterAdd(new, ahead)]
  <2>1. runAt \in Int
    BY TermsType DEF RunAt
  <2> QED BY <1>2, <1>3, <2>1, IdsOfJobs DEF AddJob, Become
<1>5. /\ new \in Handler /\ new.stage = "adding" /\ new.op = me.op /\ new.auction = a
      /\ new.terms = terms /\ new.calls = me.calls \ {called}
  BY <1>3, <1>4 DEF Handler
<1>6. PICK it \in Handler : it = new
  BY <1>5
<1>7. /\ it.stage = "adding" /\ it.op = me.op /\ it.auction = a /\ it.terms = terms
      /\ it.calls = me.calls \ {called} /\ handler' = [handler EXCEPT ![h] = AfterAdd(it, ahead)]
  BY <1>4, <1>5, <1>6
<1> HIDE DEF new, runAt
<1>8. \A other \in JobIds : other # id => queue'[other] = queue[other]
  <2>1. QueueType
    BY DEF LifeInv, QueueInv
  <2> HIDE DEF id, ahead
  <2> QED BY <1>4, <2>1, AddOfJob
<1>9. /\ \A kind \in Kinds : kind # called => queue'[<<a, kind>>] = queue[<<a, kind>>]
      /\ \A b \in Auctions, kind \in Kinds : b # a => queue'[<<b, kind>>] = queue[<<b, kind>>]
  BY <1>8, IdsOfJobs
<1>10. Exists(a) /\ me.op # "cancel"
  BY <1>1, <1>2, <1>3, <1>4 DEF JobsInv, HandlersPrepared, Prepared
<1>11. PICK next \in {Idle} \cup Handler :
         /\ next = AfterAdd(it, ahead)
         /\ next # Idle => next.auction = a /\ next.op = me.op /\ (next = it \/ next.stage = "publish")
  <2>1. AfterAdd(it, ahead) \in {Idle, it, [it EXCEPT !.stage = "publish"]}
    BY DEF AfterAdd
  <2>2. /\ [it EXCEPT !.stage = "publish"] \in Handler
        /\ [it EXCEPT !.stage = "publish"].stage = "publish"
        /\ [it EXCEPT !.stage = "publish"].auction = a
        /\ [it EXCEPT !.stage = "publish"].op = me.op
    BY <1>7 DEF Handler
  <2> QED BY <1>7, <2>1, <2>2
<1>12. handler' = [handler EXCEPT ![h] = next]
  BY <1>7, <1>11
<1>13. next # Idle => Prepared(next)'
  BY <1>1, <1>7, <1>10, <1>11 DEF Prepared, Exists
<1>14. WorksOn(h, next, a)
  BY <1>1, <1>2, <1>3, <1>9, <1>10, <1>11, <1>12, <1>13 DEF WorksOn, Exists, Committed
<1>15. ASSUME a \notin mishaps, ~Mishap(a) PROVE Served(a)'
  <2>1. Scheduling(h, a)
    BY <1>1, <1>2, <1>3, <1>4, <1>10 DEF Scheduling
  <2>2. OnSchedule(me) /\ \A g \in Handlers : g # h => ~Scheduling(g, a)
    BY <1>2, <1>15, <2>1 DEF JobsInv, Served
  <2>3. /\ HasTerms(auction[a], terms)
        /\ \A kind \in Kinds : IF kind \in me.calls THEN queue[<<a, kind>>] = NoJob
                               ELSE Pending(a, kind) => Queued(a, kind)
    BY <1>3, <1>4, <2>2 DEF OnSchedule
  <2>4. me.op = "create" => ~(runAt <= clock)
    BY <1>2, <1>3, <1>15, <2>1 DEF Mishap, AdditionThrows, runAt
  <2>5. ahead
    BY <1>4, <1>10, <2>4, ClockType DEF Handler
  <2>6. queue'[id] # NoJob /\ queue'[id].runAt = runAt
    <3>1. queue[id] = NoJob
      BY <1>4, <2>3
    <3>2. queue'[id] = [state |-> "waiting", runAt |-> runAt, tries |-> 0, stalled |-> FALSE]
      BY <1>4, <2>5, <3>1 DEF Add, LifeInv, QueueInv, QueueType
    <3> QED BY <3>2 DEF NoJob
  <2>7. ASSUME NEW kind \in Kinds
        PROVE  IF kind \in it.calls THEN queue'[<<a, kind>>] = NoJob
               ELSE Pending(a, kind)' => Queued(a, kind)'
    <3>1. CASE kind = called
      BY <1>1, <1>7, <2>3, <2>6, <3>1 DEF Queued, RunAt, HasTerms, runAt
    <3>2. CASE kind # called
      BY <1>1, <1>7, <1>9, <2>3, <3>2 DEF Queued, Pending, RunAt
    <3> QED BY <3>1, <3>2
  <2>8. CASE it.calls # {}
    <3>1. next = it
      BY <1>11, <2>5, <2>8 DEF AfterAdd
    <3>2. OnSchedule(next)'
      BY <1>1, <1>7, <2>3, <2>7, <3>1 DEF OnSchedule, HasTerms
    <3>3. ~Aside(next) /\ next.auction = a
      BY <1>7, <1>10, <3>1, KindsOfRecords DEF Aside
    <3> QED BY <1>12, <2>2, <3>2, <3>3, SchedulerServes
  <2>9. CASE it.calls = {}
    <3>1. Aside(next)
      <4>1. next = Idle \/ next = [it EXCEPT !.stage = "publish"]
        BY <1>11, <2>5, <2>9 DEF AfterAdd
      <4>2. [it EXCEPT !.stage = "publish"].stage = "publish"
        BY DEF Handler
      <4> QED BY <4>1, <4>2 DEF Aside
    <3>2. \A kind \in Kinds : Pending(a, kind)' => Queued(a, kind)'
      BY <2>7, <2>9
    <3>3. next # Idle => next.auction = a
      BY <1>11
    <3> QED BY <1>12, <2>2, <3>1, <3>2, <3>3, SchedulerServes
  <2> QED BY <2>8, <2>9
<1> QED BY <1>14, <1>15, HandlerKeepsJobs

LEMMA HandlerEndKeepsJobs ==
  ASSUME LifeInv, JobsInv, NEW h \in Handlers, PublishBornLive(h) \/ HandlerFails(h)
  PROVE  JobsStep
<1>1. /\ handler[h] # Idle /\ handler' = [handler EXCEPT ![h] = Idle]
      /\ UNCHANGED <<auction, queue, worker>>
  BY DEF PublishBornLive, HandlerFails, Become, In, Idle, tables
<1>2. PICK a \in Auctions : a = handler[h].auction
  BY <1>1, HandlerType DEF LifeInv
<1>3. Aside(Idle)
  BY DEF Aside
<1>4. CASE Aside(handler[h])
  BY <1>1, <1>2, <1>3, <1>4, StillWorksOn
<1>5. CASE ~Aside(handler[h])
  <2>1. HandlerFails(h)
    BY <1>5 DEF Aside, PublishBornLive, In
  <2>2. Mishap(a)
    BY <1>1, <1>2, <1>5, <2>1 DEF Mishap, Scheduling, Aside, CutShort
  <2>3. WorksOn(h, Idle, a)
    BY <1>1, <1>2 DEF WorksOn, Exists, Committed, JobsInv, NoRowNoJob
  <2> QED BY <2>2, <2>3, HandlerKeepsJobs
<1> QED BY <1>4, <1>5

------------------------------------------------------------------------------

LEMMA JobsInitial == HistoryInit => JobsInv
<1> SUFFICES ASSUME HistoryInit PROVE JobsInv
  OBVIOUS
<1>1. /\ \A h \in Handlers : handler[h] = Idle
      /\ \A w \in Workers : worker[w] = Idle
      /\ \A id \in JobIds : queue[id] = NoJob
      /\ \A a \in Auctions : auction[a].status = "NONE"
  BY DEF HistoryInit, Init, NoRow
<1>2. HandlersPrepared /\ DoneIsCommitted /\ NoRowNoJob
  BY <1>1, IdsOfJobs DEF HandlersPrepared, DoneIsCommitted, NoRowNoJob
<1>3. \A a \in Auctions : Served(a)
  BY <1>1 DEF Served, Scheduling, Pending
<1> QED BY <1>2, <1>3 DEF JobsInv

LEMMA JobsStepped ==
  ASSUME LifeInv, JobsInv, Next
  PROVE  JobsStep
<1>1. CASE PassTime
  BY <1>1, StillKeepsJobs DEF PassTime, Tick, tables
<1>2. ASSUME NEW h \in Handlers,
             CreateRequest(h) \/ EditRequest(h) \/ CancelScheduledAuction(h)
               \/ HandlerStep(h) \/ HandlerFails(h)
      PROVE  JobsStep
  BY <1>2, RequestKeepsJobs, CancelKeepsJobs, InsertKeepsJobs, UpdateKeepsJobs, RemoveKeepsJobs,
     AddKeepsJobs, HandlerEndKeepsJobs DEF HandlerStep
<1>3. ASSUME NEW w \in Workers,
             WorkerStep(w) \/ JobFails(w) \/ WorkerCrash(w) \/ WorkerStalls(w)
               \/ \E id \in JobIds : TakeJob(w, id)
      PROVE  JobsStep
  BY <1>3, ReadKeepsJobs, WriteKeepsJobs, ReportKeepsJobs, TakeKeepsJobs, WorkerFaultKeepsJobs
     DEF WorkerStep
<1> QED BY <1>1, <1>2, <1>3, RecoverKeepsJobs DEF Next

LEMMA JobsKept == LifeInv /\ JobsInv /\ [HistoryNext]_<<vars, mishaps>> => JobsInv'
<1> SUFFICES ASSUME LifeInv, JobsInv, [HistoryNext]_<<vars, mishaps>> PROVE JobsInv'
  OBVIOUS
<1>1. CASE HistoryNext
  <2>1. JobsStep /\ mishaps' = mishaps \cup {a \in Auctions \ mishaps : Mishap(a)}
    BY <1>1, JobsStepped DEF HistoryNext
  <2>2. \A a \in Auctions \ mishaps' : a \in Auctions \ mishaps /\ ~Mishap(a)
    BY <2>1
  <2>3. \A a \in Auctions \ mishaps' : Served(a)'
    BY <2>1, <2>2 DEF JobsStep
  <2> QED BY <2>1, <2>3 DEF JobsInv, JobsStep
<1>2. CASE UNCHANGED <<vars, mishaps>>
  <2>1. UNCHANGED <<auction, handler, worker, queue, mishaps>>
    BY <1>2 DEF vars, tables
  <2>2. JobsStep
    BY <2>1, StillKeepsJobs
  <2>3. ASSUME NEW a \in Auctions \ mishaps PROVE Served(a)'
    <3>1. Served(a)
      BY DEF JobsInv
    <3> QED BY <2>1, <3>1, ServedRests DEF Scheduling, Pending, HasTerms
  <2> QED BY <2>1, <2>2, <2>3 DEF JobsInv, JobsStep
<1> QED BY <1>1, <1>2

(* createAuctionService, replaceAuctionLifecycleJobs, auction.worker.ts: for  *)
(* any auctions, requests, workers, terms and faults, with edits once         *)
(* startTime has come and with workers however late, an auction whose jobs   *)
(* are missing or at another moment than its row's, and that no request is    *)
(* about to give them, has met a mishap: a call of its own requests threw or  *)
(* was cut short, two of them overlapped, or BullMQ gave its job up.         *)
THEOREM JobsAlwaysFollowUnlessMishap == HistorySpec => []JobsFollowUnlessMishap
<1>1. HistoryInit => Init
  BY DEF HistoryInit
<1>2. [HistoryNext]_<<vars, mishaps>> => [Next]_vars
  BY DEF HistoryNext
<1>3. JobsInv => JobsFollowUnlessMishap
  BY DEF JobsInv, Served, JobsFollowUnlessMishap
<1> QED BY <1>1, <1>2, <1>3, LifeInitial, LifeKept, JobsInitial, JobsKept, PTL DEF HistorySpec
==============================================================================
