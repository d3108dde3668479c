--------------------------- MODULE AuctionLifecycle ---------------------------
(* How an auction gets from its creation to its end: the HTTP handlers of    *)
(* apps/server, which write the row and then, in separate calls, the two     *)
(* delayed jobs; the workers of apps/worker, which run the jobs and then, in *)
(* another call, publish the socket event; and everything that can fall      *)
(* between two of these calls. Each database operation is one step here,     *)
(* which AuctionStoreProofs!StoreImplementsContract justifies. Bids play no   *)
(* part and stay empty.                                                      *)
EXTENDS AuctionTables, JobQueue, FiniteSets

CONSTANTS
  Handlers,         \* bound: HTTP requests in flight at once
  Workers,          \* worker loops
  MaxRequests,      \* bound: create and edit requests in a behaviour
  MaxHandlerFaults, \* bound: handlers cut short by a crash or a Redis error
  MaxWorkerCrashes, \* bound: workers that die, or lose the lock, inside a job
  MaxJobFaults,     \* bound: job attempts that meet a database or Redis error
  Prompt,           \* the processes that do within the tick what is due in it
  EditsAtStart      \* TRUE: sellers may send an edit when startTime has come

ASSUME EnvironmentAssumption ==
  /\ MaxRequests \in Nat /\ MaxHandlerFaults \in Nat
  /\ MaxWorkerCrashes \in Nat /\ MaxJobFaults \in Nat
  /\ Prompt \subseteq {"server", "worker"} /\ EditsAtStart \in BOOLEAN

VARIABLES
  handler,  \* handler[h]: the service function that request h is executing
  worker,   \* worker[w]: the job w is executing
  queue,    \* queue[<<a, kind>>]: the jobs of BullMQ
  events,   \* events[<<a, kind>>]: auction:started and auction:ended published
  silenced, \* history: the events whose publisher failed after the commit
  spent     \* the bounded resources of the environment already used

news == <<events, silenced>>
vars == <<clock, tables, handler, worker, queue, news, spent>>

JobIds == Auctions \X Kinds
Idle   == [stage |-> "idle"]
Bounds == [requests |-> MaxRequests, handlers |-> MaxHandlerFaults,
           crashes |-> MaxWorkerCrashes, jobs |-> MaxJobFaults]

(* calls: the queue operations of the current Promise.all (or the current    *)
(* sequence) that are still to be made; failed: one of them has thrown.      *)
(* locked: the worker still holds BullMQ's lock of the job it runs.          *)
Handler == [stage: {"checked", "removing", "adding", "publish"},
            op: {"create", "edit", "cancel"}, auction: Auctions, user: Users,
            terms: Terms, now: Nat, calls: SUBSET Kinds, failed: BOOLEAN]
Worker == [stage: {"read", "write", "publish", "done"}, job: JobIds, now: Nat,
           locked: BOOLEAN]

Spend(what) ==
  /\ spent[what] < Bounds[what]
  /\ spent' = [spent EXCEPT ![what] = @ + 1]

Init ==
  /\ clock = 0
  /\ auction = [a \in Auctions |-> NoRow]
  /\ bids = [a \in Auctions |-> <<>>]
  /\ handler = [h \in Handlers |-> Idle]
  /\ worker = [w \in Workers |-> Idle]
  /\ queue = [id \in JobIds |-> NoJob]
  /\ events = [id \in JobIds |-> 0] /\ silenced = {}
  /\ spent = [what \in DOMAIN Bounds |-> 0]

------------------------------------------------------------------------------
(* apps/server: auction.service.ts and auction.jobs.ts *)

Become(h, next) == handler' = [handler EXCEPT ![h] = next]
In(h, stage, op) == handler[h].stage = stage /\ handler[h].op = op
BornLive(h) == handler[h].terms.startTime <= handler[h].now

CreateRequest(h) ==
  \E a \in Auctions, user \in Users, terms \in Terms :
    /\ handler[h] = Idle
    /\ ~Exists(a)
    /\ \A g \in Handlers : handler[g] # Idle => handler[g].auction # a
    /\ terms.endTime > clock
    /\ Spend("requests")
    /\ Become(h, [stage |-> "checked", op |-> "create", auction |-> a, user |-> user,
                  terms |-> terms, now |-> clock, calls |-> {}, failed |-> FALSE])
    /\ UNCHANGED <<clock, tables, worker, queue, news>>

(* An auction that is born live needs no START job. *)
InsertAuction(h) ==
  LET me == handler[h] IN
  /\ In(h, "checked", "create")
  /\ auction' = [auction EXCEPT ![me.auction] = NewRow(me.user, me.terms, me.now)]
  /\ Become(h, [me EXCEPT !.stage = "adding",
                          !.calls = IF BornLive(h) THEN {"end"} ELSE Kinds])
  /\ UNCHANGED <<clock, bids, worker, queue, news, spent>>

(* The pre-check of an edit; SellerMayChange is evaluated again in the        *)
(* transaction, the comparison with the time is not.                         *)
EditRequest(h) ==
  \E a \in Auctions, terms \in Terms :
    LET seller == auction[a].sellerId IN
    /\ handler[h] = Idle
    /\ SellerMayChange(auction[a], seller)
    /\ terms.startTime > clock
    /\ EditsAtStart \/ auction[a].startTime > clock
    /\ Spend("requests")
    /\ Become(h, [stage |-> "checked", op |-> "edit", auction |-> a, user |-> seller,
                  terms |-> terms, now |-> clock, calls |-> {}, failed |-> FALSE])
    /\ UNCHANGED <<clock, tables, worker, queue, news>>

FaultyUpdateAuction(h) ==                    \* adds the new jobs over the old ones
  LET me == handler[h] IN
  /\ In(h, "checked", "edit")
  /\ IF SellerMayChange(auction[me.auction], me.user)
     THEN /\ auction' = [auction EXCEPT ![me.auction] = Rescheduled(@, me.terms)]
          /\ Become(h, [me EXCEPT !.stage = "adding", !.calls = Kinds])
     ELSE Become(h, Idle) /\ UNCHANGED auction
  /\ UNCHANGED <<clock, bids, worker, queue, news, spent>>
UpdateAuction(h) ==
  LET me == handler[h]
      row == auction[me.auction]
  IN
  /\ In(h, "checked", "edit")
  /\ IF SellerMayChange(row, me.user)
     THEN /\ auction' = [auction EXCEPT ![me.auction] = Rescheduled(row, me.terms)]
          /\ Become(h, [me EXCEPT !.stage = "removing", !.calls = Kinds])
     ELSE Become(h, Idle) /\ UNCHANGED auction
  /\ UNCHANGED <<clock, bids, worker, queue, news, spent>>

(* cancelAuctionService up to its commit: the pre-check asks nothing that the *)
(* transaction does not ask again. Terms and now are not used.               *)
CancelScheduledAuction(h) ==
  \E a \in Auctions :
    LET seller == auction[a].sellerId IN
    /\ handler[h] = Idle
    /\ SellerMayChange(auction[a], seller)
    /\ auction' = [auction EXCEPT ![a].status = "CANCELLED"]
    /\ Become(h, [stage |-> "removing", op |-> "cancel", auction |-> a, user |-> seller,
                  terms |-> CHOOSE terms \in Terms : TRUE, now |-> 0, calls |-> Kinds,
                  failed |-> FALSE])
    /\ UNCHANGED <<clock, bids, worker, queue, news, spent>>

RunAt(terms, kind) == IF kind = "start" THEN terms.startTime ELSE terms.endTime

(* removeAuctionLifecycleJobs: two removals in parallel, and a failed one     *)
(* does not stop the other. An edit goes on only if both succeeded, to two   *)
(* additions in parallel, whose delays are computed at once: the one whose   *)
(* moment has passed throws, the other is made.                              *)
AfterRemovals(me) ==
  LET ahead == {kind \in Kinds : RunAt(me.terms, kind) > clock} IN
  IF me.calls # {} THEN me
  ELSE IF me.op = "edit" /\ ~me.failed /\ ahead # {}
  THEN [me EXCEPT !.stage = "adding", !.calls = ahead]
  ELSE Idle

RemoveJob(h, kind) ==
  LET me == handler[h]
      id == <<me.auction, kind>>
  IN
  /\ me.stage = "removing" /\ kind \in me.calls
  /\ queue' = IF Removable(queue, id) THEN Remove(queue, id) ELSE queue
  /\ Become(h, AfterRemovals([me EXCEPT !.calls = @ \ {kind},
                                        !.failed = @ \/ ~Removable(queue, id)]))
  /\ UNCHANGED <<clock, tables, worker, news, spent>>

(* createAuctionService awaits scheduleAuctionStart, then scheduleAuctionEnd, *)
(* each of which throws when its moment has passed; a live auction is then   *)
(* announced.                                                                *)
FaultyAfterAdd(me, added) ==                 \* announces nothing
  IF ~added \/ me.calls = {} THEN Idle ELSE me
AfterAdd(me, added) ==
  IF ~added THEN Idle
  ELSE IF me.calls # {} THEN me
  ELSE IF me.op = "create" /\ me.terms.startTime <= me.now THEN [me EXCEPT !.stage = "publish"]
  ELSE Idle

FaultyAddJob(h, kind) ==                     \* forgets the END job of a live auction
  LET me == handler[h]
      id == <<me.auction, kind>>
  IN
  /\ me.stage = "adding" /\ kind \in me.calls
  /\ queue' = IF kind = "end" /\ BornLive(h) THEN queue
              ELSE Add(queue, id, RunAt(me.terms, kind))
  /\ Become(h, AfterAdd([me EXCEPT !.calls = @ \ {kind}], TRUE))
  /\ UNCHANGED <<clock, tables, worker, news, spent>>
AddJob(h, kind) ==
  LET me    == handler[h]
      id    == <<me.auction, kind>>
      ahead == me.op = "edit" \/ RunAt(me.terms, kind) > clock
  IN
  /\ me.stage = "adding" /\ kind \in me.calls
  /\ me.op = "create" /\ kind = "end" => "start" \notin me.calls
  /\ queue' = IF ahead THEN Add(queue, id, RunAt(me.terms, kind)) ELSE queue
  /\ Become(h, AfterAdd([me EXCEPT !.calls = @ \ {kind}], ahead))
  /\ UNCHANGED <<clock, tables, worker, news, spent>>

PublishBornLive(h) ==
  /\ In(h, "publish", "create")
  /\ events' = [events EXCEPT ![<<handler[h].auction, "start">>] = @ + 1]
  /\ Become(h, Idle)
  /\ UNCHANGED <<clock, tables, worker, queue, silenced, spent>>

Silence(id, committed) ==
  /\ silenced' = IF committed THEN silenced \cup {id} ELSE silenced
  /\ UNCHANGED events

(* The server dies, or a call to PostgreSQL or Redis fails: what is committed *)
(* stays, what was still to do is not done.                                  *)
HandlerFails(h) ==
  /\ handler[h] # Idle
  /\ Spend("handlers")
  /\ Become(h, Idle)
  /\ Silence(<<handler[h].auction, "start">>,
             handler[h].op = "create" /\ handler[h].stage # "checked" /\ BornLive(h))
  /\ UNCHANGED <<clock, tables, worker, queue>>

------------------------------------------------------------------------------
(* apps/worker: auction.worker.ts, and packages/auction *)

TakeJob(w, id) ==
  /\ worker[w] = Idle
  /\ Ready(queue, id, clock)
  /\ queue' = Take(queue, id)
  /\ worker' = [worker EXCEPT ![w] = [stage |-> "read", job |-> id,
                                       now |-> 0, locked |-> TRUE]]
  /\ UNCHANGED <<clock, tables, handler, news, spent>>

At(w, stage, kind) == worker[w].stage = stage /\ worker[w].job[2] = kind
Row(w) == auction[worker[w].job[1]]

GoTo(w, stage, now) ==
  /\ worker' = [worker EXCEPT ![w].stage = stage, ![w].now = now]
  /\ UNCHANGED queue
Return(w) == GoTo(w, "done", worker[w].now)

(* A worker that has lost the lock cannot report what became of the job.     *)
Report(w, newQueue) ==
  /\ worker' = [worker EXCEPT ![w] = Idle]
  /\ queue' = IF worker[w].locked THEN newQueue ELSE queue
Throw(w) == Report(w, Retry(queue, worker[w].job))

(* The pre-read of a service: done already, allowed, or an AuctionError.     *)
FaultyReadRow(w, kind, done, allowed) ==     \* announces what was done already
  /\ At(w, "read", kind)
  /\ IF done THEN GoTo(w, "publish", clock)
     ELSE IF allowed THEN GoTo(w, "write", clock)
     ELSE Throw(w)
  /\ UNCHANGED <<clock, tables, handler, news, spent>>
ReadRow(w, kind, done, allowed) ==
  /\ At(w, "read", kind)
  /\ IF done THEN Return(w)
     ELSE IF allowed THEN GoTo(w, "write", clock)
     ELSE Throw(w)
  /\ UNCHANGED <<clock, tables, handler, news, spent>>
StartRead(w) == ReadRow(w, "start", Row(w).status = "LIVE", StartAllowed(Row(w), clock))
EndRead(w)   == ReadRow(w, "end", Row(w).status = "ENDED", EndAllowed(Row(w), clock))

FaultyStartWrite(w) ==                       \* trusts the row read before
  /\ At(w, "write", "start")
  /\ auction' = [auction EXCEPT ![worker[w].job[1]].status = "LIVE"]
  /\ GoTo(w, "publish", worker[w].now)
  /\ UNCHANGED <<clock, bids, handler, news, spent>>
StartWrite(w) ==
  /\ At(w, "write", "start")
  /\ IF StartAllowed(Row(w), worker[w].now)
     THEN /\ auction' = [auction EXCEPT ![worker[w].job[1]].status = "LIVE"]
          /\ GoTo(w, "publish", worker[w].now)
     ELSE Throw(w) /\ UNCHANGED auction
  /\ UNCHANGED <<clock, bids, handler, news, spent>>

EndWrite(w) ==
  LET a == worker[w].job[1] IN
  /\ At(w, "write", "end")
  /\ IF EndAllowed(Row(w), worker[w].now)
     THEN /\ \E best \in WinningBids(bids[a]) :
               auction' = [auction EXCEPT ![a] = Finalized(Row(w), bids[a], best)]
          /\ GoTo(w, "publish", worker[w].now)
     ELSE /\ IF Row(w).status = "ENDED" THEN Return(w) ELSE Throw(w)
          /\ UNCHANGED auction
  /\ UNCHANGED <<clock, bids, handler, news, spent>>

Publish(w) ==
  /\ worker[w].stage = "publish"
  /\ events' = [events EXCEPT ![worker[w].job] = @ + 1]
  /\ Return(w)
  /\ UNCHANGED <<clock, tables, handler, silenced, spent>>

CompleteJob(w) ==
  /\ worker[w].stage = "done"
  /\ Report(w, Complete(queue, worker[w].job))
  /\ UNCHANGED <<clock, tables, handler, news, spent>>

(* A call to PostgreSQL or Redis fails inside a job.                         *)
JobFails(w) ==
  /\ worker[w] # Idle
  /\ Spend("jobs")
  /\ Throw(w)
  /\ Silence(worker[w].job, worker[w].stage = "publish")
  /\ UNCHANGED <<clock, tables, handler>>

(* The worker process dies, or is so slow that its lock expires while it goes *)
(* on; BullMQ finds out later and hands the job out again.                   *)
WorkerCrash(w) ==
  /\ worker[w] # Idle
  /\ Spend("crashes")
  /\ worker' = [worker EXCEPT ![w] = Idle]
  /\ Silence(worker[w].job, worker[w].stage = "publish")
  /\ UNCHANGED <<clock, tables, handler, queue>>

WorkerStalls(w) ==
  /\ worker[w] # Idle /\ worker[w].locked
  /\ Spend("crashes")
  /\ worker' = [worker EXCEPT ![w].locked = FALSE]
  /\ UNCHANGED <<clock, tables, handler, queue, news>>

Abandoned(id) ==
  /\ queue[id] # NoJob /\ queue[id].state = "active"
  /\ \A w \in Workers : worker[w] # Idle /\ worker[w].locked => worker[w].job # id

RecoverJob(id) ==
  /\ Abandoned(id)
  /\ queue' = Unstall(queue, id)
  /\ UNCHANGED <<clock, tables, handler, worker, news, spent>>

------------------------------------------------------------------------------
ServerSettled == \A h \in Handlers : handler[h] = Idle
WorkerSettled ==
  /\ \A w \in Workers : worker[w] = Idle
  /\ \A id \in JobIds : ~Ready(queue, id, clock) /\ ~Abandoned(id)

PassTime ==
  /\ "server" \in Prompt => ServerSettled
  /\ "worker" \in Prompt => WorkerSettled
  /\ Tick
  /\ UNCHANGED <<handler, worker, queue, news, spent>>

HandlerStep(h) ==
  \/ InsertAuction(h) \/ UpdateAuction(h) \/ PublishBornLive(h)
  \/ \E kind \in Kinds : RemoveJob(h, kind) \/ AddJob(h, kind)

WorkerStep(w) ==
  \/ StartRead(w) \/ StartWrite(w) \/ EndRead(w) \/ EndWrite(w)
  \/ Publish(w) \/ CompleteJob(w)

Next ==
  \/ PassTime
  \/ \E h \in Handlers : CreateRequest(h) \/ EditRequest(h) \/ CancelScheduledAuction(h)
                          \/ HandlerStep(h) \/ HandlerFails(h)
  \/ \E w \in Workers : WorkerStep(w) \/ JobFails(w) \/ WorkerCrash(w) \/ WorkerStalls(w)
                         \/ \E id \in JobIds : TakeJob(w, id)
  \/ \E id \in JobIds : RecoverJob(id)

Spec == Init /\ [][Next]_vars

(* Time goes on, and the event loop, the workers and BullMQ's stalled-job    *)
(* check run. Requests and faults need not come.                             *)
Fairness ==
  /\ SF_vars(PassTime)
  /\ \A h \in Handlers : WF_vars(HandlerStep(h))
  /\ \A w \in Workers : WF_vars(WorkerStep(w))
  /\ \A id \in JobIds :
       WF_vars(RecoverJob(id)) /\ SF_vars(\E w \in Workers : TakeJob(w, id))
FairSpec == Spec /\ Fairness

------------------------------------------------------------------------------
(* Every variable has its type. *)
TypeOK ==
  /\ TablesTypeOK
  /\ handler \in [Handlers -> {Idle} \cup Handler]
  /\ worker \in [Workers -> {Idle} \cup Worker]
  /\ queue \in [JobIds -> {NoJob} \cup Job]
  /\ events \in [JobIds -> Nat] /\ silenced \subseteq JobIds
  /\ \A what \in DOMAIN Bounds : spent[what] \in 0 .. Bounds[what]

(* auction.worker.ts, createAuctionService: whatever is retried, duplicated   *)
(* or handed out twice, auction:started and auction:ended are each published *)
(* at most once, and only for a change that is committed.                    *)
EventsTellTheTruth ==
  \A a \in Auctions :
    /\ events[<<a, "start">>] <= (IF auction[a].status \in {"LIVE", "ENDED"} THEN 1 ELSE 0)
    /\ events[<<a, "end">>] <= (IF auction[a].status = "ENDED" THEN 1 ELSE 0)

(* startAuctionService, endAuctionService, editAuctionService: every write of *)
(* a job or a request, however late, stale or repeated, is a step that the    *)
(* contract allows on the row as it is then. A job for terms that an edit has *)
(* replaced neither opens the auction before its new startTime nor closes it *)
(* before its new endTime.                                                   *)
Contract == INSTANCE AuctionContract
ImplementsContract == Contract!Spec

(* The jobs carry every auction to an end, whatever its seller does before.  *)
EveryAuctionEnds ==
  \A a \in Auctions : Exists(a) ~> auction[a].status \in {"ENDED", "CANCELLED"}

(* auction.worker.ts: an event is published for every change that is          *)
(* committed, unless its publisher fails in between: then the retry finds the *)
(* change done and returns. Failures at any other point lose no event.       *)
Announced(id) == events[id] > 0 \/ id \in silenced
EventsArePublished ==
  \A a \in Auctions :
    /\ auction[a].status = "LIVE" ~> Announced(<<a, "start">>)
    /\ auction[a].status = "ENDED" ~> Announced(<<a, "end">>)

(* createAuctionService, auction.worker.ts: no path through the retries, the  *)
(* races and the faults leads past a publication: when no request and no job  *)
(* is in hand, each committed change has been announced, the start of an     *)
(* auction that has already ended too.                                       *)
NoEventIsForgotten ==
  ServerSettled /\ (\A w \in Workers : worker[w] = Idle) =>
    \A a \in Auctions :
      /\ auction[a].status \in {"LIVE", "ENDED"} => Announced(<<a, "start">>)
      /\ auction[a].status = "ENDED" => Announced(<<a, "end">>)
==============================================================================
