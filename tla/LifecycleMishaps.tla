--------------------------- MODULE LifecycleMishaps ---------------------------
(* AuctionLifecycle with a history of what can cost an auction its jobs: the  *)
(* calls of auction.jobs.ts that throw or are never made, requests whose     *)
(* calls overlap, and jobs that BullMQ gives up. None of it is ruled out.     *)
EXTENDS AuctionLifecycle

VARIABLE mishaps   \* history: the auctions that have met one of them

(* A request between the commit of an auction that is to start or to end and  *)
(* the last of its calls to the queue.                                       *)
Scheduling(h, a) ==
  /\ handler[h] # Idle /\ handler[h].auction = a
  /\ handler[h].op # "cancel" /\ handler[h].stage \in {"removing", "adding"}

(* The job of this kind has still to do something on the auction.            *)
Pending(a, kind) ==
  auction[a].status \in (IF kind = "start" THEN {"SCHEDULED"} ELSE {"SCHEDULED", "LIVE"})
Queued(a, kind) ==
  queue[<<a, kind>>] # NoJob /\ queue[<<a, kind>>].runAt = RunAt(auction[a], kind)

(* The server dies or Redis fails, with calls still to be made.              *)
CutShort(h) == HandlerFails(h)

(* Another request commits before this one has made its calls.               *)
Overlap(a) == \E g, h \in Handlers : g # h /\ Scheduling(g, a)' /\ Scheduling(h, a)'

(* A removal throws, because a worker has the job; or an addition, because    *)
(* its moment has passed: its delay is computed just before the call, for    *)
(* both additions of an edit as soon as the removals have returned.          *)
RemovalThrows(h, kind) ==
  RemoveJob(h, kind) /\ ~Removable(queue, <<handler[h].auction, kind>>)
AdditionThrows(h, kind) ==
  \/ /\ RemoveJob(h, kind) /\ handler[h].calls = {kind}
     /\ handler[h].terms.startTime <= clock
  \/ /\ AddJob(h, kind) /\ handler[h].op = "create"
     /\ RunAt(handler[h].terms, kind) <= clock

(* The last attempt fails, or the job stalls a second time.                  *)
GivenUp(id) ==
  \/ /\ queue[id] # NoJob /\ queue[id].tries = Attempts - 1
     /\ \E w \in Workers :
          worker[w] # Idle /\ worker[w].job = id /\ worker[w].locked /\ Throw(w)
  \/ RecoverJob(id) /\ queue[id].stalled

Mishap(a) ==
  \/ \E h \in Handlers :
       /\ Scheduling(h, a)
       /\ \/ CutShort(h)
          \/ \E kind \in Kinds : RemovalThrows(h, kind) \/ AdditionThrows(h, kind)
  \/ Overlap(a)
  \/ \E kind \in Kinds : Pending(a, kind) /\ GivenUp(<<a, kind>>)

HistoryInit == Init /\ mishaps = {}
HistoryNext == Next /\ mishaps' = mishaps \cup {a \in Auctions \ mishaps : Mishap(a)}
HistorySpec == HistoryInit /\ [][HistoryNext]_<<vars, mishaps>>
FairHistorySpec == HistorySpec /\ Fairness
------------------------------------------------------------------------------
(* createAuctionService, replaceAuctionLifecycleJobs, auction.worker.ts:      *)
(* whatever is late, stale, repeated, crashes or stalls, an auction loses a   *)
(* job that it still needs, or keeps one at another moment than its row's,   *)
(* only by a mishap of its own. Whenever no request is about to queue its    *)
(* jobs, each auction that has met none has the jobs of its row.             *)
JobsFollowUnlessMishap ==
  \A a \in Auctions \ mishaps :
    (\A h \in Handlers : ~Scheduling(h, a)) =>
      \A kind \in Kinds : Pending(a, kind) => Queued(a, kind)

(* createAuctionService, editAuctionService, auction.worker.ts: the jobs      *)
(* carry every auction to an end, or to its cancellation, whatever its seller *)
(* does before and however late the worker is, unless a mishap of its own     *)
(* happens. Failing attempts, a worker that dies or stalls, and a server that *)
(* fails at another moment only delay the end.                               *)
AuctionsEndUnlessMishap ==
  \A a \in Auctions :
    Exists(a) ~> auction[a].status \in {"ENDED", "CANCELLED"} \/ a \in mishaps
==============================================================================
