------------------------------ MODULE JobQueue ------------------------------
(* The BullMQ queue "auction" as apps/server and apps/worker use it: a map   *)
(* from job ids to jobs. BullMQ is external; what it does is taken from how   *)
(* jobs are added (deterministic ids, attempts 3, removeOnComplete and       *)
(* removeOnFail) and from what the code relies on: adding an id that is there *)
(* does nothing, a job that a worker has locked cannot be removed, and a job *)
(* whose worker died is handed out again once.                               *)
EXTENDS Integers

Kinds    == {"start", "end"}   \* auctionLifecycleJobIds: one id of each kind per auction
Attempts == 3

NoJob == [state |-> "none"]
Job == [state: {"waiting", "active"}, runAt: Int,
        tries: 0 .. Attempts - 1, stalled: BOOLEAN]

Add(queue, id, runAt) ==
  IF queue[id] # NoJob THEN queue
  ELSE [queue EXCEPT ![id] = [state |-> "waiting", runAt |-> runAt,
                              tries |-> 0, stalled |-> FALSE]]

(* job.remove() throws for a job that is locked by a worker.                 *)
Removable(queue, id) == queue[id] = NoJob \/ queue[id].state = "waiting"
Remove(queue, id)    == [queue EXCEPT ![id] = NoJob]

Ready(queue, id, now) ==
  queue[id] # NoJob /\ queue[id].state = "waiting" /\ queue[id].runAt <= now
Take(queue, id) == [queue EXCEPT ![id].state = "active"]

(* The processor returned (removeOnComplete), or threw: try again, after a   *)
(* backoff much shorter than a tick, until the attempts are used up          *)
(* (removeOnFail).                                                           *)
Complete(queue, id) == Remove(queue, id)
FaultyRetry(queue, id) ==                    \* for ever
  [queue EXCEPT ![id].state = "waiting", ![id].tries = queue[id].tries + 1]
Retry(queue, id) ==
  IF queue[id].tries = Attempts - 1 THEN Remove(queue, id)
  ELSE [queue EXCEPT ![id].state = "waiting", ![id].tries = queue[id].tries + 1]

(* The lock of a dead worker expires; a second time the job counts as failed. *)
Unstall(queue, id) ==
  IF queue[id].stalled THEN Remove(queue, id)
  ELSE [queue EXCEPT ![id].state = "waiting", ![id].stalled = TRUE]
==============================================================================
