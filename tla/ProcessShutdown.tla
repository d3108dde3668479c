--------------------------- MODULE ProcessShutdown ---------------------------
(* How the server and the worker start and stop: apps/server/src/index.ts,    *)
(* apps/worker/src/index.ts and the clients for Redis and PostgreSQL that     *)
(* they open and close while requests and jobs are using them. On a signal    *)
(* the server waits until its HTTP server has no connection left, the worker  *)
(* until its job is done; only then do they close their clients. A request    *)
(* whose connection breaks goes on running, and nobody waits for it. Every    *)
(* quit may reject, when Redis or PostgreSQL stops together with them.        *)
EXTENDS Naturals, Sequences, FiniteSets

CONSTANTS
  Requests,       \* HTTP requests, each made once
  Jobs,           \* jobs of the worker, each handed out once
  MaxRejections   \* bound: how many of the quits that begin together reject

ASSUME TasksAssumption == Requests \cap Jobs = {} /\ MaxRejections \in Nat

VARIABLES
  phase,   \* phase[p]: how far the start or the shutdown of p has come
  open,    \* open[p]: the clients of p that are connected
  task,    \* task[t]: how far a request or a job has come
  rejected \* rejected[p]: the clients whose quit or disconnect has rejected

vars == <<phase, open, task, rejected>>

Processes == {"server", "worker"}
Tasks     == Requests \cup Jobs
Clients   == {"prisma", "publisher", "subscriber", "redis", "queue"}
Owner(t)  == IF t \in Requests THEN "server" ELSE "worker"

(* The client that each await of a handler uses, in their order: a bid, a     *)
(* LIVE auction, the health check, and a job that changes a row, publishes    *)
(* and is reported to BullMQ.                                                *)
Calls == [bid    |-> <<"prisma", "publisher">>,
          create |-> <<"prisma", "queue", "publisher">>,
          health |-> <<"prisma", "redis">>,
          job    |-> <<"prisma", "publisher", "queue">>]
Kinds(t) == IF t \in Requests THEN {"bid", "create", "health"} ELSE {"job"}

(* calls: how many have returned. attached: its connection has not broken.   *)
(* late: history: one of its calls found that shutdown had closed the client. *)
Waiting == [stage |-> "waiting", kind |-> "job", calls |-> 0, attached |-> TRUE, late |-> FALSE]
Task == [stage: {"waiting", "active", "done", "failed"}, kind: DOMAIN Calls, calls: 0 .. 3,
         attached: BOOLEAN, late: BOOLEAN]

(* ioredis connects when the module is loaded, prisma and the publisher when  *)
(* they are first used.                                                      *)
Init ==
  /\ phase = [p \in Processes |-> IF p = "server" THEN "starting" ELSE "up"]
  /\ open = [p \in Processes |-> {"queue"}]
  /\ task = [t \in Tasks |-> Waiting]
  /\ rejected = [p \in Processes |-> {}]

Become(p, next) == phase' = [phase EXCEPT ![p] = next]
------------------------------------------------------------------------------
(* apps/server/src/index.ts, in the order of its awaits; the server accepts   *)
(* requests when it listens, after it has subscribed.                        *)
ConnectRedis ==
  /\ phase["server"] = "starting"
  /\ open' = [open EXCEPT !["server"] = @ \cup {"redis"}]
  /\ Become("server", "subscribing")
  /\ UNCHANGED <<task, rejected>>

SubscribeAndListen ==
  /\ phase["server"] = "subscribing"
  /\ open' = [open EXCEPT !["server"] = @ \cup {"subscriber"}]
  /\ Become("server", "up")
  /\ UNCHANGED <<task, rejected>>

(* A connection that is kept alive may bring a request while the HTTP server  *)
(* waits for its end; auctionWorker.close stops taking jobs at once.         *)
Accepting(p) == phase[p] = "up" \/ (p = "server" /\ phase[p] = "draining")

Begin(t) ==
  \E kind \in Kinds(t) :
    /\ task[t].stage = "waiting"
    /\ Accepting(Owner(t))
    /\ task' = [task EXCEPT ![t].stage = "active", ![t].kind = kind]
    /\ UNCHANGED <<phase, open, rejected>>

(* One await. prisma and the publisher connect again when they are used after *)
(* they were closed; queue and redis throw, which healthCheck catches.       *)
Lazy     == {"prisma", "publisher"}
Stopping(p) == phase[p] \in {"closing", "closed"}

Call(t) ==
  LET p == Owner(t)
      me == task[t]
      client == Calls[me.kind][me.calls + 1]
      usable == client \in open[p] \cup Lazy
      last == me.calls + 1 = Len(Calls[me.kind]) IN
  /\ me.stage = "active"
  /\ phase[p] # "exited"
  /\ task' = [task EXCEPT
       ![t].calls = IF usable \/ me.kind = "health" THEN @ + 1 ELSE @,
       ![t].late  = @ \/ Stopping(p),
       ![t].stage = IF ~usable /\ me.kind # "health" THEN "failed"
                    ELSE IF last THEN "done" ELSE "active"]
  /\ open' = [open EXCEPT ![p] = IF usable THEN @ \cup {client} ELSE @]
  /\ UNCHANGED <<phase, rejected>>

(* The connection of a request breaks: its handler is not told.              *)
Abandon(t) ==
  /\ t \in Requests
  /\ task[t].stage = "active" /\ task[t].attached
  /\ phase["server"] # "exited"
  /\ task' = [task EXCEPT ![t].attached = FALSE]
  /\ UNCHANGED <<phase, open, rejected>>
------------------------------------------------------------------------------
(* SIGINT or SIGTERM. The handlers are there once the server listens; before  *)
(* that the signal ends the process. A second signal changes nothing.        *)
FaultySignal(p) ==                           \* without isShuttingDown
  \/ /\ phase[p] = "up"
     /\ Become(p, "draining")
     /\ UNCHANGED <<open, task, rejected>>
  \/ /\ phase[p] = "draining"                \* close() of a server that is not listening returns
     /\ Become(p, "closing")
     /\ open' = [open EXCEPT ![p] = @ \cap {"subscriber"}]
     /\ UNCHANGED <<task, rejected>>
  \/ /\ phase[p] \in {"starting", "subscribing"}
     /\ Become(p, "exited")
     /\ open' = [open EXCEPT ![p] = {}]
     /\ UNCHANGED <<task, rejected>>
Signal(p) ==
  \/ /\ phase[p] = "up"
     /\ Become(p, "draining")
     /\ UNCHANGED <<open, task, rejected>>
  \/ /\ phase[p] \in {"starting", "subscribing"}
     /\ Become(p, "exited")
     /\ open' = [open EXCEPT ![p] = {}]
     /\ UNCHANGED <<task, rejected>>

(* closeSocketServer: Socket.IO drops its sockets, closes the HTTP server and *)
(* calls back when no connection is left. auctionWorker.close: when no job is *)
(* active.                                                                   *)
Drained(p) == \A t \in Tasks : Owner(t) = p /\ task[t].stage = "active" => ~task[t].attached

(* Promise.allSettled: every quit begins at once, except that of the          *)
(* subscriber, which waits for the publisher's. One that rejects stops none   *)
(* of the others, and may or may not leave its client connected. redis.quit   *)
(* is asked for only when redis is open.                                     *)
CloseClients(p) ==
  /\ phase[p] = "draining" /\ Drained(p)
  /\ \E failed \in SUBSET (open[p] \ {"subscriber"}) : \E kept \in SUBSET failed :
       /\ Cardinality(failed) <= MaxRejections
       /\ rejected' = [rejected EXCEPT ![p] = failed]
       /\ open' = [open EXCEPT ![p] = (@ \cap {"subscriber"}) \cup kept]
  /\ Become(p, "closing")
  /\ UNCHANGED task

(* closeSocketEventRedis has no try: if publisher.quit() rejects, the         *)
(* subscriber is not told to quit, and shutdown takes note of one failure.    *)
FaultyFinishClosing(p) ==                    \* closeSocketEventRedis forgets the subscriber
  /\ phase[p] = "closing"
  /\ Become(p, "closed")
  /\ UNCHANGED <<open, task, rejected>>
FinishClosing(p) ==
  /\ phase[p] = "closing"
  /\ IF "publisher" \in rejected[p] THEN UNCHANGED <<open, rejected>>
     ELSE \E failed \in SUBSET (open[p] \cap {"subscriber"}) : \E kept \in SUBSET failed :
            /\ rejected' = [rejected EXCEPT ![p] = @ \cup failed]
            /\ open' = [open EXCEPT ![p] = (@ \ {"subscriber"}) \cup kept]
  /\ Become(p, "closed")
  /\ UNCHANGED task

(* The worker calls process.exit. The server exits when nothing is left that  *)
(* keeps the event loop going.                                               *)
Idle(p) ==
  /\ open[p] = {}
  /\ \A t \in Tasks : Owner(t) = p => task[t].stage # "active"

Exit(p) ==
  /\ phase[p] = "closed"
  /\ p = "server" => Idle(p)
  /\ open' = [open EXCEPT ![p] = {}]
  /\ rejected' = [rejected EXCEPT ![p] = {}]
  /\ Become(p, "exited")
  /\ UNCHANGED task

Stop(p) == CloseClients(p) \/ FinishClosing(p) \/ Exit(p)

Next ==
  \/ ConnectRedis \/ SubscribeAndListen
  \/ \E p \in Processes : Signal(p) \/ Stop(p)
  \/ \E t \in Tasks : Begin(t) \/ Call(t) \/ Abandon(t)

Spec == Init /\ [][Next]_vars

(* A call that was made returns, a quit that was sent returns or rejects, and *)
(* the event loop runs what is due. No signal and no request has to come.    *)
FairSpec ==
  /\ Spec
  /\ \A p \in Processes : WF_vars(Stop(p))
  /\ \A t \in Tasks : WF_vars(Call(t))
------------------------------------------------------------------------------
(* Every variable has its type, and a task stays within its calls. *)
TypeOK ==
  /\ phase \in [Processes -> {"starting", "subscribing", "up", "draining", "closing",
                              "closed", "exited"}]
  /\ open \in [Processes -> SUBSET Clients]
  /\ rejected \in [Processes -> SUBSET Clients]
  /\ task \in [Tasks -> Task]
  /\ \A t \in Tasks : task[t].stage = "active" => task[t].calls < Len(Calls[task[t].kind])

(* shutdown in both index.ts: "wait for the active job before closing         *)
(* resources that lifecycle processing may still be using". Whatever the      *)
(* order of signals, requests and calls, no request whose client is still     *)
(* there and no job is cut off between two of its calls, and none of them     *)
(* meets a client that the shutdown has closed.                              *)
NothingIsCutOff ==
  \A t \in Tasks :
    task[t].attached =>
      /\ ~task[t].late
      /\ task[t].stage # "failed"
      /\ task[t].stage = "active" => phase[Owner(t)] \in {"up", "draining"}

(* Promise.allSettled, closeSocketEventRedis: a client whose quit rejected    *)
(* may stay connected, and so does the subscriber if the publisher's quit     *)
(* rejected, for nobody tells it to quit.                                    *)
MayStay(p) ==
  rejected[p] \cup (IF "publisher" \in rejected[p] THEN {"subscriber"} ELSE {})

(* shutdown, closeSocketEventRedis: when the shutdown is done with its        *)
(* clients, it has left none open but those whose own quit rejected and the   *)
(* subscriber behind a publisher whose quit did, unless an abandoned request  *)
(* has connected one again.                                                  *)
NothingIsLeftOpen ==
  \A p \in Processes :
    phase[p] = "closed" /\ (\A t \in Tasks : Owner(t) = p => task[t].attached) =>
      open[p] \subseteq MayStay(p)

(* shutdown: a process that was told to stop ends. Only two things can keep   *)
(* the server alive: an abandoned request that has connected a client again,  *)
(* and a client that a quit which rejected has left behind; not a failure     *)
(* elsewhere, for Promise.allSettled goes on. Nothing keeps the worker.       *)
Revived(p) == \E t \in Tasks : Owner(t) = p /\ task[t].late
ShutdownCompletes ==
  \A p \in Processes : phase[p] = "draining" ~>
    \/ phase[p] = "exited"
    \/ Revived(p)
    \/ p = "server" /\ open[p] \cap MayStay(p) # {}
==============================================================================
