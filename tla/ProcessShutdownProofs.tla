------------------------ MODULE ProcessShutdownProofs ------------------------
(* Whatever the order of signals, requests, jobs and calls, a shutdown cuts   *)
(* nothing off that it could have waited for, for any numbers of requests and *)
(* jobs. The property is not inductive: that the call of a job does not fail  *)
(* rests on the queue being connected, which rests on the phase of its       *)
(* process, which leaves "draining" only when no attached task is active.    *)
EXTENDS ProcessShutdown, TLAPS

(* A process that still works has its connection to the queue; one that is    *)
(* closing has nothing left but the subscriber and the clients whose quit     *)
(* rejected, unless a request that nobody waits for has connected one again. *)
Working == {"starting", "subscribing", "up", "draining"}
AllAttached(p) == \A t \in Tasks : Owner(t) = p => task[t].attached

ShutdownInv ==
  /\ TypeOK
  /\ NothingIsCutOff
  /\ \A t \in Tasks : task[t].stage = "waiting" => task[t].calls = 0
  /\ \A p \in Processes : phase[p] \in Working => "queue" \in open[p]
  /\ \A p \in Processes : AllAttached(p) =>
       /\ phase[p] = "closing" => open[p] \subseteq {"subscriber"} \cup rejected[p]
       /\ phase[p] = "closed" => open[p] \subseteq MayStay(p)

(* What the sequences of calls look like. *)
LEMMA CallsAreShort ==
  ASSUME NEW kind \in DOMAIN Calls
  PROVE  /\ Len(Calls[kind]) \in 2 .. 3
         /\ \A n \in 1 .. Len(Calls[kind]) : Calls[kind][n] \in Clients
         /\ kind # "health" => \A n \in 1 .. Len(Calls[kind]) : Calls[kind][n] # "redis"
         /\ \A n \in 1 .. Len(Calls[kind]) : Calls[kind][n] # "subscriber"
<1>1. kind \in {"bid", "create", "health", "job"}
  BY DEF Calls
<1>2. CASE kind = "bid"
  BY <1>2 DEF Calls, Clients
<1>3. CASE kind = "create"
  BY <1>3 DEF Calls, Clients
<1>4. CASE kind = "health"
  BY <1>4 DEF Calls, Clients
<1>5. CASE kind = "job"
  BY <1>5 DEF Calls, Clients
<1> QED BY <1>1, <1>2, <1>3, <1>4, <1>5

LEMMA OwnersAreProcesses == \A t \in Tasks : Owner(t) \in Processes
  BY DEF Owner, Processes

LEMMA InitShutdown == Init => ShutdownInv
<1> SUFFICES ASSUME Init PROVE ShutdownInv
  OBVIOUS
<1>1. Waiting \in Task /\ Waiting.stage = "waiting" /\ Waiting.calls = 0
      /\ Waiting.attached = TRUE /\ Waiting.late = FALSE
  BY DEF Waiting, Task, Calls
<1>2. \A t \in Tasks : task[t] = Waiting
  BY DEF Init
<1>3. TypeOK
  BY <1>1, <1>2 DEF Init, TypeOK, Processes, Clients
<1>4. NothingIsCutOff
  BY <1>1, <1>2 DEF NothingIsCutOff
<1>5. \A p \in Processes : phase[p] \in {"starting", "up"} /\ open[p] = {"queue"}
  BY DEF Init
<1> QED BY <1>1, <1>2, <1>3, <1>4, <1>5 DEF ShutdownInv

(* A task moves and no process changes its phase. *)
LEMMA BeginKeeps ==
  ASSUME ShutdownInv, NEW t \in Tasks, Begin(t)
  PROVE  ShutdownInv'
<1>1. PICK kind \in Kinds(t) :
        task' = [task EXCEPT ![t].stage = "active", ![t].kind = kind]
  BY DEF Begin
<1>2. kind \in DOMAIN Calls
  BY DEF Kinds, Calls
<1>3. /\ task[t] \in Task /\ task[t].stage = "waiting" /\ task[t].calls = 0
      /\ phase[Owner(t)] \in {"up", "draining"} /\ UNCHANGED <<phase, open, rejected>>
  BY OwnersAreProcesses DEF Begin, ShutdownInv, TypeOK, Accepting
<1>4. /\ task'[t] = [task[t] EXCEPT !.stage = "active", !.kind = kind]
      /\ \A u \in Tasks : u # t => task'[u] = task[u]
      /\ task' \in [Tasks -> Task]
  BY <1>1, <1>2, <1>3 DEF ShutdownInv, TypeOK, Task
<1>5. /\ task'[t].stage = "active" /\ task'[t].kind = kind /\ task'[t].calls = 0
      /\ task'[t].attached = task[t].attached /\ task'[t].late = task[t].late
  BY <1>3, <1>4 DEF Task
<1>6. TypeOK'
  <2>1. 0 < Len(Calls[kind])
    BY <1>2, CallsAreShort
  <2>2. \A u \in Tasks : task'[u].stage = "active" => task'[u].calls < Len(Calls[task'[u].kind])
    BY <1>4, <1>5, <2>1 DEF ShutdownInv, TypeOK
  <2> QED BY <1>3, <1>4, <2>2 DEF ShutdownInv, TypeOK
<1>7. NothingIsCutOff'
  BY <1>3, <1>4, <1>5 DEF ShutdownInv, NothingIsCutOff
<1>8. \A u \in Tasks : task'[u].attached = task[u].attached
  BY <1>4, <1>5
<1>9. \A p \in Processes : AllAttached(p)' <=> AllAttached(p)
  BY <1>8 DEF AllAttached
<1>10. \A u \in Tasks : task'[u].stage = "waiting" => task'[u].calls = 0
  BY <1>4, <1>5 DEF ShutdownInv
<1> QED BY <1>3, <1>6, <1>7, <1>9, <1>10 DEF ShutdownInv, MayStay

LEMMA CallKeeps ==
  ASSUME ShutdownInv, NEW t \in Tasks, Call(t)
  PROVE  ShutdownInv'
<1> DEFINE p == Owner(t)
           me == task[t]
           client == Calls[me.kind][me.calls + 1]
           usable == client \in open[p] \cup Lazy
<1>1. /\ p \in Processes /\ me \in Task /\ me.stage = "active" /\ phase' = phase
      /\ rejected' = rejected /\ phase[p] # "exited" /\ me.calls < Len(Calls[me.kind])
  BY OwnersAreProcesses DEF Call, ShutdownInv, TypeOK
<1>2. /\ me.kind \in DOMAIN Calls /\ me.calls \in 0 .. 3 /\ me.late \in BOOLEAN
      /\ me.calls + 1 \in 0 .. 3 /\ me.calls + 1 \in 1 .. Len(Calls[me.kind])
  <2>1. me.kind \in DOMAIN Calls /\ me.calls \in 0 .. 3 /\ me.late \in BOOLEAN
    BY <1>1 DEF Task
  <2>2. Len(Calls[me.kind]) \in 2 .. 3
    BY <2>1, CallsAreShort
  <2>3. \A n \in 0 .. 3, len \in 2 .. 3 : n < len => n + 1 \in 0 .. 3 /\ n + 1 \in 1 .. len
    OBVIOUS
  <2> QED BY <1>1, <2>1, <2>2, <2>3
<1>3. client \in Clients /\ (me.kind # "health" => client # "redis") /\ client # "subscriber"
  BY <1>2, CallsAreShort
<1>4. PICK calls \in 0 .. 3, late \in BOOLEAN, stage \in {"active", "done", "failed"} :
        /\ task' = [task EXCEPT ![t].calls = calls, ![t].late = late, ![t].stage = stage]
        /\ late <=> me.late \/ Stopping(p)
        /\ stage = "failed" => ~usable /\ me.kind # "health"
        /\ stage = "active" => calls < Len(Calls[me.kind])
  <2>1. task' = [task EXCEPT
       ![t].calls = IF usable \/ me.kind = "health" THEN @ + 1 ELSE @,
       ![t].late  = @ \/ Stopping(p),
       ![t].stage = IF ~usable /\ me.kind # "health" THEN "failed"
                    ELSE IF me.calls + 1 = Len(Calls[me.kind]) THEN "done" ELSE "active"]
    BY DEF Call
  <2> DEFINE calls == IF usable \/ me.kind = "health" THEN me.calls + 1 ELSE me.calls
             late  == me.late \/ Stopping(p)
             stage == IF ~usable /\ me.kind # "health" THEN "failed"
                      ELSE IF me.calls + 1 = Len(Calls[me.kind]) THEN "done" ELSE "active"
  <2>2. calls \in 0 .. 3 /\ stage \in {"active", "done", "failed"}
    <3>1. calls \in {me.calls, me.calls + 1} /\ stage \in {"active", "done", "failed"}
      OBVIOUS
    <3> HIDE DEF me, calls, stage
    <3> QED BY <1>2, <3>1
  <2>5. late \in BOOLEAN
    OBVIOUS
  <2>3. task' = [task EXCEPT ![t].calls = calls, ![t].late = late, ![t].stage = stage]
    BY <2>1, <1>1 DEF ShutdownInv, TypeOK, Task
  <2>4. stage = "active" => calls < Len(Calls[me.kind])
    BY <1>2
  <2> QED BY <2>2, <2>3, <2>4, <2>5
<1>5. /\ task' \in [Tasks -> Task]
      /\ task'[t] = [me EXCEPT !.calls = calls, !.late = late, !.stage = stage]
      /\ \A u \in Tasks : u # t => task'[u] = task[u]
  BY <1>1, <1>4 DEF ShutdownInv, TypeOK, Task
<1>6. /\ task'[t].stage = stage /\ task'[t].kind = me.kind /\ task'[t].calls = calls
      /\ task'[t].attached = me.attached /\ task'[t].late = late
  BY <1>1, <1>5 DEF Task
<1>7. /\ open'[p] = IF usable THEN open[p] \cup {client} ELSE open[p]
      /\ \A q \in Processes : q # p => open'[q] = open[q]
      /\ open' \in [Processes -> SUBSET Clients]
  BY <1>1, <1>3 DEF Call, ShutdownInv, TypeOK
<1>8. TypeOK'
  BY <1>1, <1>4, <1>5, <1>6, <1>7 DEF ShutdownInv, TypeOK
<1>9. me.attached => late = FALSE /\ stage # "failed" /\ phase[p] \in {"up", "draining"}
  <2> SUFFICES ASSUME me.attached PROVE late = FALSE /\ stage # "failed" /\ phase[p] \in {"up", "draining"}
    OBVIOUS
  <2>1. phase[p] \in {"up", "draining"} /\ ~me.late
    BY <1>1 DEF ShutdownInv, NothingIsCutOff
  <2>2. "queue" \in open[p]
    BY <1>1, <2>1 DEF ShutdownInv, Working
  <2>3. me.kind # "health" => usable
    BY <1>3, <2>2 DEF Clients, Lazy
  <2> QED BY <1>4, <2>1, <2>3 DEF Stopping
<1>10. NothingIsCutOff'
  <2> SUFFICES ASSUME NEW u \in Tasks, task'[u].attached
               PROVE  /\ ~task'[u].late /\ task'[u].stage # "failed"
                      /\ task'[u].stage = "active" => phase'[Owner(u)] \in {"up", "draining"}
    BY DEF NothingIsCutOff
  <2>1. CASE u = t
    BY <1>1, <1>6, <1>9, <2>1
  <2>2. CASE u # t
    BY <1>1, <1>5, <2>2 DEF ShutdownInv, NothingIsCutOff
  <2> QED BY <2>1, <2>2
<1>11. \A u \in Tasks : task'[u].stage = "waiting" => task'[u].calls = 0
  BY <1>4, <1>5, <1>6 DEF ShutdownInv
<1>12. \A q \in Processes : phase'[q] \in Working => "queue" \in open'[q]
  BY <1>1, <1>7 DEF ShutdownInv
<1>13. ASSUME NEW q \in Processes, AllAttached(q)'
       PROVE  /\ phase'[q] = "closing" => open'[q] \subseteq {"subscriber"} \cup rejected'[q]
              /\ phase'[q] = "closed" => open'[q] \subseteq MayStay(q)'
  <2>1. AllAttached(q)
    BY <1>5, <1>6, <1>13 DEF AllAttached
  <2>2. CASE q # p
    BY <1>1, <1>7, <2>1, <2>2 DEF ShutdownInv, MayStay
  <2>3. CASE q = p
    BY <1>1, <1>9, <2>1, <2>3 DEF AllAttached
  <2> QED BY <2>2, <2>3
<1> QED BY <1>8, <1>10, <1>11, <1>12, <1>13 DEF ShutdownInv

LEMMA AbandonKeeps ==
  ASSUME ShutdownInv, NEW t \in Tasks, Abandon(t)
  PROVE  ShutdownInv'
<1>1. /\ task[t] \in Task /\ UNCHANGED <<phase, open, rejected>>
      /\ task' = [task EXCEPT ![t].attached = FALSE]
  BY DEF Abandon, ShutdownInv, TypeOK
<1>2. /\ task' \in [Tasks -> Task]
      /\ task'[t] = [task[t] EXCEPT !.attached = FALSE]
      /\ \A u \in Tasks : u # t => task'[u] = task[u]
  BY <1>1 DEF ShutdownInv, TypeOK, Task
<1>3. /\ task'[t].attached = FALSE /\ task'[t].stage = task[t].stage
      /\ task'[t].calls = task[t].calls /\ task'[t].kind = task[t].kind
  BY <1>1, <1>2 DEF Task
<1>4. TypeOK'
  BY <1>1, <1>2, <1>3 DEF ShutdownInv, TypeOK
<1>5. NothingIsCutOff'
  BY <1>1, <1>2, <1>3 DEF ShutdownInv, NothingIsCutOff
<1>6. \A u \in Tasks : task'[u].attached => task[u].attached
  BY <1>2, <1>3
<1> QED BY <1>1, <1>2, <1>3, <1>4, <1>5, <1>6 DEF ShutdownInv, AllAttached, MayStay

(* A process p changes its phase, its clients or what it knows of their quits *)
(* and no task moves.                                                        *)
Changes(p, next, clients, failed) ==
  /\ phase' = [phase EXCEPT ![p] = next]
  /\ open' = [open EXCEPT ![p] = clients]
  /\ rejected' = [rejected EXCEPT ![p] = failed]
  /\ task' = task

Phases == {"starting", "subscribing", "up", "draining", "closing", "closed", "exited"}

LEMMA ProcessKeeps ==
  ASSUME ShutdownInv, NEW p \in Processes, NEW next \in Phases, NEW clients \in SUBSET Clients,
         NEW failed \in SUBSET Clients, Changes(p, next, clients, failed),
         next \in Working => "queue" \in clients,
         next \in {"up", "draining"} \/ Drained(p),
         AllAttached(p) /\ next = "closing" => clients \subseteq {"subscriber"} \cup failed,
         AllAttached(p) /\ next = "closed" =>
           clients \subseteq failed \cup (IF "publisher" \in failed THEN {"subscriber"} ELSE {})
  PROVE  ShutdownInv'
<1>1. TypeOK'
  BY DEF Changes, ShutdownInv, TypeOK, Phases
<1>2. /\ phase'[p] = next /\ open'[p] = clients /\ rejected'[p] = failed /\ task' = task
      /\ \A q \in Processes : q # p =>
           phase'[q] = phase[q] /\ open'[q] = open[q] /\ rejected'[q] = rejected[q]
  BY DEF Changes, ShutdownInv, TypeOK
<1>3. NothingIsCutOff'
  <2> SUFFICES ASSUME NEW t \in Tasks, task[t].attached, task[t].stage = "active"
               PROVE  phase'[Owner(t)] \in {"up", "draining"}
    BY <1>2 DEF ShutdownInv, NothingIsCutOff
  <2>1. phase[Owner(t)] \in {"up", "draining"}
    BY DEF ShutdownInv, NothingIsCutOff
  <2>2. CASE Owner(t) = p
    BY <1>2, <2>2 DEF Drained
  <2>3. CASE Owner(t) # p
    BY <1>2, <2>1, <2>3, OwnersAreProcesses
  <2> QED BY <2>2, <2>3
<1>4. \A q \in Processes : AllAttached(q)' <=> AllAttached(q)
  BY <1>2 DEF AllAttached
<1>5. \A q \in Processes : phase'[q] \in Working => "queue" \in open'[q]
  BY <1>2 DEF ShutdownInv
<1>6. \A q \in Processes : AllAttached(q) =>
        /\ phase'[q] = "closing" => open'[q] \subseteq {"subscriber"} \cup rejected'[q]
        /\ phase'[q] = "closed" => open'[q] \subseteq MayStay(q)'
  BY <1>2 DEF ShutdownInv, MayStay
<1> QED BY <1>1, <1>2, <1>3, <1>4, <1>5, <1>6 DEF ShutdownInv

(* Before a process works it has no task, and once it has drained no attached *)
(* one is active.                                                            *)
LEMMA NoneActive ==
  ASSUME ShutdownInv, NEW p \in Processes, phase[p] \notin {"up", "draining"}
  PROVE  Drained(p)
  BY DEF ShutdownInv, NothingIsCutOff, Drained

LEMMA StartKeeps ==
  ASSUME ShutdownInv, ConnectRedis \/ SubscribeAndListen
  PROVE  ShutdownInv'
<1>1. /\ "server" \in Processes /\ open["server"] \in SUBSET Clients
      /\ rejected["server"] \in SUBSET Clients
      /\ rejected = [rejected EXCEPT !["server"] = rejected["server"]]
  BY DEF ShutdownInv, TypeOK, Processes
<1>2. CASE ConnectRedis
  <2> DEFINE clients == open["server"] \cup {"redis"}
  <2>1. "queue" \in clients /\ phase["server"] \notin {"up", "draining"}
    BY <1>1, <1>2 DEF ConnectRedis, ShutdownInv, Working
  <2>2. clients \in SUBSET Clients /\ "subscribing" \in Phases
    BY <1>1 DEF Clients, Phases
  <2>3. Changes("server", "subscribing", clients, rejected["server"])
    BY <1>1, <1>2 DEF ConnectRedis, Become, Changes
  <2> HIDE DEF clients
  <2> QED BY <1>1, <2>1, <2>2, <2>3, NoneActive, ProcessKeeps
<1>3. CASE SubscribeAndListen
  <2> DEFINE clients == open["server"] \cup {"subscriber"}
  <2>1. "queue" \in clients
    BY <1>1, <1>3 DEF SubscribeAndListen, ShutdownInv, Working
  <2>2. clients \in SUBSET Clients /\ "up" \in Phases
    BY <1>1 DEF Clients, Phases
  <2>3. Changes("server", "up", clients, rejected["server"])
    BY <1>1, <1>3 DEF SubscribeAndListen, Become, Changes
  <2> HIDE DEF clients
  <2> QED BY <1>1, <2>1, <2>2, <2>3, ProcessKeeps
<1> QED BY <1>2, <1>3

LEMMA ExitKeeps ==
  ASSUME ShutdownInv, NEW p \in Processes, NEW failed \in SUBSET Clients,
         Changes(p, "exited", {}, failed),
         phase[p] \notin {"up", "draining"}
  PROVE  ShutdownInv'
<1>1. {} \in SUBSET Clients /\ "exited" \in Phases /\ "exited" \notin Working
  BY DEF Working, Phases
<1> QED BY <1>1, NoneActive, ProcessKeeps

LEMMA SignalKeeps ==
  ASSUME ShutdownInv, NEW p \in Processes, Signal(p)
  PROVE  ShutdownInv'
<1>1. /\ open[p] \in SUBSET Clients /\ open = [open EXCEPT ![p] = open[p]]
      /\ rejected[p] \in SUBSET Clients /\ rejected = [rejected EXCEPT ![p] = rejected[p]]
  BY DEF ShutdownInv, TypeOK
<1>2. CASE phase[p] = "up"
  <2>1. Changes(p, "draining", open[p], rejected[p])
    BY <1>1, <1>2 DEF Signal, Become, Changes
  <2>2. "queue" \in open[p] /\ "draining" \in Phases
    BY <1>2 DEF ShutdownInv, Working, Phases
  <2> QED BY <1>1, <2>1, <2>2, ProcessKeeps
<1>3. CASE phase[p] \in {"starting", "subscribing"}
  <2>1. Changes(p, "exited", {}, rejected[p])
    BY <1>1, <1>3 DEF Signal, Become, Changes
  <2> QED BY <1>1, <1>3, <2>1, ExitKeeps
<1> QED BY <1>2, <1>3 DEF Signal

LEMMA StopKeeps ==
  ASSUME ShutdownInv, NEW p \in Processes, Stop(p)
  PROVE  ShutdownInv'
<1>1. /\ open[p] \in SUBSET Clients /\ rejected[p] \in SUBSET Clients
      /\ open = [open EXCEPT ![p] = open[p]]
      /\ rejected = [rejected EXCEPT ![p] = rejected[p]]
  BY DEF ShutdownInv, TypeOK
<1>2. CASE CloseClients(p)
  <2>1. PICK failed \in SUBSET (open[p] \ {"subscriber"}), kept \in SUBSET Clients :
          /\ kept \subseteq failed
          /\ rejected' = [rejected EXCEPT ![p] = failed]
          /\ open' = [open EXCEPT ![p] = (@ \cap {"subscriber"}) \cup kept]
    BY <1>1, <1>2 DEF CloseClients
  <2> DEFINE clients == (open[p] \cap {"subscriber"}) \cup kept
  <2>2. Changes(p, "closing", clients, failed) /\ Drained(p)
    BY <1>2, <2>1 DEF CloseClients, Become, Changes
  <2>3. /\ clients \in SUBSET Clients /\ failed \in SUBSET Clients
        /\ clients \subseteq {"subscriber"} \cup failed
        /\ "closing" \in Phases /\ "closing" \notin Working
    BY <1>1, <2>1 DEF Working, Phases
  <2> HIDE DEF clients
  <2> QED BY <2>2, <2>3, ProcessKeeps
<1>3. CASE FinishClosing(p)
  <2>1. /\ phase[p] = "closing" /\ Drained(p)
        /\ "closed" \in Phases /\ "closed" \notin Working
    BY <1>3, NoneActive DEF FinishClosing, Working, Phases
  <2>2. AllAttached(p) => open[p] \subseteq {"subscriber"} \cup rejected[p]
    BY <2>1 DEF ShutdownInv
  <2>3. CASE "publisher" \in rejected[p]
    <3>1. Changes(p, "closed", open[p], rejected[p])
      BY <1>1, <1>3, <2>3 DEF FinishClosing, Become, Changes
    <3> QED BY <1>1, <2>1, <2>2, <2>3, <3>1, ProcessKeeps
  <2>4. CASE "publisher" \notin rejected[p]
    <3>1. PICK failed \in SUBSET (open[p] \cap {"subscriber"}), kept \in SUBSET Clients :
            /\ kept \subseteq failed
            /\ rejected' = [rejected EXCEPT ![p] = @ \cup failed]
            /\ open' = [open EXCEPT ![p] = (@ \ {"subscriber"}) \cup kept]
      BY <1>1, <1>3, <2>4 DEF FinishClosing
    <3> DEFINE clients == (open[p] \ {"subscriber"}) \cup kept
               noted   == rejected[p] \cup failed
    <3>2. Changes(p, "closed", clients, noted)
      BY <1>3, <3>1 DEF FinishClosing, Become, Changes
    <3>3. /\ clients \in SUBSET Clients /\ noted \in SUBSET Clients
          /\ AllAttached(p) => clients \subseteq noted
      BY <1>1, <2>2, <3>1
    <3> HIDE DEF clients, noted
    <3> QED BY <2>1, <3>2, <3>3, ProcessKeeps
  <2> QED BY <2>3, <2>4
<1>4. CASE Exit(p)
  <2>1. Changes(p, "exited", {}, {}) /\ phase[p] = "closed"
    BY <1>4 DEF Exit, Become, Changes
  <2> QED BY <2>1, ExitKeeps
<1> QED BY <1>2, <1>3, <1>4 DEF Stop

LEMMA NextKeeps == ShutdownInv /\ [Next]_vars => ShutdownInv'
<1> SUFFICES ASSUME ShutdownInv, [Next]_vars PROVE ShutdownInv'
  OBVIOUS
<1>1. CASE ConnectRedis \/ SubscribeAndListen
  BY <1>1, StartKeeps
<1>2. ASSUME NEW p \in Processes, Signal(p) PROVE ShutdownInv'
  BY <1>2, SignalKeeps
<1>3. ASSUME NEW p \in Processes, Stop(p) PROVE ShutdownInv'
  BY <1>3, StopKeeps
<1>4. ASSUME NEW t \in Tasks, Begin(t) PROVE ShutdownInv'
  BY <1>4, BeginKeeps
<1>5. ASSUME NEW t \in Tasks, Call(t) PROVE ShutdownInv'
  BY <1>5, CallKeeps
<1>6. ASSUME NEW t \in Tasks, Abandon(t) PROVE ShutdownInv'
  BY <1>6, AbandonKeeps
<1>7. CASE UNCHANGED vars
  BY <1>7 DEF vars, ShutdownInv, TypeOK, NothingIsCutOff, AllAttached, MayStay
<1> QED BY <1>1, <1>2, <1>3, <1>4, <1>5, <1>6, <1>7 DEF Next

LEMMA ShutdownInvHolds == Spec => []ShutdownInv
<1> QED BY InitShutdown, NextKeeps, PTL DEF Spec

(* The phases, the open clients and the tasks have their types, and a task    *)
(* never makes more calls than its handler has.                              *)
THEOREM ShutdownTypeCorrect == Spec => []TypeOK
<1>1. ShutdownInv => TypeOK
  BY DEF ShutdownInv
<1> QED BY <1>1, ShutdownInvHolds, PTL

(* shutdown of both processes: no job, and no request whose client is still   *)
(* there, is cut off between two of its calls or finds a client closed.      *)
THEOREM ShutdownCutsNothingOff == Spec => []NothingIsCutOff
<1>1. ShutdownInv => NothingIsCutOff
  BY DEF ShutdownInv
<1> QED BY <1>1, ShutdownInvHolds, PTL

(* shutdown of both processes, closeSocketEventRedis: when the shutdown is     *)
(* done with its clients, only those whose own quit rejected and the          *)
(* subscriber behind a publisher whose quit rejected can still be open,       *)
(* however many reject, unless an abandoned request has opened one again.    *)
THEOREM ShutdownLeavesNothingOpen == Spec => []NothingIsLeftOpen
<1>1. ShutdownInv => NothingIsLeftOpen
  BY DEF ShutdownInv, NothingIsLeftOpen, AllAttached
<1> QED BY <1>1, ShutdownInvHolds, PTL
==============================================================================
