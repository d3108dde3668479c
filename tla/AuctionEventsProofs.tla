-------------------------- MODULE AuctionEventsProofs --------------------------
(* What watchers are told, for any numbers of bidders, sockets, messages and  *)
(* faults. No event runs ahead of the database: a request that is about to    *)
(* publish has a committed bid, and the price stands once the auction has     *)
(* ended (CommittedInv). The answers to joins and leaves end with the truth:  *)
(* the last one still on a wire agrees with the room (RoomInv). A client that *)
(* waits for each answer is where it asked to be: every request of a client   *)
(* is in its inbox, in a lookup or answered on its wire, once (RequestsInv).  *)
(* And a watcher misses nothing that is not lost: what it does not show yet   *)
(* is still to be published or on its way to it (FollowInv).                 *)
EXTENDS AuctionEvents, SequenceTheorems, FiniteSetTheorems, FunctionTheorems,
        WellFoundedInduction, TLAPS

News    == [event: {"auction:bid", "auction:ended"}, price: Nat]
Message == News \cup Answer
Request == [stage: {"idle", "publish", "created", "failed"}, price: Nat]

(* An event is true of a row with this price and this status. *)
Backed(e, p, st) ==
  /\ e.event = "auction:bid" => e.price \in 1 .. p
  /\ e.event = "auction:ended" => st = "ENDED" /\ e.price = p
Sound(q, S, p, st) == q \in Seq(S) /\ \A i \in 1 .. Len(q) : Backed(q[i], p, st)

RowInv ==
  /\ price \in Nat /\ status \in {"LIVE", "ENDED"}
  /\ bid \in [Bidders -> Request]
  /\ \A b \in Bidders : bid[b].stage = "publish" => bid[b].price \in 1 .. price
  /\ ending \in {"idle", "publish", "done"} /\ (ending # "idle" => status = "ENDED")
WiresInv ==
  /\ Sound(channel, News, price, status)
  /\ wire \in [Sockets -> Seq(Message)]
  /\ \A s \in Sockets : Sound(wire[s], Message, price, status)
CommittedInv == RowInv /\ WiresInv

------------------------------------------------------------------------------
(* Sequences of events *)

LEMMA EmptyIsSound ==
  ASSUME NEW S, NEW p, NEW st
  PROVE  Sound(<<>>, S, p, st)
<1>1. <<>> \in Seq(S) /\ Len(<<>>) = 0
  OBVIOUS
<1> QED BY <1>1 DEF Sound

LEMMA AppendIsSound ==
  ASSUME NEW S, NEW p, NEW st, NEW q, NEW m \in S, Sound(q, S, p, st), Backed(m, p, st)
  PROVE  Sound(Append(q, m), S, p, st)
<1>1. q \in Seq(S) /\ \A i \in 1 .. Len(q) : Backed(q[i], p, st)
  BY DEF Sound
<1>2. /\ Append(q, m) \in Seq(S) /\ Len(Append(q, m)) = Len(q) + 1
      /\ \A i \in 1 .. Len(q) : Append(q, m)[i] = q[i]
      /\ Append(q, m)[Len(q) + 1] = m
  BY <1>1, AppendProperties
<1>3. ASSUME NEW i \in 1 .. Len(Append(q, m)) PROVE Backed(Append(q, m)[i], p, st)
  <2>1. Len(q) \in Nat
    BY <1>1
  <2>2. CASE i \in 1 .. Len(q)
    BY <1>1, <1>2, <2>2
  <2>3. CASE i = Len(q) + 1
    BY <1>2, <2>3
  <2> QED BY <1>2, <2>1, <2>2, <2>3
<1> QED BY <1>2, <1>3 DEF Sound

LEMMA TailIsSound ==
  ASSUME NEW S, NEW p, NEW st, NEW q, Sound(q, S, p, st), q # <<>>
  PROVE  /\ Head(q) \in S /\ Backed(Head(q), p, st)
         /\ Sound(Tail(q), S, p, st)
<1>1. q \in Seq(S) /\ \A i \in 1 .. Len(q) : Backed(q[i], p, st)
  BY DEF Sound
<1>2. /\ Head(q) \in S /\ Tail(q) \in Seq(S) /\ Len(Tail(q)) = Len(q) - 1
      /\ \A i \in 1 .. Len(Tail(q)) : Tail(q)[i] = q[i + 1]
  BY <1>1, HeadTailProperties
<1>3. Head(q) = q[1] /\ Len(q) \in Nat \ {0}
  BY <1>1
<1>4. ASSUME NEW i \in 1 .. Len(Tail(q)) PROVE Backed(Tail(q)[i], p, st)
  <2>1. i + 1 \in 1 .. Len(q)
    BY <1>2, <1>3
  <2> QED BY <1>1, <1>2, <2>1
<1>5. Backed(Head(q), p, st)
  <2>1. 1 \in 1 .. Len(q)
    BY <1>3
  <2> QED BY <1>1, <1>3, <2>1
<1> QED BY <1>2, <1>4, <1>5 DEF Sound

(* Prices rise until the auction has ended. *)
LEMMA StaysSound ==
  ASSUME NEW S, NEW p \in Nat, NEW st, NEW q, Sound(q, S, p, st),
         NEW later \in Nat, NEW then, p <= later,
         st = "ENDED" => later = p /\ then = "ENDED"
  PROVE  Sound(q, S, later, then)
<1>1. ASSUME NEW e, Backed(e, p, st) PROVE Backed(e, later, then)
  BY <1>1 DEF Backed
<1> QED BY <1>1 DEF Sound

(* What is published reaches the channel or nobody. *)
LEMMA PublishKeeps ==
  ASSUME Sound(channel, News, price, status), NEW e \in News, Backed(e, price, status), Publish(e)
  PROVE  Sound(channel', News, price, status)
<1>1. channel' = channel \/ channel' = Append(channel, e)
  BY DEF Publish
<1> QED BY <1>1, AppendIsSound

LEMMA EmitKeeps ==
  ASSUME WiresInv, NEW s \in Sockets, NEW m \in Answer, Emit(s, m)
  PROVE  /\ wire' \in [Sockets -> Seq(Message)]
         /\ \A u \in Sockets : Sound(wire'[u], Message, price, status)
<1>1. m \in Message /\ Backed(m, price, status)
  BY DEF Message, Answer, Backed
<1>2. Sound(Append(wire[s], m), Message, price, status)
  BY <1>1, AppendIsSound DEF WiresInv
<1>3. wire' = [wire EXCEPT ![s] = Append(wire[s], m)] /\ Append(wire[s], m) \in Seq(Message)
  BY <1>2 DEF Emit, Sound
<1> QED BY <1>2, <1>3 DEF WiresInv

------------------------------------------------------------------------------
(* The requests, the END job and Redis *)

LEMMA InitCommitted == Init => CommittedInv
<1> SUFFICES ASSUME Init PROVE CommittedInv
  OBVIOUS
<1>1. RowInv
  BY DEF Init, RowInv, Request
<1>2. wire \in [Sockets -> Seq(Message)] /\ \A s \in Sockets : wire[s] = <<>>
  BY EmptyIsSound DEF Init, Sound
<1> QED BY <1>1, <1>2, EmptyIsSound DEF Init, CommittedInv, WiresInv

LEMMA PlaceBidKeeps ==
  ASSUME CommittedInv, NEW b \in Bidders, PlaceBid(b)
  PROVE  CommittedInv'
<1> DEFINE new == [stage |-> "publish", price |-> price + 1]
<1>1. /\ price \in Nat /\ price' = price + 1 /\ status = "LIVE" /\ status' = status
      /\ bid' = [bid EXCEPT ![b] = new] /\ UNCHANGED <<ending, channel, wire>>
  BY DEF PlaceBid, CommittedInv, RowInv, Ended, redis, sockets
<1>2. new \in Request /\ bid' \in [Bidders -> Request]
  BY <1>1 DEF CommittedInv, RowInv, Request
<1>3. \A c \in Bidders : bid'[c].stage = "publish" => bid'[c].price \in 1 .. price'
  BY <1>1 DEF CommittedInv, RowInv, Request
<1>4. RowInv'
  BY <1>1, <1>2, <1>3 DEF CommittedInv, RowInv
<1>5. ASSUME NEW S, NEW q, Sound(q, S, price, status) PROVE Sound(q, S, price', status')
  BY <1>1, <1>5, StaysSound
<1>6. WiresInv'
  BY <1>1, <1>5 DEF CommittedInv, WiresInv
<1> QED BY <1>4, <1>6 DEF CommittedInv

LEMMA EndAuctionKeeps ==
  ASSUME CommittedInv, EndAuction
  PROVE  CommittedInv'
<1>1. /\ price \in Nat /\ price' = price /\ status' = "ENDED" /\ ending' = "publish"
      /\ UNCHANGED <<bid, channel, wire>>
  BY DEF EndAuction, CommittedInv, RowInv, redis, sockets
<1>2. RowInv'
  BY <1>1 DEF CommittedInv, RowInv
<1>3. ASSUME NEW S, NEW q, Sound(q, S, price, status) PROVE Sound(q, S, price', status')
  BY <1>1, <1>3, StaysSound
<1>4. WiresInv'
  BY <1>1, <1>3 DEF CommittedInv, WiresInv
<1> QED BY <1>2, <1>4 DEF CommittedInv

(* A publication: the event is backed by what has been committed. *)
LEMMA PublicationKeeps ==
  ASSUME CommittedInv,
         PublishEnd \/ \E b \in Bidders : PublishBid(b) \/ PublishFails(b)
  PROVE  CommittedInv'
<1>1. CASE PublishEnd
  <2>1. /\ status = "ENDED" /\ ending' = "done" /\ Publish(EndedEvent)
        /\ UNCHANGED <<price, status, bid, wire>>
    BY <1>1 DEF PublishEnd, CommittedInv, RowInv, row, sockets
  <2>2. EndedEvent \in News /\ Backed(EndedEvent, price, status)
    BY <2>1 DEF EndedEvent, News, Backed, CommittedInv, RowInv
  <2>3. Sound(channel', News, price, status)
    BY <2>1, <2>2, PublishKeeps DEF CommittedInv, WiresInv
  <2> QED BY <2>1, <2>3 DEF CommittedInv, RowInv, WiresInv
<1>2. ASSUME NEW b \in Bidders, PublishBid(b) \/ PublishFails(b)
      PROVE  CommittedInv'
  <2>1. PICK stage \in {"created", "failed"} :
          /\ bid[b].stage = "publish"
          /\ bid' = [bid EXCEPT ![b].stage = stage]
          /\ Publish(BidEvent(bid[b].price)) \/ channel' = channel
          /\ UNCHANGED <<price, status, ending, wire>>
    BY <1>2 DEF PublishBid, PublishFails, row, sockets
  <2>2. bid[b] \in Request /\ bid[b].price \in 1 .. price /\ price \in Nat
    BY <2>1 DEF CommittedInv, RowInv
  <2>3. /\ [bid[b] EXCEPT !.stage = stage] \in Request
        /\ bid' \in [Bidders -> Request] /\ bid'[b].stage # "publish"
        /\ \A c \in Bidders : c # b => bid'[c] = bid[c]
    BY <2>1, <2>2 DEF CommittedInv, RowInv, Request
  <2>4. BidEvent(bid[b].price) \in News /\ Backed(BidEvent(bid[b].price), price, status)
    BY <2>2 DEF BidEvent, News, Backed
  <2>5. Sound(channel', News, price, status)
    BY <2>1, <2>4, PublishKeeps DEF CommittedInv, WiresInv
  <2> QED BY <2>1, <2>3, <2>5 DEF CommittedInv, RowInv, WiresInv
<1> QED BY <1>1, <1>2

LEMMA OutageKeeps ==
  ASSUME CommittedInv, LoseSubscription \/ ServerCrash \/ Subscribe
  PROVE  CommittedInv'
<1>1. /\ UNCHANGED <<price, status, ending>>
      /\ channel' = channel \/ channel' = <<>>
      /\ wire' = wire \/ wire' = [s \in Sockets |-> <<>>]
  BY DEF LoseSubscription, ServerCrash, Subscribe, row, sockets
<1>2. /\ bid' \in [Bidders -> Request]
      /\ \A b \in Bidders : bid'[b].stage = "publish" => bid'[b] = bid[b]
  <2>1. CASE ServerCrash
    <3>1. \A b \in Bidders : bid'[b] = IF bid[b].stage = "publish"
                                       THEN [bid[b] EXCEPT !.stage = "failed"] ELSE bid[b]
      BY <2>1 DEF ServerCrash
    <3>2. \A b \in Bidders : bid[b] \in Request
      BY DEF CommittedInv, RowInv
    <3>3. \A b \in Bidders : bid'[b] \in Request /\ (bid'[b].stage = "publish" => bid'[b] = bid[b])
      BY <3>1, <3>2 DEF Request
    <3> QED BY <2>1, <3>3 DEF ServerCrash
  <2>2. CASE LoseSubscription \/ Subscribe
    BY <2>2 DEF LoseSubscription, Subscribe, CommittedInv, RowInv
  <2> QED BY <2>1, <2>2
<1>3. RowInv'
  BY <1>1, <1>2 DEF CommittedInv, RowInv
<1>4. Sound(channel', News, price, status)
  BY <1>1, EmptyIsSound DEF CommittedInv, WiresInv
<1>5. /\ wire' \in [Sockets -> Seq(Message)]
      /\ \A s \in Sockets : Sound(wire'[s], Message, price, status)
  <2>1. <<>> \in Seq(Message) /\ Sound(<<>>, Message, price, status)
    BY EmptyIsSound DEF Sound
  <2> QED BY <1>1, <2>1 DEF CommittedInv, WiresInv
<1> QED BY <1>1, <1>3, <1>4, <1>5 DEF CommittedInv, WiresInv

------------------------------------------------------------------------------
(* The server's sockets and their clients *)

LEMMA BroadcastKeeps ==
  ASSUME CommittedInv, Broadcast
  PROVE  CommittedInv'
<1>1. /\ channel # <<>> /\ channel' = Tail(channel)
      /\ wire' = [s \in Sockets |->
                    IF s \in room THEN Append(wire[s], Head(channel)) ELSE wire[s]]
      /\ UNCHANGED <<price, status, bid, ending>>
  BY DEF Broadcast, row
<1>2. /\ Head(channel) \in News /\ Backed(Head(channel), price, status)
      /\ Sound(channel', News, price, status)
  BY <1>1, TailIsSound DEF CommittedInv, WiresInv
<1>3. \A s \in Sockets : Sound(wire'[s], Message, price, status)
  <2>1. Head(channel) \in Message
    BY <1>2 DEF Message
  <2> QED BY <1>1, <1>2, <2>1, AppendIsSound DEF CommittedInv, WiresInv
<1>4. wire' \in [Sockets -> Seq(Message)]
  BY <1>1, <1>3 DEF Sound
<1> QED BY <1>1, <1>2, <1>3, <1>4 DEF CommittedInv, RowInv, WiresInv

(* A socket answers, receives or breaks: the row and the channel stay.       *)
LEMMA SocketKeeps ==
  ASSUME CommittedInv, NEW s \in Sockets,
         \/ HandleJoin(s) \/ JoinRoom(s) \/ LookupFails(s) \/ HandleLeave(s) \/ Disconnect(s)
         \/ Ask(s, "join") \/ Ask(s, "leave") \/ Receive(s) \/ Fetch(s)
  PROVE  CommittedInv'
<1>1. UNCHANGED <<price, status, bid, ending, channel>>
  BY DEF HandleJoin, JoinRoom, LookupFails, HandleLeave, Disconnect, Ask, Receive, Fetch,
         row, redis
<1>2. /\ wire' \in [Sockets -> Seq(Message)]
      /\ \A u \in Sockets : Sound(wire'[u], Message, price, status)
  <2>1. CASE HandleJoin(s) \/ Ask(s, "join") \/ Ask(s, "leave") \/ Fetch(s)
    BY <2>1 DEF HandleJoin, Ask, Fetch, CommittedInv, WiresInv
  <2>2. CASE JoinRoom(s) \/ LookupFails(s) \/ HandleLeave(s)
    <3>1. PICK what \in {"auction:joined", "auction:left", "auction:error"} :
            Emit(s, [event |-> what])
      BY <2>2 DEF JoinRoom, LookupFails, HandleLeave
    <3>2. [event |-> what] \in Answer
      BY DEF Answer
    <3> QED BY <3>1, <3>2, EmitKeeps DEF CommittedInv
  <2>3. CASE Disconnect(s)
    <3>1. <<>> \in Seq(Message) /\ Sound(<<>>, Message, price, status)
      BY EmptyIsSound DEF Sound
    <3> QED BY <2>3, <3>1 DEF Disconnect, CommittedInv, WiresInv
  <2>4. CASE Receive(s)
    <3>1. wire[s] # <<>> /\ wire' = [wire EXCEPT ![s] = Tail(wire[s])]
      BY <2>4 DEF Receive
    <3>2. Sound(Tail(wire[s]), Message, price, status)
      BY <3>1, TailIsSound DEF CommittedInv, WiresInv
    <3>3. Tail(wire[s]) \in Seq(Message)
      BY <3>2 DEF Sound
    <3> QED BY <3>1, <3>2, <3>3 DEF CommittedInv, WiresInv
  <2> QED BY <2>1, <2>2, <2>3, <2>4
<1> QED BY <1>1, <1>2 DEF CommittedInv, RowInv, WiresInv

LEMMA StepCommitted == CommittedInv /\ [Next]_vars => CommittedInv'
<1> SUFFICES ASSUME CommittedInv, [Next]_vars PROVE CommittedInv'
  OBVIOUS
<1>1. CASE EndAuction
  BY <1>1, EndAuctionKeeps
<1>2. CASE Broadcast
  BY <1>2, BroadcastKeeps
<1>3. CASE LoseSubscription \/ ServerCrash \/ Subscribe
  BY <1>3, OutageKeeps
<1>4. CASE \E b \in Bidders : PlaceBid(b)
  BY <1>4, PlaceBidKeeps
<1>5. CASE PublishEnd \/ \E b \in Bidders : PublishBid(b) \/ PublishFails(b)
  BY <1>5, PublicationKeeps
<1>6. CASE \E s \in Sockets :
       \/ HandleJoin(s) \/ JoinRoom(s) \/ LookupFails(s) \/ HandleLeave(s) \/ Disconnect(s)
       \/ Ask(s, "join") \/ Ask(s, "leave") \/ Receive(s) \/ Fetch(s)
  BY <1>6, SocketKeeps
<1>7. CASE UNCHANGED vars
  BY <1>7 DEF vars, row, redis, sockets, CommittedInv, RowInv, WiresInv
<1> QED BY <1>1, <1>2, <1>3, <1>4, <1>5, <1>6, <1>7 DEF Next

(* postBidService, auction.worker.ts: every event on the channel or on a wire *)
(* is committed, in every reachable state and for any number of bidders.     *)
THEOREM EventsAlwaysCommitted == Spec => []EventsAreCommitted
<1>1. CommittedInv => EventsAreCommitted
  <2> SUFFICES ASSUME CommittedInv, NEW e \in OnTheWay
               PROVE  Backed(e, price, status)
    BY DEF EventsAreCommitted, Backed, Ended
  <2>1. CASE e \in Range(channel)
    <3>1. PICK i \in DOMAIN channel : e = channel[i]
      BY <2>1 DEF Range
    <3>2. i \in 1 .. Len(channel)
      BY DEF CommittedInv, WiresInv, Sound
    <3> QED BY <3>1, <3>2 DEF CommittedInv, WiresInv, Sound
  <2>2. ASSUME NEW s \in Sockets, e \in Range(wire[s])
        PROVE  Backed(e, price, status)
    <3>1. PICK i \in DOMAIN wire[s] : e = wire[s][i]
      BY <2>2 DEF Range
    <3>2. i \in 1 .. Len(wire[s])
      BY DEF CommittedInv, WiresInv
    <3> QED BY <3>1, <3>2 DEF CommittedInv, WiresInv, Sound
  <2> QED BY <2>1, <2>2 DEF OnTheWay
<1> QED BY <1>1, InitCommitted, StepCommitted, PTL DEF Spec

------------------------------------------------------------------------------
(* The last word on a wire: of the answers that say whether a socket is in    *)
(* the room, the last one agrees with the room; when none is under way, the   *)
(* client itself does.                                                       *)
Telling  == {"auction:joined", "auction:left"}
Words(q) == {i \in 1 .. Len(q) : q[i].event \in Telling}
LastWord(q, inside, s, R) ==
  /\ Words(q) = {} => (inside <=> s \in R)
  /\ \A i \in Words(q) : (\A j \in Words(q) : j <= i) =>
       (q[i].event = "auction:joined" <=> s \in R)

Person == [asked: {"join", "leave"}, waiting: Int, sent: Int, patient: BOOLEAN,
           inside: BOOLEAN, fetched: BOOLEAN, view: [price: Nat, status: {"LIVE", "ENDED"}]]

RoomInv ==
  /\ client \in [Sockets -> Person]
  /\ \A s \in Sockets : LastWord(wire[s], client[s].inside, s, room)

LEMMA EmptyLastWord ==
  ASSUME NEW s, NEW R, s \notin R
  PROVE  LastWord(<<>>, FALSE, s, R)
<1>1. Words(<<>>) = {}
  BY DEF Words
<1> QED BY <1>1 DEF LastWord

LEMMA WordsOfAppend ==
  ASSUME NEW q \in Seq(Message), NEW m \in Message
  PROVE  /\ m.event \in Telling => Words(Append(q, m)) = Words(q) \cup {Len(q) + 1}
         /\ m.event \notin Telling => Words(Append(q, m)) = Words(q)
         /\ \A i \in Words(q) : i < Len(q) + 1 /\ Append(q, m)[i] = q[i]
         /\ Append(q, m)[Len(q) + 1] = m
         /\ \A i \in Words(q) : i \in Nat
<1>1. /\ Len(Append(q, m)) = Len(q) + 1 /\ Len(q) \in Nat
      /\ \A i \in 1 .. Len(q) : Append(q, m)[i] = q[i]
      /\ Append(q, m)[Len(q) + 1] = m
  BY AppendProperties
<1>2. 1 .. (Len(q) + 1) = (1 .. Len(q)) \cup {Len(q) + 1} /\ Len(q) + 1 \notin 1 .. Len(q)
  BY <1>1
<1>3. Words(Append(q, m)) = {i \in 1 .. (Len(q) + 1) : Append(q, m)[i].event \in Telling}
  BY <1>1 DEF Words
<1>4. \A i \in 1 .. Len(q) : i \in Nat /\ i < Len(q) + 1
  BY <1>1
<1> QED BY <1>1, <1>2, <1>3, <1>4 DEF Words

(* An answer that follows from a change of the room is the last word on it. *)
LEMMA AnswerIsLastWord ==
  ASSUME NEW q \in Seq(Message), NEW m \in Message, m.event \in Telling, NEW inside,
         NEW s, NEW R, m.event = "auction:joined" <=> s \in R
  PROVE  LastWord(Append(q, m), inside, s, R)
<1>1. /\ Words(Append(q, m)) = Words(q) \cup {Len(q) + 1}
      /\ \A i \in Words(q) : i < Len(q) + 1 /\ i \in Nat
      /\ Append(q, m)[Len(q) + 1] = m /\ Len(q) \in Nat
  BY WordsOfAppend
<1>2. ASSUME NEW i \in Words(Append(q, m)), \A j \in Words(Append(q, m)) : j <= i
      PROVE  i = Len(q) + 1
  <2>1. i \in Words(q) \/ i = Len(q) + 1
    BY <1>1
  <2>2. Len(q) + 1 <= i
    BY <1>1, <1>2
  <2>3. i \notin Words(q)
    <3> SUFFICES ASSUME i \in Words(q) PROVE FALSE
      OBVIOUS
    <3>1. i < Len(q) + 1 /\ i \in Nat
      BY <1>1
    <3> QED BY <1>1, <2>2, <3>1
  <2> QED BY <2>1, <2>3
<1> QED BY <1>1, <1>2 DEF LastWord

LEMMA OtherMessages ==
  ASSUME NEW q \in Seq(Message), NEW m \in Message, m.event \notin Telling, NEW inside,
         NEW s, NEW R, LastWord(q, inside, s, R)
  PROVE  LastWord(Append(q, m), inside, s, R)
<1>1. /\ Words(Append(q, m)) = Words(q)
      /\ \A i \in Words(q) : Append(q, m)[i] = q[i]
  BY WordsOfAppend
<1> QED BY <1>1 DEF LastWord

LEMMA ReceivedWord ==
  ASSUME NEW q \in Seq(Message), q # <<>>, NEW inside \in BOOLEAN, NEW later \in BOOLEAN,
         NEW s, NEW R, LastWord(q, inside, s, R),
         Head(q).event = "auction:joined" => later,
         Head(q).event = "auction:left" => ~later,
         Head(q).event \notin Telling => later = inside
  PROVE  LastWord(Tail(q), later, s, R)
<1> DEFINE t == Tail(q)
<1>1. /\ t \in Seq(Message) /\ Len(t) = Len(q) - 1 /\ Head(q) = q[1]
      /\ \A i \in 1 .. Len(t) : t[i] = q[i + 1]
      /\ Len(q) \in Nat \ {0}
  BY HeadTailProperties
<1>2. \A i \in Words(t) : i \in Nat /\ i + 1 \in Words(q) /\ t[i] = q[i + 1]
  <2> SUFFICES ASSUME NEW i \in 1 .. Len(t), t[i].event \in Telling
               PROVE  i \in Nat /\ i + 1 \in Words(q) /\ t[i] = q[i + 1]
    BY DEF Words
  <2>1. i \in Nat /\ i + 1 \in 1 .. Len(q) /\ t[i] = q[i + 1]
    BY <1>1
  <2> QED BY <2>1 DEF Words
<1>3. \A j \in Words(q) : j \in Nat /\ (j = 1 \/ j - 1 \in Words(t))
  <2> SUFFICES ASSUME NEW j \in 1 .. Len(q), q[j].event \in Telling, j # 1
               PROVE  j \in Nat /\ j - 1 \in Words(t)
    BY <1>1 DEF Words
  <2>1. j - 1 \in 1 .. Len(t) /\ (j - 1) + 1 = j /\ j \in Nat
    BY <1>1
  <2>2. t[j - 1] = q[j]
    BY <1>1, <2>1
  <2> QED BY <2>1, <2>2 DEF Words
<1> HIDE DEF t
<1>4. ASSUME Words(t) = {} PROVE later <=> s \in R
  <2>1. Words(q) \subseteq {1}
    BY <1>3, <1>4
  <2>2. CASE Head(q).event \in Telling
    <3>1. 1 \in Words(q)
      BY <1>1, <2>2 DEF Words
    <3>2. \A j \in Words(q) : j <= 1
      BY <2>1
    <3>3. q[1].event = "auction:joined" <=> s \in R
      BY <3>1, <3>2 DEF LastWord
    <3> QED BY <1>1, <2>2, <3>3 DEF Telling
  <2>3. CASE Head(q).event \notin Telling
    <3>1. Words(q) = {}
      BY <1>1, <2>1, <2>3 DEF Words
    <3> QED BY <2>3, <3>1 DEF LastWord
  <2> QED BY <2>2, <2>3
<1>5. ASSUME NEW i \in Words(t), \A j \in Words(t) : j <= i
      PROVE  t[i].event = "auction:joined" <=> s \in R
  <2>1. i \in Nat /\ i + 1 \in Words(q) /\ t[i] = q[i + 1]
    BY <1>2
  <2>2. ASSUME NEW j \in Words(q) PROVE j <= i + 1
    <3>1. j \in Nat /\ (j = 1 \/ j - 1 \in Words(t))
      BY <1>3
    <3> QED BY <1>5, <2>1, <3>1
  <2> QED BY <2>1, <2>2 DEF LastWord
<1>6. LastWord(t, later, s, R)
  BY <1>4, <1>5 DEF LastWord
<1> QED BY <1>6 DEF t

LEMMA InitRoom == Init => RoomInv
<1> SUFFICES ASSUME Init PROVE RoomInv
  OBVIOUS
<1>1. Newcomer(0) \in Person /\ Newcomer(0).inside = FALSE
  BY DEF Newcomer, Person, Blank
<1>2. \A s \in Sockets : client[s] = Newcomer(0) /\ wire[s] = <<>> /\ s \notin room
  BY DEF Init
<1> QED BY <1>1, <1>2, EmptyLastWord DEF Init, RoomInv

LEMMA AnswerKeepsRoom ==
  ASSUME WiresInv, RoomInv, NEW s \in Sockets, JoinRoom(s) \/ LookupFails(s) \/ HandleLeave(s)
  PROVE  RoomInv'
<1>1. PICK what \in {"auction:joined", "auction:left", "auction:error"} :
        /\ wire' = [wire EXCEPT ![s] = Append(wire[s], [event |-> what])]
        /\ what = "auction:joined" => s \in room'
        /\ what = "auction:left" => s \notin room'
        /\ what = "auction:error" => room' = room
        /\ \A u \in Sockets : u # s => (u \in room' <=> u \in room)
        /\ client' = client
  BY DEF JoinRoom, LookupFails, HandleLeave, Emit
<1> DEFINE m == [event |-> what]
<1>2. m \in Message /\ m.event = what /\ wire[s] \in Seq(Message)
  BY DEF Message, Answer, WiresInv
<1>3. wire'[s] = Append(wire[s], m) /\ \A u \in Sockets : u # s => wire'[u] = wire[u]
  BY <1>1 DEF WiresInv
<1> HIDE DEF m
<1>4. LastWord(wire'[s], client[s].inside, s, room')
  <2>1. CASE what = "auction:error"
    BY <1>1, <1>2, <1>3, <2>1, OtherMessages DEF RoomInv, Telling
  <2>2. CASE what # "auction:error"
    BY <1>1, <1>2, <1>3, <2>2, AnswerIsLastWord DEF Telling
  <2> QED BY <2>1, <2>2
<1>5. ASSUME NEW u \in Sockets, u # s PROVE LastWord(wire'[u], client[u].inside, u, room')
  BY <1>1, <1>3, <1>5 DEF RoomInv, LastWord
<1> QED BY <1>1, <1>4, <1>5 DEF RoomInv

LEMMA BroadcastKeepsRoom ==
  ASSUME WiresInv, RoomInv, Broadcast
  PROVE  RoomInv'
<1>1. /\ channel # <<>> /\ UNCHANGED <<room, client>>
      /\ wire' = [s \in Sockets |->
                    IF s \in room THEN Append(wire[s], Head(channel)) ELSE wire[s]]
  BY DEF Broadcast
<1>2. Head(channel) \in News
  BY <1>1, TailIsSound DEF WiresInv
<1>3. Head(channel) \in Message /\ Head(channel).event \notin Telling
  BY <1>2 DEF News, Message, Telling
<1>4. ASSUME NEW s \in Sockets PROVE LastWord(wire'[s], client[s].inside, s, room)
  <2>1. wire[s] \in Seq(Message) /\ LastWord(wire[s], client[s].inside, s, room)
    BY DEF WiresInv, RoomInv
  <2>2. LastWord(Append(wire[s], Head(channel)), client[s].inside, s, room)
    BY <1>3, <2>1, OtherMessages
  <2> QED BY <1>1, <2>1, <2>2
<1> QED BY <1>1, <1>4 DEF RoomInv

LEMMA BreakKeepsRoom ==
  ASSUME WiresInv, RoomInv, ServerCrash \/ \E s \in Sockets : Disconnect(s)
  PROVE  RoomInv'
<1>1. \A s \in Sockets : LET me == Newcomer(client[s].sent) IN
        me \in Person /\ me.inside = FALSE
  <2> SUFFICES ASSUME NEW s \in Sockets
               PROVE  /\ Newcomer(client[s].sent) \in Person
                      /\ Newcomer(client[s].sent).inside = FALSE
    OBVIOUS
  <2>1. client[s].sent \in Int
    BY DEF RoomInv, Person
  <2> QED BY <2>1 DEF Newcomer, Person, Blank
<1>2. CASE ServerCrash
  <2>1. /\ room' = {} /\ wire' = [s \in Sockets |-> <<>>]
        /\ client' = [s \in Sockets |-> Newcomer(client[s].sent)]
    BY <1>2 DEF ServerCrash
  <2>2. \A s \in Sockets : LastWord(wire'[s], client'[s].inside, s, room')
    BY <1>1, <2>1, EmptyLastWord
  <2> QED BY <1>1, <2>1, <2>2 DEF RoomInv
<1>3. ASSUME NEW s \in Sockets, Disconnect(s) PROVE RoomInv'
  <2>1. /\ room' = room \ {s} /\ wire' = [wire EXCEPT ![s] = <<>>]
        /\ client' = [client EXCEPT ![s] = Newcomer(client[s].sent)]
    BY <1>3 DEF Disconnect
  <2>2. /\ wire'[s] = <<>> /\ client'[s] = Newcomer(client[s].sent)
        /\ \A u \in Sockets : u # s => wire'[u] = wire[u] /\ client'[u] = client[u]
    BY <2>1 DEF WiresInv, RoomInv
  <2>3. LastWord(wire'[s], client'[s].inside, s, room')
    BY <1>1, <2>1, <2>2, EmptyLastWord
  <2>4. ASSUME NEW u \in Sockets, u # s PROVE LastWord(wire'[u], client'[u].inside, u, room')
    BY <2>1, <2>2, <2>4 DEF RoomInv, LastWord
  <2>5. client' \in [Sockets -> Person]
    BY <1>1, <2>1 DEF RoomInv
  <2> QED BY <2>3, <2>4, <2>5 DEF RoomInv
<1> QED BY <1>2, <1>3

(* The changes of what a client knows, by the answers.                       *)
LEMMA PersonChanges ==
  ASSUME NEW me \in Person
  PROVE  /\ LET joined == [me EXCEPT !.inside = TRUE, !.waiting = me.waiting - 1]
            IN  joined \in Person /\ joined.inside
         /\ LET gone == [me EXCEPT !.inside = FALSE, !.waiting = me.waiting - 1,
                                   !.fetched = FALSE]
            IN  gone \in Person /\ ~gone.inside
         /\ LET refused == [me EXCEPT !.waiting = me.waiting - 1,
                                      !.asked = IF me.inside THEN "join" ELSE "leave"]
            IN  refused \in Person /\ refused.inside = me.inside
<1>1. /\ me.waiting - 1 \in Int
      /\ (IF me.inside THEN "join" ELSE "leave") \in {"join", "leave"}
  BY DEF Person
<1>2. \A w \in Int :
        LET joined == [me EXCEPT !.inside = TRUE, !.waiting = w]
            gone   == [me EXCEPT !.inside = FALSE, !.waiting = w, !.fetched = FALSE]
        IN  joined \in Person /\ joined.inside /\ gone \in Person /\ ~gone.inside
  BY DEF Person
<1>3. \A w \in Int, message \in {"join", "leave"} :
        LET refused == [me EXCEPT !.waiting = w, !.asked = message]
        IN  refused \in Person /\ refused.inside = me.inside
  BY DEF Person
<1> QED BY <1>1, <1>2, <1>3

(* A message that arrives changes what its reader knows, and nothing else.   *)
LEMMA UnderstoodPerson ==
  ASSUME NEW me \in Person, NEW m \in Message
  PROVE  /\ Understood(me, m) \in Person
         /\ m.event = "auction:joined" => Understood(me, m).inside
         /\ m.event = "auction:left" => ~Understood(me, m).inside
         /\ m.event \notin Telling => Understood(me, m).inside = me.inside
<1>1. m.event \in {"auction:joined", "auction:left", "auction:error", "auction:bid", "auction:ended"}
  BY DEF Message, News, Answer
<1>2. CASE m.event = "auction:joined"
  <2> DEFINE new == [me EXCEPT !.inside = TRUE, !.waiting = me.waiting - 1]
  <2>1. Understood(me, m) = new
    BY <1>2 DEF Understood
  <2>2. new \in Person /\ new.inside
    BY PersonChanges
  <2> HIDE DEF new
  <2> QED BY <1>2, <2>1, <2>2 DEF Telling
<1>3. CASE m.event = "auction:left"
  <2> DEFINE new == [me EXCEPT !.inside = FALSE, !.waiting = me.waiting - 1,
                             !.fetched = FALSE]
  <2>1. Understood(me, m) = new
    BY <1>3 DEF Understood
  <2>2. new \in Person /\ ~new.inside
    BY PersonChanges
  <2> HIDE DEF new
  <2> QED BY <1>3, <2>1, <2>2 DEF Telling
<1>4. CASE m.event = "auction:error"
  <2> DEFINE new == [me EXCEPT !.waiting = me.waiting - 1,
                             !.asked = IF me.inside THEN "join" ELSE "leave"]
  <2>1. Understood(me, m) = new
    BY <1>4 DEF Understood
  <2>2. new \in Person /\ new.inside = me.inside
    BY PersonChanges
  <2> HIDE DEF new
  <2> QED BY <1>4, <2>1, <2>2 DEF Telling
<1>5. CASE m.event \in {"auction:bid", "auction:ended"}
  <2>1. Understood(me, m) = [me EXCEPT !.view = Learned(me.view, m)]
    BY <1>5 DEF Understood
  <2>2. m.price \in Nat
    BY <1>5 DEF Message, News, Answer
  <2>3. me.view \in [price: Nat, status: {"LIVE", "ENDED"}]
    BY DEF Person
  <2>4. Newer(me.view.price, m.price) \in Nat
    BY <2>2, <2>3 DEF Newer
  <2>5. Learned(me.view, m) \in [price: Nat, status: {"LIVE", "ENDED"}]
    BY <2>3, <2>4 DEF Learned
  <2> QED BY <1>5, <2>1, <2>5 DEF Person, Telling
<1> QED BY <1>1, <1>2, <1>3, <1>4, <1>5

LEMMA ReceiveKeepsRoom ==
  ASSUME WiresInv, RoomInv, NEW s \in Sockets, Receive(s)
  PROVE  RoomInv'
<1> DEFINE m == Head(wire[s])
           me == Understood(client[s], m)
<1>1. /\ wire[s] # <<>> /\ wire' = [wire EXCEPT ![s] = Tail(wire[s])]
      /\ client' = [client EXCEPT ![s] = me] /\ room' = room
  BY DEF Receive
<1>2. wire[s] \in Seq(Message) /\ m \in Message /\ client[s] \in Person
  BY <1>1, TailIsSound DEF WiresInv, RoomInv
<1>3. /\ me \in Person
      /\ m.event = "auction:joined" => me.inside
      /\ m.event = "auction:left" => ~me.inside
      /\ m.event \notin Telling => me.inside = client[s].inside
  BY <1>2, UnderstoodPerson
<1>4. client[s].inside \in BOOLEAN /\ me.inside \in BOOLEAN
  BY <1>2, <1>3 DEF Person
<1> HIDE DEF me
<1>5. LastWord(Tail(wire[s]), me.inside, s, room)
  BY <1>1, <1>2, <1>3, <1>4, ReceivedWord DEF RoomInv
<1>6. /\ wire'[s] = Tail(wire[s]) /\ client'[s] = me
      /\ \A u \in Sockets : u # s => wire'[u] = wire[u] /\ client'[u] = client[u]
      /\ client' \in [Sockets -> Person]
  BY <1>1, <1>3 DEF WiresInv, RoomInv
<1> QED BY <1>1, <1>5, <1>6 DEF RoomInv

(* What the client does on its own does not change where it believes to be.   *)
LEMMA ClientKeepsRoom ==
  ASSUME CommittedInv, RoomInv, NEW s \in Sockets,
         Ask(s, "join") \/ Ask(s, "leave") \/ Fetch(s)
  PROVE  RoomInv'
<1>1. client[s] \in Person
  BY DEF RoomInv
<1>2. PICK me \in Person :
        /\ client' = [client EXCEPT ![s] = me] /\ me.inside = client[s].inside
        /\ UNCHANGED <<wire, room>>
  <2>1. ASSUME NEW message \in {"join", "leave"}, Ask(s, message)
        PROVE  \E me \in Person :
                 /\ client' = [client EXCEPT ![s] = me] /\ me.inside = client[s].inside
                 /\ UNCHANGED <<wire, room>>
    <3>1. PICK calm \in BOOLEAN : calm = (client[s].patient /\ client[s].waiting = 0)
      OBVIOUS
    <3>2. PICK w \in Int, n \in Int : w = client[s].waiting + 1 /\ n = client[s].sent + 1
      BY <1>1 DEF Person
    <3> DEFINE me == [client[s] EXCEPT !.asked = message, !.waiting = w, !.sent = n,
                                       !.patient = calm]
    <3>3. me \in Person /\ me.inside = client[s].inside
      BY <1>1 DEF Person
    <3>4. client' = [client EXCEPT ![s] = me] /\ UNCHANGED <<wire, room>>
      BY <2>1, <3>1, <3>2 DEF Ask, RoomInv
    <3> QED BY <3>3, <3>4
  <2>2. ASSUME Fetch(s)
        PROVE  \E me \in Person :
                 /\ client' = [client EXCEPT ![s] = me] /\ me.inside = client[s].inside
                 /\ UNCHANGED <<wire, room>>
    <3> DEFINE me == [client[s] EXCEPT !.fetched = TRUE,
                                       !.view = [price |-> price, status |-> status]]
    <3>1. me \in Person /\ me.inside = client[s].inside
      BY <1>1 DEF Person, CommittedInv, RowInv
    <3>2. client' = [client EXCEPT ![s] = me] /\ UNCHANGED <<wire, room>>
      BY <2>2 DEF Fetch, RoomInv
    <3> QED BY <3>1, <3>2
  <2> QED BY <2>1, <2>2
<1>3. /\ client'[s] = me /\ \A u \in Sockets : u # s => client'[u] = client[u]
      /\ client' \in [Sockets -> Person]
  BY <1>2 DEF RoomInv
<1> QED BY <1>2, <1>3 DEF RoomInv

LEMMA StepRoom == CommittedInv /\ RoomInv /\ [Next]_vars => RoomInv'
<1> SUFFICES ASSUME CommittedInv, RoomInv, [Next]_vars PROVE RoomInv'
  OBVIOUS
<1>1. WiresInv
  BY DEF CommittedInv
<1>2. ASSUME UNCHANGED <<room, wire, client>> PROVE RoomInv'
  BY <1>2 DEF RoomInv
<1>3. CASE EndAuction \/ PublishEnd \/ LoseSubscription \/ Subscribe
  BY <1>2, <1>3 DEF EndAuction, PublishEnd, LoseSubscription, Subscribe, sockets
<1>4. CASE \E b \in Bidders : PlaceBid(b) \/ PublishBid(b) \/ PublishFails(b)
  BY <1>2, <1>4 DEF PlaceBid, PublishBid, PublishFails, sockets
<1>5. CASE Broadcast
  BY <1>1, <1>5, BroadcastKeepsRoom
<1>6. CASE ServerCrash \/ \E s \in Sockets : Disconnect(s)
  BY <1>1, <1>6, BreakKeepsRoom
<1>7. ASSUME NEW s \in Sockets, HandleJoin(s) PROVE RoomInv'
  BY <1>2, <1>7 DEF HandleJoin
<1>8. ASSUME NEW s \in Sockets, JoinRoom(s) \/ LookupFails(s) \/ HandleLeave(s) PROVE RoomInv'
  BY <1>1, <1>8, AnswerKeepsRoom
<1>9. ASSUME NEW s \in Sockets, Receive(s) PROVE RoomInv'
  BY <1>1, <1>9, ReceiveKeepsRoom
<1>10. ASSUME NEW s \in Sockets, Ask(s, "join") \/ Ask(s, "leave") \/ Fetch(s) PROVE RoomInv'
  BY <1>10, ClientKeepsRoom
<1>11. CASE UNCHANGED vars
  BY <1>2, <1>11 DEF vars, sockets
<1> QED BY <1>3, <1>4, <1>5, <1>6, <1>7, <1>8, <1>9, <1>10, <1>11 DEF Next

(* registerAuctionSocketHandlers: however joins, leaves, failing lookups,     *)
(* broken connections and crashes interleave, a client that has received all  *)
(* answers knows whether it is in the room.                                  *)
THEOREM AnswersAlwaysMatchRoom == Spec => []AnswersMatchRoom
<1>1. RoomInv => AnswersMatchRoom
  <2> SUFFICES ASSUME RoomInv, NEW s \in Sockets, wire[s] = <<>>
               PROVE  client[s].inside <=> s \in room
    BY DEF AnswersMatchRoom, Answered
  <2>1. LastWord(<<>>, client[s].inside, s, room)
    BY DEF RoomInv
  <2>2. Words(<<>>) = {}
    BY DEF Words
  <2> QED BY <2>1, <2>2 DEF LastWord
<1>2. CommittedInv /\ RoomInv /\ [Next]_vars => (CommittedInv /\ RoomInv)'
  BY StepCommitted, StepRoom
<1> QED BY <1>1, <1>2, InitCommitted, InitRoom, PTL DEF Spec

------------------------------------------------------------------------------
(* Requests and their answers: a client waits for what is in its inbox, in a  *)
(* lookup, or an answer on its wire, and for nothing else.                   *)
Answers   == {"auction:joined", "auction:left", "auction:error"}
AnswersOn(q) == {i \in 1 .. Len(q) : q[i].event \in Answers}

Counted(s) ==
  /\ inbox[s] \in Seq({"join", "leave"}) /\ lookups[s] \in Nat
  /\ client[s].waiting = Len(inbox[s]) + lookups[s] + Cardinality(AnswersOn(wire[s]))
  /\ client[s].waiting <= client[s].sent /\ client[s].sent <= MaxMessages

(* The one thing that a patient client waits for.                            *)
Patient(s) ==
  client[s].patient =>
    /\ client[s].waiting <= 1
    /\ client[s].waiting = 0 => (client[s].asked = "join" <=> s \in room)
    /\ \A i \in 1 .. Len(inbox[s]) :
         inbox[s][i] = client[s].asked /\ (client[s].asked = "join" <=> s \notin room)
    /\ lookups[s] > 0 => client[s].asked = "join" /\ s \notin room
    /\ \A i \in AnswersOn(wire[s]) :
         /\ wire[s][i].event = "auction:error" => client[s].asked = "join" /\ s \notin room
         /\ wire[s][i].event # "auction:error" => (client[s].asked = "join" <=> s \in room)

RequestsInv ==
  /\ inbox \in [Sockets -> Seq({"join", "leave"})] /\ lookups \in [Sockets -> Nat]
  /\ \A s \in Sockets : Counted(s) /\ Patient(s)

LEMMA FewAnswers ==
  ASSUME NEW q \in Seq(Message)
  PROVE  /\ IsFiniteSet(AnswersOn(q)) /\ Cardinality(AnswersOn(q)) \in Nat
         /\ Cardinality(AnswersOn(q)) = 0 => AnswersOn(q) = {}
         /\ Cardinality(AnswersOn(q)) = 1 => \A i, j \in AnswersOn(q) : i = j
<1>1. IsFiniteSet(1 .. Len(q)) /\ AnswersOn(q) \subseteq 1 .. Len(q)
  BY LenProperties, FS_Interval DEF AnswersOn
<1>2. IsFiniteSet(AnswersOn(q))
  BY <1>1, FS_Subset
<1> QED BY <1>2, FS_CardinalityType, FS_EmptySet, FS_Singleton

(* The answers on a wire, when a message is added to it or taken from it.    *)
LEMMA AnswersOfAppend ==
  ASSUME NEW q \in Seq(Message), NEW m \in Message
  PROVE  /\ IsFiniteSet(AnswersOn(q)) /\ Cardinality(AnswersOn(q)) \in Nat
         /\ \A i \in AnswersOn(q) : Append(q, m)[i] = q[i]
         /\ m.event \notin Answers => AnswersOn(Append(q, m)) = AnswersOn(q)
         /\ m.event \in Answers =>
              /\ AnswersOn(Append(q, m)) = AnswersOn(q) \cup {Len(q) + 1}
              /\ Append(q, m)[Len(q) + 1] = m
              /\ Cardinality(AnswersOn(Append(q, m))) = Cardinality(AnswersOn(q)) + 1
<1>1. /\ Len(Append(q, m)) = Len(q) + 1 /\ Len(q) \in Nat
      /\ \A i \in 1 .. Len(q) : Append(q, m)[i] = q[i]
      /\ Append(q, m)[Len(q) + 1] = m
  BY AppendProperties
<1>2. 1 .. (Len(q) + 1) = (1 .. Len(q)) \cup {Len(q) + 1} /\ Len(q) + 1 \notin 1 .. Len(q)
  BY <1>1
<1>3. AnswersOn(Append(q, m)) = {i \in 1 .. (Len(q) + 1) : Append(q, m)[i].event \in Answers}
  BY <1>1 DEF AnswersOn
<1>4. IsFiniteSet(AnswersOn(q)) /\ Cardinality(AnswersOn(q)) \in Nat
  BY FewAnswers
<1>5. \A i \in AnswersOn(q) : Append(q, m)[i] = q[i]
  BY <1>1 DEF AnswersOn
<1>6. CASE m.event \notin Answers
  BY <1>1, <1>2, <1>3, <1>4, <1>5, <1>6 DEF AnswersOn
<1>7. CASE m.event \in Answers
  <2>1. AnswersOn(Append(q, m)) = AnswersOn(q) \cup {Len(q) + 1} /\ Len(q) + 1 \notin AnswersOn(q)
    BY <1>1, <1>2, <1>3, <1>7 DEF AnswersOn
  <2>2. Cardinality(AnswersOn(q) \cup {Len(q) + 1}) = Cardinality(AnswersOn(q)) + 1
    BY <1>4, <2>1, FS_AddElement
  <2> QED BY <1>1, <1>4, <1>5, <1>7, <2>1, <2>2
<1> QED BY <1>6, <1>7

LEMMA AnswersOfTail ==
  ASSUME NEW q \in Seq(Message), q # <<>>
  PROVE  /\ Cardinality(AnswersOn(q)) \in Nat
         /\ Cardinality(AnswersOn(Tail(q))) \in Nat
         /\ Cardinality(AnswersOn(Tail(q))) =
              IF Head(q).event \in Answers THEN Cardinality(AnswersOn(q)) - 1
              ELSE Cardinality(AnswersOn(q))
         /\ \A i \in AnswersOn(Tail(q)) : i + 1 \in AnswersOn(q) /\ Tail(q)[i] = q[i + 1]
         /\ Head(q).event \in Answers => 1 \in AnswersOn(q) /\ q[1] = Head(q)
<1> DEFINE t == Tail(q)
           S == AnswersOn(t)
           T == AnswersOn(q) \ {1}
           shift == [i \in S |-> i + 1]
<1>1. /\ t \in Seq(Message) /\ Len(t) = Len(q) - 1 /\ Head(q) = q[1]
      /\ \A i \in 1 .. Len(t) : t[i] = q[i + 1]
      /\ Len(q) \in Nat \ {0}
  BY HeadTailProperties
<1>2. 1 \in AnswersOn(q) <=> Head(q).event \in Answers
  BY <1>1 DEF AnswersOn
<1>3. \A i \in S : i \in Nat \ {0} /\ i + 1 \in T /\ t[i] = q[i + 1]
  <2> SUFFICES ASSUME NEW i \in 1 .. Len(t), t[i].event \in Answers
               PROVE  i \in Nat \ {0} /\ i + 1 \in T /\ t[i] = q[i + 1]
    BY DEF AnswersOn
  <2>1. i \in Nat \ {0} /\ i + 1 \in 1 .. Len(q) /\ t[i] = q[i + 1] /\ i + 1 # 1
    BY <1>1
  <2> QED BY <2>1 DEF AnswersOn
<1>4. \A k \in T : k \in Nat \ {0, 1} /\ k - 1 \in S
  <2> SUFFICES ASSUME NEW k \in 1 .. Len(q), q[k].event \in Answers, k # 1
               PROVE  k \in Nat \ {0, 1} /\ k - 1 \in S
    BY DEF AnswersOn
  <2>1. k - 1 \in 1 .. Len(t) /\ (k - 1) + 1 = k /\ k \in Nat \ {0, 1}
    BY <1>1
  <2>2. t[k - 1] = q[k]
    BY <1>1, <2>1
  <2> QED BY <2>1, <2>2 DEF AnswersOn
<1>5. /\ IsFiniteSet(AnswersOn(q)) /\ Cardinality(AnswersOn(q)) \in Nat
      /\ IsFiniteSet(S) /\ Cardinality(S) \in Nat
  BY <1>1, FewAnswers
<1> HIDE DEF S, t
<1>6. IsFiniteSet(T) /\ Cardinality(T) = Cardinality(S)
  <2>1. shift \in Bijection(S, T)
    <3>1. shift \in [S -> T]
      BY <1>3
    <3>2. \A i, j \in S : shift[i] = shift[j] => i = j
      BY <1>3
    <3>3. \A k \in T : \E i \in S : shift[i] = k
      <4> SUFFICES ASSUME NEW k \in T PROVE \E i \in S : shift[i] = k
        OBVIOUS
      <4>1. k - 1 \in S /\ k \in Nat
        BY <1>4
      <4>2. shift[k - 1] = k
        BY <4>1
      <4> QED BY <4>1, <4>2
    <3> HIDE DEF shift, T
    <3> QED BY <3>1, <3>2, <3>3, Fun_IsBij
  <2>2. ExistsBijection(S, T)
    BY <2>1, Fun_ExistsBij
  <2> HIDE DEF T
  <2> QED BY <1>5, <2>2, FS_Bijection
<1>7. Cardinality(T) = IF 1 \in AnswersOn(q) THEN Cardinality(AnswersOn(q)) - 1
                       ELSE Cardinality(AnswersOn(q))
  BY <1>5, FS_RemoveElement
<1> QED BY <1>1, <1>2, <1>3, <1>5, <1>6, <1>7 DEF S, t

LEMMA NoAnswers == AnswersOn(<<>>) = {} /\ Cardinality(AnswersOn(<<>>)) = 0
<1>1. AnswersOn(<<>>) = {}
  BY DEF AnswersOn
<1> QED BY <1>1, FS_EmptySet

LEMMA PatientWaitsOnce ==
  ASSUME RequestsInv, WiresInv, NEW s \in Sockets
  PROVE  /\ Len(inbox[s]) \in Nat /\ lookups[s] \in Nat /\ Cardinality(AnswersOn(wire[s])) \in Nat
         /\ client[s].waiting = Len(inbox[s]) + lookups[s] + Cardinality(AnswersOn(wire[s]))
         /\ client[s].waiting = 0 =>
              Len(inbox[s]) = 0 /\ lookups[s] = 0 /\ AnswersOn(wire[s]) = {}
         /\ client[s].patient =>
              /\ Len(inbox[s]) > 0 =>
                   /\ client[s].waiting = 1
                   /\ Len(inbox[s]) = 1 /\ lookups[s] = 0 /\ AnswersOn(wire[s]) = {}
                   /\ inbox[s][1] = client[s].asked
                   /\ client[s].asked = "join" <=> s \notin room
              /\ lookups[s] > 0 =>
                   /\ client[s].waiting = 1
                   /\ Len(inbox[s]) = 0 /\ lookups[s] = 1 /\ AnswersOn(wire[s]) = {}
                   /\ client[s].asked = "join" /\ s \notin room
              /\ AnswersOn(wire[s]) # {} =>
                   /\ client[s].waiting = 1
                   /\ Len(inbox[s]) = 0 /\ lookups[s] = 0
                   /\ Cardinality(AnswersOn(wire[s])) = 1
<1> DEFINE n == Len(inbox[s])
           k == Cardinality(AnswersOn(wire[s]))
<1>1. Counted(s) /\ Patient(s) /\ wire[s] \in Seq(Message)
  BY DEF RequestsInv, WiresInv
<1>2. n \in Nat /\ lookups[s] \in Nat /\ client[s].waiting = n + lookups[s] + k
  BY <1>1 DEF Counted
<1>3. k \in Nat /\ (k = 0 <=> AnswersOn(wire[s]) = {})
  BY <1>1, FewAnswers, FS_EmptySet
<1> HIDE DEF k
<1>4. CASE client[s].patient
  <2>1. client[s].waiting <= 1
    BY <1>1, <1>4 DEF Patient
  <2> HIDE DEF n
  <2>2. n > 0 => /\ n = 1 /\ lookups[s] = 0 /\ k = 0 /\ client[s].waiting = 1
                 /\ 1 \in 1 .. n
    BY <1>2, <1>3, <2>1
  <2>3. lookups[s] > 0 => n = 0 /\ lookups[s] = 1 /\ k = 0 /\ client[s].waiting = 1
    BY <1>2, <1>3, <2>1
  <2>4. k > 0 => n = 0 /\ lookups[s] = 0 /\ k = 1 /\ client[s].waiting = 1
    BY <1>2, <1>3, <2>1
  <2>5. /\ \A i \in 1 .. n : inbox[s][i] = client[s].asked /\ (client[s].asked = "join" <=> s \notin room)
        /\ lookups[s] > 0 => client[s].asked = "join" /\ s \notin room
    BY <1>1, <1>4 DEF Patient, n
  <2>6. k # 0 => k > 0
    BY <1>3
  <2>7. client[s].waiting = 0 => n = 0 /\ lookups[s] = 0 /\ k = 0
    BY <1>2, <1>3
  <2> QED BY <1>2, <1>3, <2>2, <2>3, <2>4, <2>5, <2>6, <2>7 DEF n, k
<1>5. CASE ~client[s].patient
  <2>1. client[s].waiting = 0 => n = 0 /\ lookups[s] = 0 /\ k = 0
    BY <1>2, <1>3
  <2> QED BY <1>2, <1>3, <1>5, <2>1 DEF k
<1> QED BY <1>4, <1>5

(* A step that is about one socket. *)
LEMMA RequestsStep ==
  ASSUME RequestsInv, NEW s \in Sockets,
         inbox' \in [Sockets -> Seq({"join", "leave"})], lookups' \in [Sockets -> Nat],
         \A u \in Sockets : u # s =>
           /\ inbox'[u] = inbox[u] /\ lookups'[u] = lookups[u]
           /\ client'[u] = client[u] /\ wire'[u] = wire[u]
           /\ u \in room' <=> u \in room,
         Counted(s)', Patient(s)'
  PROVE  RequestsInv'
<1>1. ASSUME NEW u \in Sockets, u # s PROVE Counted(u)' /\ Patient(u)'
  <2>1. Counted(u) /\ Patient(u)
    BY DEF RequestsInv
  <2>2. /\ inbox'[u] = inbox[u] /\ lookups'[u] = lookups[u]
        /\ client'[u] = client[u] /\ wire'[u] = wire[u]
        /\ u \in room' <=> u \in room
    BY <1>1
  <2>3. Counted(u)'
    BY <2>1, <2>2 DEF Counted
  <2>4. Patient(u)'
    BY <2>1, <2>2 DEF Patient
  <2> QED BY <2>3, <2>4
<1> QED BY <1>1 DEF RequestsInv

LEMMA InboxTail ==
  ASSUME RequestsInv, NEW s \in Sockets, inbox[s] # <<>>
  PROVE  /\ Tail(inbox[s]) \in Seq({"join", "leave"})
         /\ Len(inbox[s]) > 0 /\ Len(Tail(inbox[s])) = Len(inbox[s]) - 1
         /\ Head(inbox[s]) = inbox[s][1]
         /\ [inbox EXCEPT ![s] = Tail(inbox[s])] \in [Sockets -> Seq({"join", "leave"})]
<1>1. inbox[s] \in Seq({"join", "leave"})
  BY DEF RequestsInv
<1>2. /\ Tail(inbox[s]) \in Seq({"join", "leave"}) /\ Len(Tail(inbox[s])) = Len(inbox[s]) - 1
      /\ Len(inbox[s]) > 0 /\ Head(inbox[s]) = inbox[s][1]
  BY <1>1
<1> QED BY <1>2 DEF RequestsInv

LEMMA HandleJoinKeepsRequests ==
  ASSUME RequestsInv, WiresInv, NEW s \in Sockets, HandleJoin(s)
  PROVE  RequestsInv'
<1>1. /\ inbox[s] # <<>> /\ Head(inbox[s]) = "join"
      /\ inbox' = [inbox EXCEPT ![s] = Tail(inbox[s])]
      /\ lookups' = [lookups EXCEPT ![s] = lookups[s] + 1]
      /\ UNCHANGED <<room, wire, client>>
  BY DEF HandleJoin
<1>2. /\ inbox' \in [Sockets -> Seq({"join", "leave"})] /\ inbox'[s] = Tail(inbox[s])
      /\ Len(inbox'[s]) = Len(inbox[s]) - 1 /\ Len(inbox[s]) > 0 /\ inbox[s][1] = "join"
      /\ inbox'[s] \in Seq({"join", "leave"})
  BY <1>1, InboxTail DEF RequestsInv
<1>3. lookups' \in [Sockets -> Nat] /\ lookups'[s] = lookups[s] + 1
  BY <1>1 DEF RequestsInv
<1>4. \A u \in Sockets : u # s => inbox'[u] = inbox[u] /\ lookups'[u] = lookups[u]
  BY <1>1 DEF RequestsInv
<1>5. Counted(s)'
  BY <1>1, <1>2, <1>3, PatientWaitsOnce DEF RequestsInv, Counted
<1>6. Patient(s)'
  <2> SUFFICES ASSUME client[s].patient PROVE Patient(s)'
    BY <1>1 DEF Patient
  <2>1. /\ Len(inbox[s]) = 1 /\ AnswersOn(wire[s]) = {}
        /\ client[s].asked = "join" /\ s \notin room
        /\ client[s].waiting = 1
    BY <1>2, PatientWaitsOnce
  <2> QED BY <1>1, <1>2, <2>1 DEF Patient
<1> QED BY <1>1, <1>2, <1>3, <1>4, <1>5, <1>6, RequestsStep

LEMMA OneAnswer ==
  ASSUME NEW n \in Nat, NEW n2 \in Nat, NEW l \in Nat, NEW l2 \in Nat, NEW k \in Nat,
         (n2 = n - 1 /\ n > 0 /\ l2 = l) \/ (n2 = n /\ l2 = l - 1 /\ l > 0)
  PROVE  /\ n + l + k = n2 + l2 + (k + 1)
         /\ n + l + k <= 1 => k = 0 /\ n2 = 0 /\ l2 = 0 /\ n + l + k = 1
OBVIOUS

(* An answer goes out: of a lookup that is over, or of a leave.              *)
LEMMA AnswerKeepsRequests ==
  ASSUME RequestsInv, WiresInv, NEW s \in Sockets,
         JoinRoom(s) \/ LookupFails(s) \/ HandleLeave(s)
  PROVE  RequestsInv'
<1>1. PICK what \in Answers :
        /\ wire' = [wire EXCEPT ![s] = Append(wire[s], [event |-> what])]
        /\ \/ /\ what \in {"auction:joined", "auction:error"}
              /\ lookups[s] > 0 /\ lookups' = [lookups EXCEPT ![s] = lookups[s] - 1]
              /\ inbox' = inbox
              /\ room' = IF what = "auction:joined" THEN room \cup {s} ELSE room
           \/ /\ what = "auction:left"
              /\ inbox[s] # <<>> /\ Head(inbox[s]) = "leave"
              /\ inbox' = [inbox EXCEPT ![s] = Tail(inbox[s])]
              /\ lookups' = lookups /\ room' = room \ {s}
        /\ client' = client
  <2>1. CASE JoinRoom(s)
    BY <2>1 DEF JoinRoom, Emit, Answers
  <2>2. CASE LookupFails(s)
    BY <2>2 DEF LookupFails, Emit, Answers
  <2>3. CASE HandleLeave(s)
    BY <2>3 DEF HandleLeave, Emit, Answers
  <2> QED BY <2>1, <2>2, <2>3
<1> DEFINE m == [event |-> what]
<1>2. m \in Message /\ m.event = what /\ m.event \in Answers /\ wire[s] \in Seq(Message)
  BY DEF Message, Answer, Answers, WiresInv
<1>3. wire'[s] = Append(wire[s], m) /\ \A u \in Sockets : u # s => wire'[u] = wire[u]
  BY <1>1 DEF WiresInv
<1> HIDE DEF m
<1>4. /\ AnswersOn(wire'[s]) = AnswersOn(wire[s]) \cup {Len(wire[s]) + 1}
      /\ wire'[s][Len(wire[s]) + 1] = m
      /\ Cardinality(AnswersOn(wire'[s])) = Cardinality(AnswersOn(wire[s])) + 1
  BY <1>2, <1>3, AnswersOfAppend
<1>5. /\ inbox' \in [Sockets -> Seq({"join", "leave"})] /\ lookups' \in [Sockets -> Nat]
      /\ \A u \in Sockets : u # s => /\ inbox'[u] = inbox[u] /\ lookups'[u] = lookups[u]
                                     /\ u \in room' <=> u \in room
      /\ \/ Len(inbox'[s]) = Len(inbox[s]) - 1 /\ Len(inbox[s]) > 0 /\ lookups'[s] = lookups[s]
         \/ Len(inbox'[s]) = Len(inbox[s]) /\ lookups'[s] = lookups[s] - 1 /\ lookups[s] > 0
  <2>1. CASE what = "auction:left"
    <3>1. /\ inbox' \in [Sockets -> Seq({"join", "leave"})]
          /\ \A u \in Sockets : u # s => inbox'[u] = inbox[u] /\ (u \in room' <=> u \in room)
          /\ lookups' = lookups
      BY <1>1, <2>1, InboxTail DEF RequestsInv
    <3>2. inbox'[s] = Tail(inbox[s])
      BY <1>1, <2>1 DEF RequestsInv
    <3>3. Len(Tail(inbox[s])) = Len(inbox[s]) - 1 /\ Len(inbox[s]) > 0
      BY <1>1, <2>1, InboxTail
    <3> QED BY <3>1, <3>2, <3>3 DEF RequestsInv
  <2>2. CASE what # "auction:left"
    <3>1. /\ lookups[s] > 0 /\ lookups' = [lookups EXCEPT ![s] = lookups[s] - 1]
          /\ inbox' = inbox
          /\ \A u \in Sockets : u # s => (u \in room' <=> u \in room)
      BY <1>1, <2>2
    <3>2. lookups \in [Sockets -> Nat] /\ lookups[s] \in Nat
      BY DEF RequestsInv
    <3>3. /\ lookups' \in [Sockets -> Nat] /\ lookups'[s] = lookups[s] - 1
          /\ \A u \in Sockets : u # s => lookups'[u] = lookups[u]
      BY <3>1, <3>2
    <3> QED BY <3>1, <3>3 DEF RequestsInv
  <2> QED BY <2>1, <2>2
<1>6. PICK n, n2, l, l2, k \in Nat :
        /\ n = Len(inbox[s]) /\ n2 = Len(inbox'[s])
        /\ l = lookups[s] /\ l2 = lookups'[s] /\ k = Cardinality(AnswersOn(wire[s]))
        /\ (n2 = n - 1 /\ n > 0 /\ l2 = l) \/ (n2 = n /\ l2 = l - 1 /\ l > 0)
        /\ client[s].waiting = n + l + k
        /\ Cardinality(AnswersOn(wire'[s])) = k + 1
  <2>1. /\ Len(inbox[s]) \in Nat /\ lookups[s] \in Nat /\ Cardinality(AnswersOn(wire[s])) \in Nat
        /\ client[s].waiting = Len(inbox[s]) + lookups[s] + Cardinality(AnswersOn(wire[s]))
    BY PatientWaitsOnce
  <2>2. inbox'[s] \in Seq({"join", "leave"}) /\ lookups'[s] \in Nat
    BY <1>5
  <2>3. Len(inbox'[s]) \in Nat
    BY <2>2
  <2> QED BY <1>4, <1>5, <2>1, <2>2, <2>3
<1>7. Counted(s)'
  <2>1. /\ inbox'[s] \in Seq({"join", "leave"}) /\ lookups'[s] \in Nat
    BY <1>5
  <2>2. client[s].waiting <= client[s].sent /\ client[s].sent <= MaxMessages
    BY DEF RequestsInv, Counted
  <2>3. n + l + k = n2 + l2 + (k + 1)
    <3>1. (n2 = n - 1 /\ n > 0 /\ l2 = l) \/ (n2 = n /\ l2 = l - 1 /\ l > 0)
      BY <1>6
    <3> QED BY <3>1, OneAnswer
  <2>4. client[s].waiting = Len(inbox'[s]) + lookups'[s] + Cardinality(AnswersOn(wire'[s]))
    BY <1>6, <2>3
  <2> QED BY <1>1, <2>1, <2>2, <2>4 DEF Counted
<1>8. Patient(s)'
  <2> SUFFICES ASSUME client[s].patient PROVE Patient(s)'
    BY <1>1 DEF Patient
  <2>1. client[s].waiting <= 1
    BY DEF RequestsInv, Patient
  <2>2. k = 0 /\ n2 = 0 /\ l2 = 0 /\ n + l + k = 1
    <3>1. n + l + k <= 1
      BY <1>6, <2>1
    <3> QED BY <1>6, <3>1, OneAnswer
  <2>3. AnswersOn(wire[s]) = {}
    BY <1>2, <1>6, <2>2, FewAnswers
  <2>4. /\ what = "auction:error" => client[s].asked = "join" /\ s \notin room'
        /\ what # "auction:error" => (client[s].asked = "join" <=> s \in room')
    <3>1. CASE what = "auction:left"
      <4>1. Len(inbox[s]) > 0 /\ inbox[s][1] = "leave" /\ s \notin room'
        BY <1>1, <3>1, InboxTail
      <4>2. client[s].asked = "leave"
        BY <4>1, PatientWaitsOnce
      <4> QED BY <3>1, <4>1, <4>2
    <3>2. CASE what # "auction:left"
      <4>1. /\ lookups[s] > 0
            /\ room' = IF what = "auction:joined" THEN room \cup {s} ELSE room
            /\ what \in {"auction:joined", "auction:error"}
        BY <1>1, <3>2
      <4>2. client[s].asked = "join" /\ s \notin room
        BY <4>1, PatientWaitsOnce
      <4> QED BY <4>1, <4>2
    <3> QED BY <3>1, <3>2
  <2>5. \A i \in AnswersOn(wire'[s]) : wire'[s][i].event = what
    BY <1>2, <1>4, <2>3
  <2>6. \A i \in AnswersOn(wire'[s]) :
          /\ wire'[s][i].event = "auction:error" => client[s].asked = "join" /\ s \notin room'
          /\ wire'[s][i].event # "auction:error" => (client[s].asked = "join" <=> s \in room')
    BY <2>4, <2>5
  <2>7. ~(lookups'[s] > 0)
    BY <1>6, <2>2
  <2>8. \A i \in 1 .. Len(inbox'[s]) : FALSE
    BY <1>6, <2>2
  <2>9. client'[s] = client[s] /\ client[s].waiting <= 1 /\ client[s].waiting # 0
    BY <1>1, <1>6, <2>1, <2>2
  <2> QED BY <2>6, <2>7, <2>8, <2>9 DEF Patient
<1> QED BY <1>1, <1>3, <1>5, <1>7, <1>8, RequestsStep

(* What a message changes of the client that receives it. *)
LEMMA UnderstoodFields ==
  ASSUME NEW me \in Person, NEW m \in Message
  PROVE  LET now == Understood(me, m) IN
         /\ now.sent = me.sent /\ now.patient = me.patient
         /\ m.event \in Answers => now.waiting = me.waiting - 1 /\ now.view = me.view
         /\ m.event \notin Answers =>
              /\ now.asked = me.asked /\ now.waiting = me.waiting
              /\ now.inside = me.inside /\ now.fetched = me.fetched
              /\ now.view = Learned(me.view, m)
         /\ m.event = "auction:joined" =>
              now.asked = me.asked /\ now.inside = TRUE /\ now.fetched = me.fetched
         /\ m.event = "auction:left" =>
              now.asked = me.asked /\ now.inside = FALSE /\ now.fetched = FALSE
         /\ m.event = "auction:error" =>
              /\ now.asked = IF me.inside THEN "join" ELSE "leave"
              /\ now.inside = me.inside /\ now.fetched = me.fetched
<1>1. m.event \in {"auction:joined", "auction:left", "auction:error", "auction:bid", "auction:ended"}
  BY DEF Message, News, Answer
<1>2. CASE m.event = "auction:joined"
  <2>1. Understood(me, m) = [me EXCEPT !.inside = TRUE, !.waiting = me.waiting - 1]
    BY <1>2 DEF Understood
  <2> QED BY <1>2, <2>1 DEF Person, Answers
<1>3. CASE m.event = "auction:left"
  <2>1. Understood(me, m) = [me EXCEPT !.inside = FALSE, !.waiting = me.waiting - 1,
                                       !.fetched = FALSE]
    BY <1>3 DEF Understood
  <2> QED BY <1>3, <2>1 DEF Person, Answers
<1>4. CASE m.event = "auction:error"
  <2>1. Understood(me, m) = [me EXCEPT !.waiting = me.waiting - 1,
                                       !.asked = IF me.inside THEN "join" ELSE "leave"]
    BY <1>4 DEF Understood
  <2> QED BY <1>4, <2>1 DEF Person, Answers
<1>5. CASE m.event \in {"auction:bid", "auction:ended"}
  <2>1. Understood(me, m) = [me EXCEPT !.view = Learned(me.view, m)]
    BY <1>5 DEF Understood
  <2> QED BY <1>5, <2>1 DEF Person, Answers
<1> QED BY <1>1, <1>2, <1>3, <1>4, <1>5

LEMMA ReceiveKeepsRequests ==
  ASSUME RequestsInv, WiresInv, RoomInv, NEW s \in Sockets, Receive(s)
  PROVE  RequestsInv'
<1> DEFINE m == Head(wire[s])
           now == Understood(client[s], m)
<1>1. /\ wire[s] # <<>> /\ wire' = [wire EXCEPT ![s] = Tail(wire[s])]
      /\ client' = [client EXCEPT ![s] = now] /\ UNCHANGED <<room, inbox, lookups>>
  BY DEF Receive
<1>2. wire[s] \in Seq(Message) /\ m \in Message /\ client[s] \in Person
  BY <1>1, TailIsSound DEF WiresInv, RoomInv
<1>3. /\ wire'[s] = Tail(wire[s]) /\ client'[s] = now
      /\ \A u \in Sockets : u # s => wire'[u] = wire[u] /\ client'[u] = client[u]
  BY <1>1 DEF WiresInv, RoomInv
<1>4. /\ now.sent = client[s].sent /\ now.patient = client[s].patient
      /\ m.event \in Answers => now.waiting = client[s].waiting - 1
      /\ m.event \notin Answers => now.asked = client[s].asked /\ now.waiting = client[s].waiting
      /\ m.event \in {"auction:joined", "auction:left"} => now.asked = client[s].asked
      /\ m.event = "auction:error" => now.asked = IF client[s].inside THEN "join" ELSE "leave"
  BY <1>2, UnderstoodFields
<1> DEFINE k == Cardinality(AnswersOn(wire[s]))
           k2 == Cardinality(AnswersOn(Tail(wire[s])))
<1>5. /\ k \in Nat /\ k2 \in Nat
      /\ k2 = IF m.event \in Answers THEN k - 1 ELSE k
      /\ \A i \in AnswersOn(Tail(wire[s])) :
           i + 1 \in AnswersOn(wire[s]) /\ Tail(wire[s])[i] = wire[s][i + 1]
      /\ m.event \in Answers => 1 \in AnswersOn(wire[s]) /\ wire[s][1] = m
  BY <1>1, <1>2, AnswersOfTail
<1>6. /\ inbox[s] \in Seq({"join", "leave"}) /\ lookups[s] \in Nat /\ Len(inbox[s]) \in Nat
      /\ client[s].waiting = Len(inbox[s]) + lookups[s] + k
      /\ client[s].waiting <= client[s].sent /\ client[s].sent <= MaxMessages
      /\ client[s].waiting \in Int /\ client[s].sent \in Int
  BY <1>2, PatientWaitsOnce DEF RequestsInv, Counted, Person
<1>7. Counted(s)'
  <2>1. k2 = Cardinality(AnswersOn(wire'[s]))
    BY <1>3
  <2>2. /\ now.waiting = Len(inbox[s]) + lookups[s] + k2
        /\ now.waiting <= now.sent /\ now.sent <= MaxMessages
    <3> HIDE DEF k, k2, now, m
    <3>1. CASE m.event \in Answers
      <4>1. k2 = k - 1 /\ now.waiting = client[s].waiting - 1
        BY <1>4, <1>5, <3>1
      <4>2. PICK w, n \in Int, i, l \in Nat :
              /\ w = client[s].waiting /\ n = client[s].sent
              /\ i = Len(inbox[s]) /\ l = lookups[s]
        BY <1>6
      <4>3. w = i + l + k /\ w <= n /\ n <= MaxMessages
        BY <1>6, <4>2
      <4>4. w - 1 = i + l + (k - 1) /\ w - 1 <= n
        BY <1>5, <4>3
      <4> QED BY <1>4, <4>1, <4>2, <4>3, <4>4
    <3>2. CASE m.event \notin Answers
      BY <1>4, <1>5, <1>6, <3>2
    <3> QED BY <3>1, <3>2
  <2> HIDE DEF k, k2, now
  <2> QED BY <1>1, <1>3, <1>6, <2>1, <2>2 DEF Counted
<1>8. Patient(s)'
  <2> SUFFICES ASSUME client[s].patient PROVE Patient(s)'
    BY <1>3, <1>4 DEF Patient
  <2>1. Patient(s)
    BY DEF RequestsInv
  <2>2. CASE m.event \notin Answers
    <3>1. /\ now.asked = client[s].asked /\ now.waiting = client[s].waiting
          /\ now.patient = client[s].patient
      BY <1>4, <2>2
    <3> HIDE DEF now, m, k, k2
    <3>2. \A i \in AnswersOn(wire'[s]) :
            /\ wire'[s][i].event = "auction:error" => client[s].asked = "join" /\ s \notin room
            /\ wire'[s][i].event # "auction:error" => (client[s].asked = "join" <=> s \in room)
      <4> SUFFICES ASSUME NEW i \in AnswersOn(wire'[s])
                   PROVE  LET e == wire'[s][i].event IN
                          /\ e = "auction:error" => client[s].asked = "join" /\ s \notin room
                          /\ e # "auction:error" => (client[s].asked = "join" <=> s \in room)
        OBVIOUS
      <4>1. i + 1 \in AnswersOn(wire[s]) /\ wire'[s][i] = wire[s][i + 1]
        BY <1>3, <1>5
      <4> QED BY <2>1, <4>1 DEF Patient
    <3> QED BY <1>1, <1>3, <2>1, <3>1, <3>2 DEF Patient
  <2>3. CASE m.event \in Answers
    <3>1. /\ client[s].waiting = 1 /\ Len(inbox[s]) = 0 /\ lookups[s] = 0 /\ k = 1
      <4>1. AnswersOn(wire[s]) # {}
        BY <1>5, <2>3
      <4> QED BY <4>1, PatientWaitsOnce
    <3>2. now.waiting = 0
      BY <1>4, <2>3, <3>1
    <3>3. AnswersOn(wire'[s]) = {}
      <4>1. k2 = 0
        BY <1>5, <2>3, <3>1
      <4>2. Tail(wire[s]) \in Seq(Message)
        BY <1>1, <1>2
      <4> QED BY <1>3, <4>1, <4>2, FewAnswers
    <3>4. now.asked = "join" <=> s \in room
      <4>1. CASE m.event = "auction:error"
        <5>1. \A i \in AnswersOn(wire[s]) : i = 1
          BY <1>2, <1>5, <2>3, <3>1, FewAnswers
        <5>2. Words(wire[s]) = {}
          BY <1>5, <4>1, <5>1, <2>3 DEF Words, Telling, AnswersOn, Answers
        <5>3. client[s].inside <=> s \in room
          BY <5>2 DEF RoomInv, LastWord
        <5> QED BY <1>4, <4>1, <5>3
      <4>2. CASE m.event \in {"auction:joined", "auction:left"}
        <5>1. now.asked = client[s].asked
          BY <1>4, <4>2
        <5>2. client[s].asked = "join" <=> s \in room
          BY <1>5, <2>1, <2>3, <4>2 DEF Patient
        <5> QED BY <5>1, <5>2
      <4> QED BY <2>3, <4>1, <4>2 DEF Answers
    <3> HIDE DEF now, m, k, k2
    <3>5. client'[s].waiting = 0 /\ (client'[s].asked = "join" <=> s \in room')
      BY <1>1, <1>3, <3>2, <3>4
    <3>6. ~(lookups'[s] > 0) /\ \A i \in 1 .. Len(inbox'[s]) : FALSE
      BY <1>1, <3>1
    <3> QED BY <3>3, <3>5, <3>6 DEF Patient
  <2> QED BY <2>2, <2>3
<1>9. inbox' \in [Sockets -> Seq({"join", "leave"})] /\ lookups' \in [Sockets -> Nat]
  BY <1>1 DEF RequestsInv
<1> HIDE DEF now, m, k, k2
<1> QED BY <1>1, <1>3, <1>7, <1>8, <1>9, RequestsStep

LEMMA AskKeepsRequests ==
  ASSUME RequestsInv, WiresInv, RoomInv, NEW s \in Sockets, NEW message \in {"join", "leave"},
         Ask(s, message)
  PROVE  RequestsInv'
<1>1. /\ client[s].sent < MaxMessages /\ client[s].asked # message
      /\ inbox' = [inbox EXCEPT ![s] = Append(inbox[s], message)]
      /\ UNCHANGED <<room, lookups, wire>>
  BY DEF Ask
<1>2. client[s] \in Person /\ inbox[s] \in Seq({"join", "leave"})
  BY DEF RoomInv, RequestsInv
<1>3. PICK w \in Int, n \in Int, calm \in BOOLEAN :
        /\ w = client[s].waiting + 1 /\ n = client[s].sent + 1
        /\ calm = (client[s].patient /\ client[s].waiting = 0)
        /\ client' = [client EXCEPT ![s].asked = message, ![s].waiting = w, ![s].sent = n,
                                    ![s].patient = calm]
  <2>1. client[s].waiting + 1 \in Int /\ client[s].sent + 1 \in Int
    BY <1>2 DEF Person
  <2> QED BY <2>1 DEF Ask
<1>4. /\ client'[s].asked = message /\ client'[s].waiting = w /\ client'[s].sent = n
      /\ client'[s].patient = calm
      /\ \A u \in Sockets : u # s => client'[u] = client[u]
  BY <1>2, <1>3 DEF RoomInv, Person
<1>5. /\ inbox' \in [Sockets -> Seq({"join", "leave"})]
      /\ inbox'[s] = Append(inbox[s], message)
      /\ \A u \in Sockets : u # s => inbox'[u] = inbox[u]
      /\ lookups' \in [Sockets -> Nat]
  BY <1>1, <1>2 DEF RequestsInv
<1>6. Len(inbox'[s]) = Len(inbox[s]) + 1 /\ inbox'[s][Len(inbox[s]) + 1] = message
  BY <1>2, <1>5
<1>7. Counted(s)'
  <2>1. PICK l, k, i \in Nat :
          l = lookups[s] /\ k = Cardinality(AnswersOn(wire[s])) /\ i = Len(inbox[s])
    BY PatientWaitsOnce
  <2>2. client[s].waiting = i + l + k
    BY <2>1, PatientWaitsOnce
  <2>3. /\ client[s].waiting <= client[s].sent /\ client[s].sent < MaxMessages
        /\ client[s].waiting \in Int /\ client[s].sent \in Int
    BY <1>1, <1>2 DEF RequestsInv, Counted, Person
  <2>4. w = (i + 1) + l + k /\ w <= n /\ n <= MaxMessages
    BY <1>3, <2>2, <2>3, EventBounds
  <2>5. /\ inbox'[s] \in Seq({"join", "leave"}) /\ lookups'[s] \in Nat
        /\ Len(inbox'[s]) = i + 1 /\ lookups'[s] = l /\ wire'[s] = wire[s]
    BY <1>1, <1>5, <1>6, <2>1
  <2> QED BY <1>4, <2>1, <2>4, <2>5 DEF Counted
<1>8. Patient(s)'
  <2> SUFFICES ASSUME calm PROVE Patient(s)'
    BY <1>4 DEF Patient
  <2>1. client[s].patient /\ client[s].waiting = 0
    BY <1>3
  <2>2. Len(inbox[s]) = 0 /\ lookups[s] = 0 /\ AnswersOn(wire[s]) = {}
    BY <2>1, PatientWaitsOnce
  <2>3. client[s].asked = "join" <=> s \in room
    BY <2>1 DEF RequestsInv, Patient
  <2>4. client[s].asked \in {"join", "leave"}
    BY <1>2 DEF Person
  <2>5. message = "join" <=> s \notin room
    BY <1>1, <2>3, <2>4
  <2>6. \A i \in 1 .. Len(inbox'[s]) : inbox'[s][i] = message
    BY <1>6, <2>2
  <2>7. w = 1
    BY <1>3, <2>1
  <2>8. ~(lookups'[s] > 0) /\ AnswersOn(wire'[s]) = {} /\ room' = room
    BY <1>1, <2>2
  <2> QED BY <1>4, <2>5, <2>6, <2>7, <2>8 DEF Patient
<1> QED BY <1>1, <1>4, <1>5, <1>7, <1>8, RequestsStep

LEMMA BroadcastKeepsRequests ==
  ASSUME RequestsInv, WiresInv, Broadcast
  PROVE  RequestsInv'
<1>1. /\ channel # <<>> /\ UNCHANGED <<room, lookups, inbox, client>>
      /\ wire' = [s \in Sockets |->
                    IF s \in room THEN Append(wire[s], Head(channel)) ELSE wire[s]]
  BY DEF Broadcast
<1>2. Head(channel) \in News
  BY <1>1, TailIsSound DEF WiresInv
<1>3. Head(channel) \in Message /\ Head(channel).event \notin Answers
  BY <1>2 DEF News, Message, Answers
<1>4. ASSUME NEW s \in Sockets PROVE Counted(s)' /\ Patient(s)'
  <2>1. Counted(s) /\ Patient(s) /\ wire[s] \in Seq(Message)
    BY DEF RequestsInv, WiresInv
  <2>2. /\ AnswersOn(wire'[s]) = AnswersOn(wire[s])
        /\ \A i \in AnswersOn(wire[s]) : wire'[s][i] = wire[s][i]
    BY <1>1, <1>3, <2>1, AnswersOfAppend
  <2>3. Counted(s)'
    BY <1>1, <2>1, <2>2 DEF Counted
  <2>4. Patient(s)'
    BY <1>1, <2>1, <2>2 DEF Patient
  <2> QED BY <2>3, <2>4
<1> QED BY <1>1, <1>4 DEF RequestsInv

(* A client that starts again waits for nothing. *)
LEMMA NewcomerKeepsRequests ==
  ASSUME RequestsInv, WiresInv, RoomInv, NEW s \in Sockets,
         inbox'[s] = <<>>, lookups'[s] = 0, wire'[s] = <<>>, s \notin room',
         client'[s] = Newcomer(client[s].sent)
  PROVE  Counted(s)' /\ Patient(s)'
<1>1. /\ client'[s].asked = "leave" /\ client'[s].waiting = 0
      /\ client'[s].sent = client[s].sent
  BY DEF Newcomer
<1>2. 0 <= client[s].sent /\ client[s].sent <= MaxMessages
  <2>1. client[s].waiting \in Nat
    BY PatientWaitsOnce
  <2>2. /\ client[s].waiting <= client[s].sent /\ client[s].sent <= MaxMessages
        /\ client[s].sent \in Int
    BY DEF RequestsInv, Counted, RoomInv, Person
  <2> QED BY <2>1, <2>2
<1>3. AnswersOn(wire'[s]) = {} /\ Cardinality(AnswersOn(wire'[s])) = 0
  BY NoAnswers
<1>4. Len(inbox'[s]) = 0 /\ inbox'[s] \in Seq({"join", "leave"})
  OBVIOUS
<1>5. Counted(s)'
  BY <1>1, <1>2, <1>3, <1>4 DEF Counted
<1>6. Patient(s)'
  BY <1>1, <1>3, <1>4 DEF Patient
<1> QED BY <1>5, <1>6

LEMMA BreakKeepsRequests ==
  ASSUME RequestsInv, WiresInv, RoomInv, ServerCrash \/ \E s \in Sockets : Disconnect(s)
  PROVE  RequestsInv'
<1>1. <<>> \in Seq({"join", "leave"})
  OBVIOUS
<1>2. CASE ServerCrash
  <2>1. /\ room' = {} /\ lookups' = [s \in Sockets |-> 0] /\ inbox' = [s \in Sockets |-> <<>>]
        /\ wire' = [s \in Sockets |-> <<>>]
        /\ client' = [s \in Sockets |-> Newcomer(client[s].sent)]
    BY <1>2 DEF ServerCrash
  <2>2. \A s \in Sockets : Counted(s)' /\ Patient(s)'
    BY <2>1, NewcomerKeepsRequests
  <2> QED BY <1>1, <2>1, <2>2 DEF RequestsInv
<1>3. ASSUME NEW s \in Sockets, Disconnect(s) PROVE RequestsInv'
  <2>1. /\ room' = room \ {s} /\ lookups' = [lookups EXCEPT ![s] = 0]
        /\ inbox' = [inbox EXCEPT ![s] = <<>>] /\ wire' = [wire EXCEPT ![s] = <<>>]
        /\ client' = [client EXCEPT ![s] = Newcomer(client[s].sent)]
    BY <1>3 DEF Disconnect
  <2>2. /\ lookups'[s] = 0 /\ inbox'[s] = <<>> /\ wire'[s] = <<>>
        /\ client'[s] = Newcomer(client[s].sent) /\ s \notin room'
        /\ \A u \in Sockets : u # s =>
             /\ inbox'[u] = inbox[u] /\ lookups'[u] = lookups[u]
             /\ client'[u] = client[u] /\ wire'[u] = wire[u]
             /\ u \in room' <=> u \in room
    BY <2>1 DEF RequestsInv, WiresInv, RoomInv
  <2>3. inbox' \in [Sockets -> Seq({"join", "leave"})] /\ lookups' \in [Sockets -> Nat]
    BY <1>1, <2>1 DEF RequestsInv
  <2>4. Counted(s)' /\ Patient(s)'
    BY <2>2, NewcomerKeepsRequests
  <2> QED BY <2>2, <2>3, <2>4, RequestsStep
<1> QED BY <1>2, <1>3

LEMMA InitRequests == Init => RequestsInv
<1> SUFFICES ASSUME Init PROVE RequestsInv
  OBVIOUS
<1>1. /\ inbox = [s \in Sockets |-> <<>>] /\ lookups = [s \in Sockets |-> 0]
      /\ wire = [s \in Sockets |-> <<>>] /\ client = [s \in Sockets |-> Newcomer(0)]
      /\ room = {}
  BY DEF Init
<1>2. <<>> \in Seq({"join", "leave"})
  OBVIOUS
<1>3. ASSUME NEW s \in Sockets PROVE Counted(s) /\ Patient(s)
  <2>1. /\ client[s].asked = "leave" /\ client[s].waiting = 0 /\ client[s].sent = 0
        /\ wire[s] = <<>> /\ lookups[s] = 0 /\ inbox[s] = <<>> /\ s \notin room
    BY <1>1 DEF Newcomer
  <2>2. AnswersOn(wire[s]) = {} /\ Cardinality(AnswersOn(wire[s])) = 0
    BY <2>1, NoAnswers
  <2> QED BY <1>2, <2>1, <2>2, EventBounds DEF Counted, Patient
<1> QED BY <1>1, <1>2, <1>3 DEF RequestsInv

LEMMA StepRequests == CommittedInv /\ RoomInv /\ RequestsInv /\ [Next]_vars => RequestsInv'
<1> SUFFICES ASSUME CommittedInv, RoomInv, RequestsInv, [Next]_vars PROVE RequestsInv'
  OBVIOUS
<1>1. WiresInv
  BY DEF CommittedInv
<1>2. ASSUME UNCHANGED <<room, lookups, inbox, wire>>,
             \A s \in Sockets : /\ client'[s].asked = client[s].asked
                                /\ client'[s].waiting = client[s].waiting
                                /\ client'[s].sent = client[s].sent
                                /\ client'[s].patient = client[s].patient
      PROVE  RequestsInv'
  BY <1>2 DEF RequestsInv, Counted, Patient
<1>3. CASE EndAuction \/ PublishEnd \/ LoseSubscription \/ Subscribe
  BY <1>2, <1>3 DEF EndAuction, PublishEnd, LoseSubscription, Subscribe, sockets
<1>4. CASE \E b \in Bidders : PlaceBid(b) \/ PublishBid(b) \/ PublishFails(b)
  BY <1>2, <1>4 DEF PlaceBid, PublishBid, PublishFails, sockets
<1>5. CASE Broadcast
  BY <1>1, <1>5, BroadcastKeepsRequests
<1>6. CASE ServerCrash \/ \E s \in Sockets : Disconnect(s)
  BY <1>1, <1>6, BreakKeepsRequests
<1>7. ASSUME NEW s \in Sockets, HandleJoin(s) PROVE RequestsInv'
  BY <1>1, <1>7, HandleJoinKeepsRequests
<1>8. ASSUME NEW s \in Sockets, JoinRoom(s) \/ LookupFails(s) \/ HandleLeave(s) PROVE RequestsInv'
  BY <1>1, <1>8, AnswerKeepsRequests
<1>9. ASSUME NEW s \in Sockets, Receive(s) PROVE RequestsInv'
  BY <1>1, <1>9, ReceiveKeepsRequests
<1>10. ASSUME NEW s \in Sockets, Ask(s, "join") \/ Ask(s, "leave") PROVE RequestsInv'
  BY <1>1, <1>10, AskKeepsRequests
<1>11. ASSUME NEW s \in Sockets, Fetch(s) PROVE RequestsInv'
  <2>1. /\ UNCHANGED <<room, lookups, inbox, wire>>
        /\ client' = [client EXCEPT ![s].fetched = TRUE,
                                    ![s].view = [price |-> price, status |-> status]]
    BY <1>11 DEF Fetch
  <2>2. \A u \in Sockets : /\ client'[u].asked = client[u].asked
                           /\ client'[u].waiting = client[u].waiting
                           /\ client'[u].sent = client[u].sent
                           /\ client'[u].patient = client[u].patient
    BY <2>1 DEF RoomInv, Person
  <2> QED BY <1>2, <2>1, <2>2
<1>12. CASE UNCHANGED vars
  BY <1>2, <1>12 DEF vars, sockets
<1> QED BY <1>3, <1>4, <1>5, <1>6, <1>7, <1>8, <1>9, <1>10, <1>11, <1>12 DEF Next

(* registerAuctionSocketHandlers: a client that waits for each answer before  *)
(* it asks again is where it last asked to be, whatever lookups fail and     *)
(* whatever connections break.                                               *)
THEOREM RoomsAlwaysFollowRequests == Spec => []RoomFollowsRequests
<1> DEFINE IInv == CommittedInv /\ RoomInv /\ RequestsInv
<1>1. IInv => RoomFollowsRequests
  <2> SUFFICES ASSUME IInv, NEW s \in Sockets, Answered(s), client[s].patient
               PROVE  client[s].asked = "join" <=> s \in room
    BY DEF RoomFollowsRequests
  <2>1. Counted(s) /\ Patient(s)
    BY DEF RequestsInv
  <2>2. Len(inbox[s]) = 0 /\ lookups[s] = 0 /\ Cardinality(AnswersOn(wire[s])) = 0
    BY NoAnswers DEF Answered
  <2>3. client[s].waiting = 0
    BY <2>1, <2>2 DEF Counted
  <2> QED BY <2>1, <2>3 DEF Patient
<1>2. Init => IInv
  BY InitCommitted, InitRoom, InitRequests
<1>3. IInv /\ [Next]_vars => IInv'
  BY StepCommitted, StepRoom, StepRequests
<1> HIDE DEF IInv
<1> QED BY <1>1, <1>2, <1>3, PTL DEF Spec

------------------------------------------------------------------------------
(* Events on their way to a watcher: what a client that has fetched does not  *)
(* show yet is about to be published, on its way to it, or lost.            *)
On(q, e) == \E i \in 1 .. Len(q) : q[i] = e
LeftOn(q) == \E i \in 1 .. Len(q) : q[i].event = "auction:left"

PriceOnTheWay(s) ==
  \/ BidEvent(price) \in lost
  \/ On(channel, BidEvent(price)) \/ On(wire[s], BidEvent(price))
  \/ \E b \in Bidders : bid[b].stage = "publish" /\ bid[b].price = price
EndOnTheWay(s) ==
  \/ EndedEvent \in lost
  \/ On(channel, EndedEvent) \/ On(wire[s], EndedEvent)
  \/ ending = "publish"

(* A client that has fetched and has not been told to be outside misses no    *)
(* event that is still to come.                                              *)
Follows(s) ==
  /\ client[s].view.price <= price
  /\ client[s].view.status = "ENDED" => Ended
  /\ client[s].fetched => client[s].inside
  /\ client[s].inside /\ client[s].fetched /\ ~LeftOn(wire[s]) =>
       /\ s \in room
       /\ client[s].view.price = price \/ PriceOnTheWay(s)
       /\ client[s].view.status = status \/ EndOnTheWay(s)
FollowInv == \A s \in Sockets : Follows(s)

LEMMA OnAppend ==
  ASSUME NEW S, NEW q \in Seq(S), NEW m \in S
  PROVE  /\ \A e : On(q, e) => On(Append(q, m), e)
         /\ On(Append(q, m), m)
         /\ LeftOn(Append(q, m)) <=> LeftOn(q) \/ m.event = "auction:left"
<1>1. /\ Len(Append(q, m)) = Len(q) + 1 /\ Len(q) \in Nat
      /\ \A i \in 1 .. Len(q) : Append(q, m)[i] = q[i]
      /\ Append(q, m)[Len(q) + 1] = m
  BY AppendProperties
<1>2. 1 .. (Len(q) + 1) = (1 .. Len(q)) \cup {Len(q) + 1}
  BY <1>1
<1> QED BY <1>1, <1>2 DEF On, LeftOn

LEMMA OnTail ==
  ASSUME NEW S, NEW q \in Seq(S), q # <<>>
  PROVE  /\ \A e : On(q, e) => e = Head(q) \/ On(Tail(q), e)
         /\ LeftOn(q) <=> Head(q).event = "auction:left" \/ LeftOn(Tail(q))
<1> DEFINE t == Tail(q)
<1>1. /\ Len(t) = Len(q) - 1 /\ Head(q) = q[1]
      /\ \A i \in 1 .. Len(t) : t[i] = q[i + 1]
      /\ Len(q) \in Nat \ {0}
  BY HeadTailProperties
<1> HIDE DEF t
<1>2. \A i \in 1 .. Len(t) : i + 1 \in 1 .. Len(q) /\ t[i] = q[i + 1]
  BY <1>1
<1>3. \A i \in 1 .. Len(q) : i = 1 \/ (i - 1 \in 1 .. Len(t) /\ t[i - 1] = q[i])
  <2> SUFFICES ASSUME NEW i \in 1 .. Len(q), i # 1
               PROVE  i - 1 \in 1 .. Len(t) /\ t[i - 1] = q[i]
    OBVIOUS
  <2>1. i - 1 \in 1 .. Len(t) /\ (i - 1) + 1 = i
    BY <1>1
  <2> QED BY <1>2, <2>1
<1>4. 1 \in 1 .. Len(q)
  BY <1>1
<1>5. \A e : On(q, e) => e = Head(q) \/ On(t, e)
  BY <1>1, <1>3 DEF On
<1>6. LeftOn(q) <=> Head(q).event = "auction:left" \/ LeftOn(t)
  BY <1>1, <1>2, <1>3, <1>4 DEF LeftOn
<1> QED BY <1>5, <1>6 DEF t

LEMMA LastOf ==
  ASSUME NEW n \in Nat, NEW S \in SUBSET (1 .. n), S # {}
  PROVE  \E m \in S : \A j \in S : j <= m
<1> DEFINE T == {k \in Nat : \E j \in S : k = n - j}
           Below == {pair \in Nat \X Nat : pair[1] < pair[2]}
<1>1. T # {}
  <2>1. PICK j \in S : TRUE
    OBVIOUS
  <2>2. n - j \in T
    BY <2>1
  <2> QED BY <2>2
<1>2. IsWellFoundedOn(Below, Nat)
  BY NatLessThanWellFounded, Zenon DEF OpToRel
<1>3. PICK k \in T : \A y \in T : ~(y < k)
  <2>1. T \subseteq Nat
    OBVIOUS
  <2> HIDE DEF T
  <2>2. PICK k \in T : \A y \in T : ~(<<y, k>> \in Below)
    <3> HIDE DEF Below
    <3> QED BY <1>1, <1>2, <2>1, WFMin
  <2> QED BY <2>1, <2>2
<1>4. PICK m \in S : k = n - m
  OBVIOUS
<1>5. ASSUME NEW j \in S PROVE j <= m
  <2>1. n - j \in T
    OBVIOUS
  <2> QED BY <2>1, <1>3, <1>4
<1> QED BY <1>5

(* Who believes to be inside, with no word of the contrary under way, is.     *)
LEMMA InsideWithoutLeave ==
  ASSUME WiresInv, RoomInv, NEW s \in Sockets, client[s].inside, ~LeftOn(wire[s])
  PROVE  s \in room
<1>1. LastWord(wire[s], client[s].inside, s, room) /\ wire[s] \in Seq(Message)
  BY DEF RoomInv, WiresInv
<1>2. CASE Words(wire[s]) = {}
  BY <1>1, <1>2 DEF LastWord
<1>3. CASE Words(wire[s]) # {}
  <2>1. Len(wire[s]) \in Nat /\ Words(wire[s]) \in SUBSET (1 .. Len(wire[s]))
    BY <1>1 DEF Words
  <2>2. PICK i \in Words(wire[s]) : \A j \in Words(wire[s]) : j <= i
    BY <1>3, <2>1, LastOf
  <2>3. wire[s][i].event = "auction:joined" <=> s \in room
    BY <1>1, <2>2 DEF LastWord
  <2>4. wire[s][i].event \in Telling /\ wire[s][i].event # "auction:left"
    BY DEF Words, LeftOn
  <2> QED BY <2>3, <2>4 DEF Telling
<1> QED BY <1>2, <1>3

(* A step after which the same row is shown by the same client. *)
LEMMA StillFollows ==
  ASSUME NEW s \in Sockets, Follows(s), UNCHANGED <<price, status>>,
         client'[s].view = client[s].view, client'[s].inside = client[s].inside,
         client'[s].fetched = client[s].fetched,
         client[s].inside /\ client[s].fetched /\ ~LeftOn(wire[s])' =>
           /\ ~LeftOn(wire[s]) /\ (s \in room => s \in room')
           /\ PriceOnTheWay(s) => PriceOnTheWay(s)'
           /\ EndOnTheWay(s) => EndOnTheWay(s)'
  PROVE  Follows(s)'
BY DEF Follows, Ended

LEMMA PlaceBidFollows ==
  ASSUME CommittedInv, RoomInv, FollowInv, NEW b \in Bidders, PlaceBid(b)
  PROVE  FollowInv'
<1>1. /\ price \in Nat /\ price' = price + 1 /\ status = "LIVE" /\ status' = status
      /\ bid' = [bid EXCEPT ![b] = [stage |-> "publish", price |-> price + 1]]
      /\ UNCHANGED <<client, wire, room>>
  BY DEF PlaceBid, CommittedInv, RowInv, Ended, sockets
<1>2. bid'[b].stage = "publish" /\ bid'[b].price = price'
  BY <1>1 DEF CommittedInv, RowInv
<1>3. ASSUME NEW s \in Sockets PROVE Follows(s)'
  <2>1. Follows(s) /\ client[s] \in Person
    BY DEF FollowInv, RoomInv
  <2>2. client[s].view.price \in Nat /\ client[s].view.status \in {"LIVE", "ENDED"}
    BY <2>1 DEF Person
  <2>3. client[s].view.price <= price'
    BY <1>1, <2>1, <2>2 DEF Follows
  <2>4. client[s].view.status = status'
    BY <1>1, <2>1, <2>2 DEF Follows, Ended
  <2>5. PriceOnTheWay(s)'
    BY <1>2 DEF PriceOnTheWay
  <2> QED BY <1>1, <2>1, <2>3, <2>4, <2>5 DEF Follows
<1> QED BY <1>3 DEF FollowInv

LEMMA EndAuctionFollows ==
  ASSUME CommittedInv, FollowInv, EndAuction
  PROVE  FollowInv'
<1>1. /\ price' = price /\ status' = "ENDED" /\ ending' = "publish"
      /\ UNCHANGED <<bid, client, wire, room, channel, lost>>
  BY DEF EndAuction, redis, sockets
<1>2. ASSUME NEW s \in Sockets PROVE Follows(s)'
  <2>1. Follows(s)
    BY DEF FollowInv
  <2>2. EndOnTheWay(s)' /\ Ended'
    BY <1>1 DEF EndOnTheWay, Ended
  <2>3. PriceOnTheWay(s)' <=> PriceOnTheWay(s)
    BY <1>1 DEF PriceOnTheWay, BidEvent
  <2> QED BY <1>1, <2>1, <2>2, <2>3 DEF Follows
<1> QED BY <1>2 DEF FollowInv

(* A publication that works or fails: the event is on the channel or lost.    *)
LEMMA PublicationFollows ==
  ASSUME CommittedInv, FollowInv,
         PublishEnd \/ \E b \in Bidders : PublishBid(b) \/ PublishFails(b)
  PROVE  FollowInv'
<1>1. PICK e \in News :
        /\ \/ channel' = Append(channel, e) /\ lost' = lost
           \/ channel' = channel /\ lost' = lost \cup {e}
        /\ UNCHANGED <<price, status, client, wire, room>>
        /\ \A b \in Bidders : bid[b].stage = "publish" =>
             (bid'[b].stage = "publish" /\ bid'[b].price = bid[b].price) \/ e = BidEvent(bid[b].price)
        /\ ending = "publish" => ending' = "publish" \/ e = EndedEvent
  <2>1. CASE PublishEnd
    <3>1. EndedEvent \in News
      BY DEF EndedEvent, News, CommittedInv, RowInv
    <3> QED BY <2>1, <3>1 DEF PublishEnd, Publish, row, sockets
  <2>2. ASSUME NEW b \in Bidders, PublishBid(b) \/ PublishFails(b)
        PROVE  \E e \in News :
          /\ \/ channel' = Append(channel, e) /\ lost' = lost
             \/ channel' = channel /\ lost' = lost \cup {e}
          /\ UNCHANGED <<price, status, client, wire, room>>
          /\ \A c \in Bidders : bid[c].stage = "publish" =>
               (bid'[c].stage = "publish" /\ bid'[c].price = bid[c].price) \/ e = BidEvent(bid[c].price)
          /\ ending = "publish" => ending' = "publish" \/ e = EndedEvent
    <3> DEFINE e == BidEvent(bid[b].price)
    <3>1. e \in News
      BY DEF BidEvent, News, CommittedInv, RowInv, Request
    <3>2. /\ \/ channel' = Append(channel, e) /\ lost' = lost
             \/ channel' = channel /\ lost' = lost \cup {e}
          /\ UNCHANGED <<price, status, client, wire, room, ending>>
      BY <2>2 DEF PublishBid, PublishFails, Publish, row, sockets
    <3>3. \A c \in Bidders : c # b => bid'[c] = bid[c]
      BY <2>2 DEF PublishBid, PublishFails, CommittedInv, RowInv
    <3>4. \A c \in Bidders : bid[c].stage = "publish" =>
            (bid'[c].stage = "publish" /\ bid'[c].price = bid[c].price) \/ e = BidEvent(bid[c].price)
      BY <3>3
    <3> HIDE DEF e
    <3> QED BY <3>1, <3>2, <3>4
  <2> QED BY <2>1, <2>2
<1>2. /\ \A x : On(channel, x) => On(channel', x)
      /\ On(channel', e) \/ e \in lost'
  <2>1. channel \in Seq(News)
    BY DEF CommittedInv, WiresInv, Sound
  <2>2. /\ \A x : On(channel, x) => On(Append(channel, e), x)
        /\ On(Append(channel, e), e)
    BY <2>1, OnAppend
  <2>3. CASE channel' = Append(channel, e)
    BY <2>2, <2>3
  <2>4. CASE channel' = channel /\ lost' = lost \cup {e}
    BY <2>4
  <2> QED BY <1>1, <2>3, <2>4
<1>4. BidEvent(price)' = BidEvent(price) /\ EndedEvent' = EndedEvent /\ lost \subseteq lost'
  BY <1>1 DEF BidEvent, EndedEvent
<1>5. ASSUME NEW s \in Sockets PROVE Follows(s)'
  <2>1. PriceOnTheWay(s) => PriceOnTheWay(s)'
    BY <1>1, <1>2, <1>4 DEF PriceOnTheWay
  <2>2. EndOnTheWay(s) => EndOnTheWay(s)'
    BY <1>1, <1>2, <1>4 DEF EndOnTheWay
  <2>3. LeftOn(wire[s])' <=> LeftOn(wire[s])
    BY <1>1
  <2> QED BY <1>1, <2>1, <2>2, <2>3, StillFollows DEF FollowInv
<1> QED BY <1>5 DEF FollowInv

LEMMA BroadcastFollows ==
  ASSUME CommittedInv, FollowInv, Broadcast
  PROVE  FollowInv'
<1>1. /\ channel # <<>> /\ channel' = Tail(channel)
      /\ wire' = [s \in Sockets |->
                    IF s \in room THEN Append(wire[s], Head(channel)) ELSE wire[s]]
      /\ UNCHANGED <<price, status, bid, ending, lost, room, client>>
  BY DEF Broadcast, row
<1>2. /\ Head(channel) \in News /\ channel \in Seq(News)
  BY <1>1, TailIsSound DEF CommittedInv, WiresInv, Sound
<1>3. Head(channel) \in Message /\ Head(channel).event # "auction:left"
  BY <1>2 DEF News, Message
<1>4. BidEvent(price)' = BidEvent(price) /\ EndedEvent' = EndedEvent
  BY <1>1 DEF BidEvent, EndedEvent
<1>5. ASSUME NEW s \in Sockets PROVE Follows(s)'
  <2>1. CASE s \in room
    <3>1. wire'[s] = Append(wire[s], Head(channel)) /\ wire[s] \in Seq(Message)
      BY <1>1, <2>1 DEF CommittedInv, WiresInv
    <3>2. /\ \A x : On(wire[s], x) => On(wire'[s], x)
          /\ On(wire'[s], Head(channel)) /\ (LeftOn(wire'[s]) <=> LeftOn(wire[s]))
      BY <1>3, <3>1, OnAppend
    <3>3. \A x : On(channel, x) => On(channel', x) \/ On(wire'[s], x)
      BY <1>1, <1>2, <3>2, OnTail
    <3>4. PriceOnTheWay(s) => PriceOnTheWay(s)'
      BY <1>1, <1>4, <3>2, <3>3 DEF PriceOnTheWay
    <3>5. EndOnTheWay(s) => EndOnTheWay(s)'
      BY <1>1, <1>4, <3>2, <3>3 DEF EndOnTheWay
    <3> QED BY <1>1, <3>2, <3>4, <3>5, StillFollows DEF FollowInv
  <2>2. CASE s \notin room
    <3>1. wire'[s] = wire[s]
      BY <1>1, <2>2
    <3> QED BY <1>1, <2>2, <3>1 DEF FollowInv, Follows, Ended
  <2> QED BY <2>1, <2>2
<1> QED BY <1>5 DEF FollowInv

LEMMA LoseSubscriptionFollows ==
  ASSUME CommittedInv, FollowInv, LoseSubscription
  PROVE  FollowInv'
<1>1. /\ channel' = <<>> /\ lost' = lost \cup Range(channel)
      /\ UNCHANGED <<price, status, bid, ending, room, client, wire>>
  BY DEF LoseSubscription, row, sockets
<1>2. \A x : On(channel, x) => x \in lost'
  <2>1. channel \in Seq(News)
    BY DEF CommittedInv, WiresInv, Sound
  <2>2. DOMAIN channel = 1 .. Len(channel)
    BY <2>1
  <2> QED BY <1>1, <2>2 DEF On, Range
<1>3. BidEvent(price)' = BidEvent(price) /\ EndedEvent' = EndedEvent
  BY <1>1 DEF BidEvent, EndedEvent
<1>4. ASSUME NEW s \in Sockets PROVE Follows(s)'
  <2>1. PriceOnTheWay(s) => PriceOnTheWay(s)'
    BY <1>1, <1>2, <1>3 DEF PriceOnTheWay
  <2>2. EndOnTheWay(s) => EndOnTheWay(s)'
    BY <1>1, <1>2, <1>3 DEF EndOnTheWay
  <2>3. LeftOn(wire[s])' <=> LeftOn(wire[s])
    BY <1>1
  <2> QED BY <1>1, <2>1, <2>2, <2>3, StillFollows DEF FollowInv
<1> QED BY <1>4 DEF FollowInv

(* A client that starts again has fetched nothing. *)
LEMMA BreakFollows ==
  ASSUME CommittedInv, RoomInv, FollowInv, ServerCrash \/ \E s \in Sockets : Disconnect(s)
  PROVE  FollowInv'
<1>1. price \in Nat /\ UNCHANGED <<price, status>>
  BY DEF ServerCrash, Disconnect, row, CommittedInv, RowInv
<1>2. ASSUME NEW s \in Sockets, client'[s] = Newcomer(client[s].sent) PROVE Follows(s)'
  <2>1. /\ client'[s].view.price = 0 /\ client'[s].view.status = "LIVE"
        /\ client'[s].fetched = FALSE
    BY <1>2 DEF Newcomer, Blank
  <2> QED BY <1>1, <2>1 DEF Follows
<1>3. CASE ServerCrash
  <2>1. \A s \in Sockets : client'[s] = Newcomer(client[s].sent)
    BY <1>3 DEF ServerCrash
  <2> QED BY <1>2, <2>1 DEF FollowInv
<1>4. ASSUME NEW s \in Sockets, Disconnect(s) PROVE FollowInv'
  <2>1. /\ client'[s] = Newcomer(client[s].sent)
        /\ UNCHANGED <<bid, ending, channel, lost>>
    BY <1>4 DEF Disconnect, redis, RoomInv
  <2>2. ASSUME NEW u \in Sockets, u # s PROVE Follows(u)'
    <3>1. /\ client'[u] = client[u] /\ wire'[u] = wire[u]
          /\ u \in room => u \in room'
      BY <1>4, <2>2 DEF Disconnect, CommittedInv, WiresInv, RoomInv
    <3>2. (PriceOnTheWay(u) => PriceOnTheWay(u)') /\ (EndOnTheWay(u) => EndOnTheWay(u)')
      BY <1>1, <2>1, <3>1 DEF PriceOnTheWay, EndOnTheWay, BidEvent, EndedEvent
    <3>3. LeftOn(wire[u])' <=> LeftOn(wire[u])
      BY <3>1
    <3> QED BY <1>1, <3>1, <3>2, <3>3, StillFollows DEF FollowInv
  <2> QED BY <1>2, <2>1, <2>2 DEF FollowInv
<1> QED BY <1>3, <1>4

LEMMA AnswerFollows ==
  ASSUME CommittedInv, FollowInv, NEW s \in Sockets,
         JoinRoom(s) \/ LookupFails(s) \/ HandleLeave(s)
  PROVE  FollowInv'
<1>1. PICK what \in {"auction:joined", "auction:left", "auction:error"} :
        /\ wire' = [wire EXCEPT ![s] = Append(wire[s], [event |-> what])]
        /\ what # "auction:left" => room \subseteq room'
        /\ \A u \in Sockets : u # s => (u \in room' <=> u \in room)
        /\ UNCHANGED <<price, status, bid, ending, channel, lost, client>>
  BY DEF JoinRoom, LookupFails, HandleLeave, Emit, row, redis
<1> DEFINE m == [event |-> what]
<1>2. m \in Message /\ m.event = what /\ wire[s] \in Seq(Message)
  BY DEF Message, Answer, CommittedInv, WiresInv
<1>3. wire'[s] = Append(wire[s], m) /\ \A u \in Sockets : u # s => wire'[u] = wire[u]
  BY <1>1 DEF CommittedInv, WiresInv
<1> HIDE DEF m
<1>4. ASSUME NEW u \in Sockets
      PROVE  /\ \A x : On(wire[u], x) => On(wire'[u], x)
             /\ LeftOn(wire'[u]) <=> LeftOn(wire[u]) \/ (u = s /\ what = "auction:left")
  <2>1. CASE u = s
    <3>1. /\ \A x : On(wire[s], x) => On(Append(wire[s], m), x)
          /\ LeftOn(Append(wire[s], m)) <=> LeftOn(wire[s]) \/ m.event = "auction:left"
      BY <1>2, OnAppend
    <3> QED BY <1>2, <1>3, <2>1, <3>1
  <2>2. CASE u # s
    BY <1>3, <2>2
  <2> QED BY <2>1, <2>2
<1>5. ASSUME NEW u \in Sockets PROVE Follows(u)'
  <2>1. (PriceOnTheWay(u) => PriceOnTheWay(u)') /\ (EndOnTheWay(u) => EndOnTheWay(u)')
    BY <1>1, <1>4 DEF PriceOnTheWay, EndOnTheWay, BidEvent, EndedEvent
  <2>2. ~LeftOn(wire'[u]) => ~LeftOn(wire[u]) /\ (u \in room => u \in room')
    BY <1>1, <1>4
  <2> QED BY <1>1, <2>1, <2>2, StillFollows DEF FollowInv
<1> QED BY <1>5 DEF FollowInv

LEMMA LearnedView ==
  ASSUME NEW view \in [price: Nat, status: {"LIVE", "ENDED"}], NEW e \in News
  PROVE  LET now == Learned(view, e) IN
         /\ now.price = view.price \/ now.price = e.price
         /\ now.price >= view.price /\ now.price >= e.price
         /\ e.event = "auction:ended" => now.status = "ENDED"
         /\ e.event = "auction:bid" => now.status = view.status
<1>1. e.price \in Nat /\ view.price \in Nat /\ e.event \in {"auction:bid", "auction:ended"}
  BY DEF News
<1>2. PICK p \in Nat : p = Newer(view.price, e.price) /\ (p = view.price \/ p = e.price)
                       /\ p >= view.price /\ p >= e.price
  BY <1>1 DEF Newer
<1>3. Learned(view, e) = IF e.event = "auction:ended" THEN [price |-> p, status |-> "ENDED"]
                         ELSE [view EXCEPT !.price = p]
  BY <1>2 DEF Learned
<1> QED BY <1>1, <1>2, <1>3

(* What arrives was true when it was sent, and what it says is known now.     *)
LEMMA ReceiveFollows ==
  ASSUME CommittedInv, RoomInv, FollowInv, NEW s \in Sockets, Receive(s)
  PROVE  FollowInv'
<1> DEFINE m == Head(wire[s])
           me == client[s]
           now == Understood(me, m)
<1>1. /\ wire[s] # <<>> /\ wire' = [wire EXCEPT ![s] = Tail(wire[s])]
      /\ client' = [client EXCEPT ![s] = now]
      /\ UNCHANGED <<price, status, bid, ending, channel, lost, room>>
  BY DEF Receive, row, redis
<1>2. /\ wire[s] \in Seq(Message) /\ m \in Message /\ me \in Person
      /\ Backed(m, price, status) /\ price \in Nat
  BY <1>1, TailIsSound DEF CommittedInv, RowInv, WiresInv, RoomInv
<1>3. /\ wire'[s] = Tail(wire[s]) /\ client'[s] = now
      /\ \A u \in Sockets : u # s => wire'[u] = wire[u] /\ client'[u] = client[u]
  BY <1>1 DEF CommittedInv, WiresInv, RoomInv
<1>4. BidEvent(price)' = BidEvent(price) /\ EndedEvent' = EndedEvent
  BY <1>1 DEF BidEvent, EndedEvent
<1>5. /\ \A x : On(wire[s], x) => x = m \/ On(wire'[s], x)
      /\ LeftOn(wire[s]) <=> m.event = "auction:left" \/ LeftOn(wire'[s])
  BY <1>1, <1>2, <1>3, OnTail
<1>6. /\ PriceOnTheWay(s) => PriceOnTheWay(s)' \/ m = BidEvent(price)
      /\ EndOnTheWay(s) => EndOnTheWay(s)' \/ m = EndedEvent
  BY <1>1, <1>4, <1>5 DEF PriceOnTheWay, EndOnTheWay
<1>7. Follows(s)
  BY DEF FollowInv
<1>8. Follows(s)'
  <2>1. CASE m.event \in Answers
    <3>1. m # BidEvent(price) /\ m # EndedEvent
      BY <2>1 DEF BidEvent, EndedEvent, Answers
    <3>2. now.view = me.view
      BY <1>2, <2>1, UnderstoodFields
    <3>3. CASE m.event = "auction:left"
      <4>1. now.fetched = FALSE
        BY <1>2, <3>3, UnderstoodFields
      <4> HIDE DEF now, m
      <4> QED BY <1>1, <1>3, <1>7, <3>2, <4>1 DEF Follows, Ended
    <3>4. CASE m.event # "auction:left"
      <4>1. /\ now.fetched = me.fetched /\ (me.inside => now.inside)
        BY <1>2, <2>1, <3>4, UnderstoodFields DEF Answers
      <4> HIDE DEF now, m
      <4> QED BY <1>1, <1>3, <1>5, <1>6, <1>7, <3>1, <3>2, <3>4, <4>1 DEF Follows, Ended
    <3> QED BY <3>3, <3>4
  <2>2. CASE m.event \notin Answers
    <3>1. m \in News
      BY <1>2, <2>2 DEF Message, News, Answer, Answers
    <3>2. /\ now.inside = me.inside /\ now.fetched = me.fetched
          /\ now.view = Learned(me.view, m)
      BY <1>2, <2>2, UnderstoodFields
    <3>3. me.view \in [price: Nat, status: {"LIVE", "ENDED"}] /\ me.view.price \in Nat
      BY <1>2 DEF Person
    <3>4. /\ now.view.price = me.view.price \/ now.view.price = m.price
          /\ now.view.price >= me.view.price /\ now.view.price >= m.price
          /\ m.event = "auction:ended" => now.view.status = "ENDED"
          /\ m.event = "auction:bid" => now.view.status = me.view.status
      BY <3>1, <3>2, <3>3, LearnedView
    <3>5. /\ m.price <= price /\ m.price \in Nat
          /\ m.event \in {"auction:bid", "auction:ended"}
          /\ m.event = "auction:ended" => status = "ENDED"
      BY <1>2, <3>1 DEF News, Backed
    <3>6. (m = BidEvent(price) => m.price = price) /\ (m = EndedEvent => m.event = "auction:ended")
      BY DEF BidEvent, EndedEvent
    <3> HIDE DEF now, m
    <3>7. PICK p, q, r \in Nat : p = me.view.price /\ q = now.view.price /\ r = m.price
      BY <3>3, <3>4, <3>5
    <3>8. me.view.price <= price
      BY <1>7 DEF Follows
    <3>9. /\ q <= price /\ (p = price => q = price) /\ (r = price => q = price)
      BY <1>2, <3>4, <3>5, <3>7, <3>8
    <3>10. now.view.status = "ENDED" => Ended
      BY <1>7, <3>4, <3>5 DEF Follows, Ended
    <3>11. now.fetched => now.inside
      BY <1>7, <3>2 DEF Follows
    <3>12. ASSUME now.inside, now.fetched, ~LeftOn(wire'[s])
           PROVE  /\ s \in room
                  /\ now.view.price = price \/ PriceOnTheWay(s)'
                  /\ now.view.status = status \/ EndOnTheWay(s)'
      <4>1. ~LeftOn(wire[s])
        BY <1>5, <3>5, <3>12
      <4>2. /\ s \in room
            /\ me.view.price = price \/ PriceOnTheWay(s)
            /\ me.view.status = status \/ EndOnTheWay(s)
        BY <1>7, <3>2, <3>12, <4>1 DEF Follows
      <4>3. now.view.price = price \/ PriceOnTheWay(s)'
        BY <1>6, <3>6, <3>7, <3>9, <4>2
      <4>4. now.view.status = status \/ EndOnTheWay(s)'
        BY <1>6, <3>4, <3>5, <3>6, <4>2
      <4> QED BY <4>2, <4>3, <4>4
    <3>13. now.view.price <= price
      BY <3>7, <3>9
    <3> QED BY <1>1, <1>3, <3>10, <3>11, <3>12, <3>13 DEF Follows, Ended
  <2> QED BY <2>1, <2>2
<1>9. ASSUME NEW u \in Sockets, u # s PROVE Follows(u)'
  <2>1. (PriceOnTheWay(u) => PriceOnTheWay(u)') /\ (EndOnTheWay(u) => EndOnTheWay(u)')
    BY <1>1, <1>3, <1>4, <1>9 DEF PriceOnTheWay, EndOnTheWay
  <2>2. wire'[u] = wire[u] /\ client'[u] = client[u]
    BY <1>3, <1>9
  <2>3. LeftOn(wire[u])' <=> LeftOn(wire[u])
    BY <2>2
  <2> QED BY <1>1, <2>1, <2>2, <2>3, StillFollows DEF FollowInv
<1> QED BY <1>8, <1>9 DEF FollowInv

LEMMA FetchFollows ==
  ASSUME CommittedInv, RoomInv, FollowInv, NEW s \in Sockets, Fetch(s)
  PROVE  FollowInv'
<1>1. /\ client[s].inside
      /\ client' = [client EXCEPT ![s].fetched = TRUE,
                                  ![s].view = [price |-> price, status |-> status]]
      /\ UNCHANGED <<price, status, bid, ending, channel, lost, room, wire>>
  BY DEF Fetch, row, redis
<1>2. /\ client'[s].view.price = price /\ client'[s].view.status = status
      /\ client'[s].inside = client[s].inside
      /\ \A u \in Sockets : u # s => client'[u] = client[u]
  BY <1>1 DEF RoomInv, Person
<1>3. Follows(s)'
  <2>1. ~LeftOn(wire[s]) => s \in room
    BY <1>1, InsideWithoutLeave DEF CommittedInv
  <2>2. price \in Nat
    BY DEF CommittedInv, RowInv
  <2>3. client'[s].inside
    BY <1>1, <1>2
  <2>4. ~LeftOn(wire[s])' => s \in room'
    BY <1>1, <2>1
  <2>5. client'[s].view.price = price' /\ price' <= price' /\ client'[s].view.status = status'
    BY <1>1, <1>2, <2>2
  <2> QED BY <2>3, <2>4, <2>5 DEF Follows, Ended
<1>4. ASSUME NEW u \in Sockets, u # s PROVE Follows(u)'
  <2>1. client'[u] = client[u] /\ (LeftOn(wire[u])' <=> LeftOn(wire[u]))
    BY <1>1, <1>2, <1>4
  <2>2. (PriceOnTheWay(u) => PriceOnTheWay(u)') /\ (EndOnTheWay(u) => EndOnTheWay(u)')
    BY <1>1 DEF PriceOnTheWay, EndOnTheWay, BidEvent, EndedEvent
  <2> QED BY <1>1, <2>1, <2>2, StillFollows DEF FollowInv
<1> QED BY <1>3, <1>4 DEF FollowInv

LEMMA InitFollows == Init => FollowInv
<1> SUFFICES ASSUME Init, NEW s \in Sockets PROVE Follows(s)
  BY DEF FollowInv
<1>1. price = 0 /\ client[s].view = Blank /\ client[s].fetched = FALSE
  BY DEF Init, Newcomer
<1> QED BY <1>1 DEF Follows, Blank

LEMMA StepFollows == CommittedInv /\ RoomInv /\ FollowInv /\ [Next]_vars => FollowInv'
<1> SUFFICES ASSUME CommittedInv, RoomInv, FollowInv, [Next]_vars PROVE FollowInv'
  OBVIOUS
<1>1. ASSUME UNCHANGED <<price, status, bid, ending, channel, lost, room, wire>>,
             \A s \in Sockets : /\ client'[s].view = client[s].view
                                /\ client'[s].inside = client[s].inside
                                /\ client'[s].fetched = client[s].fetched
      PROVE  FollowInv'
  BY <1>1 DEF FollowInv, Follows, Ended, PriceOnTheWay, EndOnTheWay, BidEvent, EndedEvent
<1>2. CASE Subscribe \/ \E s \in Sockets : HandleJoin(s)
  BY <1>1, <1>2 DEF Subscribe, HandleJoin, sockets, redis, row
<1>3. ASSUME NEW s \in Sockets, NEW message, Ask(s, message) PROVE FollowInv'
  <2>1. UNCHANGED <<price, status, bid, ending, channel, lost, room, wire>>
    BY <1>3 DEF Ask, row, redis
  <2>2. \A u \in Sockets : /\ client'[u].view = client[u].view
                           /\ client'[u].inside = client[u].inside
                           /\ client'[u].fetched = client[u].fetched
    BY <1>3 DEF Ask, RoomInv, Person
  <2> QED BY <1>1, <2>1, <2>2
<1>4. CASE \E b \in Bidders : PlaceBid(b)
  BY <1>4, PlaceBidFollows
<1>5. CASE PublishEnd \/ \E b \in Bidders : PublishBid(b) \/ PublishFails(b)
  BY <1>5, PublicationFollows
<1>6. CASE EndAuction
  BY <1>6, EndAuctionFollows
<1>7. CASE Broadcast
  BY <1>7, BroadcastFollows
<1>8. CASE LoseSubscription
  BY <1>8, LoseSubscriptionFollows
<1>9. CASE ServerCrash \/ \E s \in Sockets : Disconnect(s)
  BY <1>9, BreakFollows
<1>10. ASSUME NEW s \in Sockets, JoinRoom(s) \/ LookupFails(s) \/ HandleLeave(s) PROVE FollowInv'
  BY <1>10, AnswerFollows
<1>11. ASSUME NEW s \in Sockets, Receive(s) PROVE FollowInv'
  BY <1>11, ReceiveFollows
<1>12. ASSUME NEW s \in Sockets, Fetch(s) PROVE FollowInv'
  BY <1>12, FetchFollows
<1>13. CASE UNCHANGED vars
  BY <1>1, <1>13 DEF vars, sockets, redis, row
<1> QED BY <1>2, <1>3, <1>4, <1>5, <1>6, <1>7, <1>8, <1>9, <1>10, <1>11, <1>12, <1>13 DEF Next

(* postBidService, broadcastSocketEvent, auction:join: for any numbers of     *)
(* bids, watchers and faults, a client that fetched after it was told that it *)
(* is in the room shows the committed price and status once nothing is under *)
(* way, unless the very event that would have told it was lost.              *)
THEOREM WatchersAlwaysUpToDate == Spec => []WatchersAreUpToDate
<1> DEFINE IInv == CommittedInv /\ RoomInv /\ FollowInv
<1>1. IInv => WatchersAreUpToDate
  <2> SUFFICES ASSUME IInv, NEW s \in Sockets, Quiet, Answered(s),
                      client[s].inside, client[s].fetched
               PROVE  /\ client[s].view.price = price \/ BidEvent(price) \in lost
                      /\ client[s].view.status = status \/ EndedEvent \in lost
    BY DEF WatchersAreUpToDate
  <2>1. Follows(s)
    BY DEF FollowInv
  <2>2. \A e : ~On(channel, e) /\ ~On(wire[s], e)
    BY DEF Quiet, Answered, On
  <2>3. ~LeftOn(wire[s])
    BY DEF Answered, LeftOn
  <2> QED BY <2>1, <2>2, <2>3 DEF Follows, PriceOnTheWay, EndOnTheWay, Quiet
<1>2. Init => IInv
  BY InitCommitted, InitRoom, InitFollows
<1>3. IInv /\ [Next]_vars => IInv'
  BY StepCommitted, StepRoom, StepFollows
<1> HIDE DEF IInv
<1> QED BY <1>1, <1>2, <1>3, PTL DEF Spec

------------------------------------------------------------------------------
(* Prices and the other bounds *)

Placed == {b \in Bidders : bid[b].stage # "idle"}

(* Every bidder that has placed its bid has raised the price by one, and no    *)
(* event that was lost is ahead of the row.                                  *)
PricesInv ==
  /\ price = Cardinality(Placed)
  /\ \A b \in Bidders : bid[b].price <= price
  /\ \A e \in lost : e \in News /\ e.price <= price
BoundsInv ==
  /\ PricesInv
  /\ server \in {"up", "unsubscribed", "down"} /\ room \subseteq Sockets
  /\ spent \in [{"faults", "drops", "outages"} -> Nat]

LEMMA SpendType ==
  ASSUME spent \in [{"faults", "drops", "outages"} -> Nat],
         NEW what \in {"faults", "drops", "outages"}, NEW bound, Spend(what, bound)
  PROVE  spent' \in [{"faults", "drops", "outages"} -> Nat]
BY DEF Spend

LEMMA EventsCostNoMore ==
  ASSUME CommittedInv, NEW e \in News, Backed(e, price, status)
  PROVE  e.price <= price
BY DEF CommittedInv, RowInv, News, Backed

LEMMA OnChannelCostsNoMore ==
  ASSUME CommittedInv, NEW e \in Range(channel)
  PROVE  e \in News /\ e.price <= price
<1>1. channel \in Seq(News) /\ \A i \in 1 .. Len(channel) : Backed(channel[i], price, status)
  BY DEF CommittedInv, WiresInv, Sound
<1>2. PICK i \in 1 .. Len(channel) : e = channel[i]
  BY <1>1 DEF Range
<1>3. e \in News
  BY <1>1, <1>2
<1> QED BY <1>1, <1>2, <1>3, EventsCostNoMore

LEMMA PlaceBidBounds ==
  ASSUME CommittedInv, BoundsInv, NEW b \in Bidders, PlaceBid(b)
  PROVE  BoundsInv'
<1>1. /\ price \in Nat /\ price' = price + 1 /\ bid \in [Bidders -> Request]
      /\ bid[b].stage = "idle"
      /\ bid' = [bid EXCEPT ![b] = [stage |-> "publish", price |-> price + 1]]
      /\ UNCHANGED <<server, lost, room, spent>>
  BY DEF PlaceBid, CommittedInv, RowInv, redis, sockets
<1>2. \A c \in Bidders : bid'[c].stage # "idle" <=> bid[c].stage # "idle" \/ c = b
  BY <1>1
<1>3. Placed' = Placed \cup {b} /\ b \notin Placed
  BY <1>1, <1>2 DEF Placed
<1>4. price' = Cardinality(Placed')
  <2>1. IsFiniteSet(Placed)
    BY EventBounds, FS_Subset DEF Placed
  <2>2. Cardinality(Placed \cup {b}) = Cardinality(Placed) + 1
    BY <1>3, <2>1, FS_AddElement
  <2> QED BY <1>1, <1>3, <2>2 DEF BoundsInv, PricesInv, Placed
<1>5. \A c \in Bidders : bid'[c].price <= price'
  <2> SUFFICES ASSUME NEW c \in Bidders PROVE bid'[c].price <= price'
    OBVIOUS
  <2>1. CASE c = b
    <3>1. bid'[c].price = price + 1
      BY <1>1, <2>1
    <3> QED BY <1>1, <3>1
  <2>2. CASE c # b
    <3>1. bid'[c] = bid[c] /\ bid[c].price \in Nat /\ bid[c].price <= price
      BY <1>1, <2>2 DEF BoundsInv, PricesInv, Request
    <3> QED BY <1>1, <3>1
  <2> QED BY <2>1, <2>2
<1>6. \A e \in lost' : e \in News /\ e.price <= price'
  BY <1>1 DEF BoundsInv, PricesInv, News
<1> QED BY <1>1, <1>4, <1>5, <1>6 DEF BoundsInv, PricesInv, Placed

(* Only placing a bid moves the price; what is lost was on its way before.    *)
LEMMA OtherBounds ==
  ASSUME CommittedInv, BoundsInv, price' = price,
         \A b \in Bidders : /\ bid'[b].price = bid[b].price
                            /\ bid'[b].stage = "idle" <=> bid[b].stage = "idle",
         \A e \in lost' : e \in lost \/ (e \in News /\ e.price <= price),
         server' \in {"up", "unsubscribed", "down"}, room' \subseteq Sockets,
         spent' \in [{"faults", "drops", "outages"} -> Nat]
  PROVE  BoundsInv'
<1>1. Placed' = Placed
  BY DEF Placed
<1> QED BY <1>1 DEF BoundsInv, PricesInv

LEMMA PublicationBounds ==
  ASSUME CommittedInv, BoundsInv,
         PublishEnd \/ \E b \in Bidders : PublishBid(b) \/ PublishFails(b)
  PROVE  BoundsInv'
<1>1. CASE PublishEnd
  <2>1. EndedEvent \in News /\ EndedEvent.price <= price
    BY DEF EndedEvent, News, CommittedInv, RowInv
  <2>2. /\ UNCHANGED <<price, bid, server, room, spent>>
        /\ lost' \subseteq lost \cup {EndedEvent}
    BY <1>1 DEF PublishEnd, Publish, row, sockets
  <2> QED BY <2>1, <2>2, OtherBounds DEF BoundsInv
<1>2. ASSUME NEW b \in Bidders, PublishBid(b) \/ PublishFails(b) PROVE BoundsInv'
  <2>1. BidEvent(bid[b].price) \in News /\ BidEvent(bid[b].price).price <= price
    BY DEF BidEvent, News, CommittedInv, RowInv, Request, BoundsInv, PricesInv
  <2>2. /\ UNCHANGED <<price, server, room>> /\ bid[b].stage = "publish"
        /\ lost' \subseteq lost \cup {BidEvent(bid[b].price)}
    BY <1>2 DEF PublishBid, PublishFails, Publish, row, sockets
  <2>3. /\ \A c \in Bidders : /\ bid'[c].price = bid[c].price
                              /\ bid'[c].stage = "idle" <=> bid[c].stage = "idle"
    <3>1. PICK stage \in {"created", "failed"} : bid' = [bid EXCEPT ![b].stage = stage]
      BY <1>2 DEF PublishBid, PublishFails
    <3>2. bid \in [Bidders -> Request]
      BY DEF CommittedInv, RowInv
    <3> QED BY <2>2, <3>1, <3>2 DEF Request
  <2>4. spent' \in [{"faults", "drops", "outages"} -> Nat]
    BY <1>2, SpendType DEF PublishBid, PublishFails, BoundsInv
  <2> QED BY <2>1, <2>2, <2>3, <2>4, OtherBounds DEF BoundsInv
<1> QED BY <1>1, <1>2

LEMMA OutageBounds ==
  ASSUME CommittedInv, BoundsInv, LoseSubscription \/ ServerCrash
  PROVE  BoundsInv'
<1>1. spent' \in [{"faults", "drops", "outages"} -> Nat]
  BY SpendType DEF LoseSubscription, ServerCrash, BoundsInv
<1>2. price' = price /\ server' \in {"up", "unsubscribed", "down"} /\ room' \subseteq Sockets
  BY DEF LoseSubscription, ServerCrash, BoundsInv, row, sockets
<1>3. CASE LoseSubscription
  <2>1. lost' = lost \cup Range(channel) /\ bid' = bid
    BY <1>3 DEF LoseSubscription
  <2>2. \A e \in lost' : e \in lost \/ (e \in News /\ e.price <= price)
    BY <2>1, OnChannelCostsNoMore
  <2> QED BY <1>1, <1>2, <2>1, <2>2, OtherBounds
<1>4. CASE ServerCrash
  <2>1. \A b \in Bidders : bid[b] \in Request /\ bid[b].price <= price
    BY DEF CommittedInv, RowInv, BoundsInv, PricesInv
  <2>2. \A b \in Bidders : /\ bid'[b].price = bid[b].price
                           /\ bid'[b].stage = "idle" <=> bid[b].stage = "idle"
    BY <1>4, <2>1 DEF ServerCrash, Request
  <2>3. \A b \in Bidders : BidEvent(bid[b].price) \in News /\ BidEvent(bid[b].price).price <= price
    BY <2>1 DEF BidEvent, News, Request
  <2>4. \A e \in lost' : \/ e \in lost \/ e \in Range(channel)
                         \/ \E b \in Bidders : e = BidEvent(bid[b].price)
    BY <1>4 DEF ServerCrash
  <2>5. \A e \in lost' : e \in lost \/ (e \in News /\ e.price <= price)
    BY <2>3, <2>4, OnChannelCostsNoMore
  <2> QED BY <1>1, <1>2, <2>2, <2>5, OtherBounds
<1> QED BY <1>3, <1>4

LEMMA StepBounds == CommittedInv /\ BoundsInv /\ [Next]_vars => BoundsInv'
<1> SUFFICES ASSUME CommittedInv, BoundsInv, [Next]_vars PROVE BoundsInv'
  OBVIOUS
<1>1. ASSUME UNCHANGED <<price, bid, lost>>,
             server' \in {"up", "unsubscribed", "down"}, room' \subseteq Sockets,
             spent' \in [{"faults", "drops", "outages"} -> Nat]
      PROVE  BoundsInv'
  BY <1>1, OtherBounds
<1>2. CASE EndAuction \/ Broadcast \/ Subscribe
  BY <1>1, <1>2 DEF EndAuction, Broadcast, Subscribe, BoundsInv, row, redis, sockets
<1>3. CASE \E b \in Bidders : PlaceBid(b)
  BY <1>3, PlaceBidBounds
<1>4. CASE PublishEnd \/ \E b \in Bidders : PublishBid(b) \/ PublishFails(b)
  BY <1>4, PublicationBounds
<1>5. CASE LoseSubscription \/ ServerCrash
  BY <1>5, OutageBounds
<1>6. ASSUME NEW s \in Sockets,
             \/ HandleJoin(s) \/ JoinRoom(s) \/ HandleLeave(s)
             \/ Ask(s, "join") \/ Ask(s, "leave") \/ Receive(s) \/ Fetch(s)
      PROVE  BoundsInv'
  BY <1>1, <1>6 DEF HandleJoin, JoinRoom, HandleLeave, Ask, Receive, Fetch, BoundsInv, row, redis
<1>7. ASSUME NEW s \in Sockets, LookupFails(s) \/ Disconnect(s) PROVE BoundsInv'
  <2>1. spent' \in [{"faults", "drops", "outages"} -> Nat]
    BY <1>7, SpendType DEF LookupFails, Disconnect, BoundsInv
  <2> QED BY <1>1, <1>7, <2>1 DEF LookupFails, Disconnect, BoundsInv, row, redis
<1>8. CASE UNCHANGED vars
  BY <1>1, <1>8 DEF vars, BoundsInv, row, redis, sockets
<1> QED BY <1>2, <1>3, <1>4, <1>5, <1>6, <1>7, <1>8 DEF Next

LEMMA InitBounds == Init => BoundsInv
<1> SUFFICES ASSUME Init PROVE BoundsInv
  OBVIOUS
<1>1. Placed = {}
  BY DEF Init, Placed
<1>2. price = Cardinality(Placed)
  BY <1>1, FS_EmptySet DEF Init
<1> QED BY <1>2 DEF Init, BoundsInv, PricesInv

LEMMA SeqOfElements ==
  ASSUME NEW S, NEW T, NEW q \in Seq(S), \A i \in 1 .. Len(q) : q[i] \in T
  PROVE  q \in Seq(T)
<1>1. Len(q) \in Nat /\ q \in [1 .. Len(q) -> T]
  BY LenProperties
<1> QED BY <1>1, SeqDef

(* Every variable keeps its type: a price is never more than the number of     *)
(* bidders, and what a client waits for never more than what it has sent.    *)
THEOREM EventsTypeCorrect == Spec => []TypeOK
<1> DEFINE IInv == CommittedInv /\ RoomInv /\ RequestsInv /\ FollowInv /\ BoundsInv
<1>1. IInv => TypeOK
  <2> SUFFICES ASSUME IInv PROVE TypeOK
    OBVIOUS
  <2>1. price \in Nat /\ price <= Cardinality(Bidders) /\ Cardinality(Bidders) \in Nat
    <3>1. /\ Cardinality(Placed) <= Cardinality(Bidders)
      BY EventBounds, FS_Subset DEF Placed
    <3>2. Cardinality(Bidders) \in Nat
      BY EventBounds, FS_CardinalityType
    <3> QED BY <3>1, <3>2 DEF CommittedInv, RowInv, BoundsInv, PricesInv, Placed
  <2>2. \A p \in Nat : p <= price => p \in Prices
    BY <2>1 DEF Prices
  <2>3. \A e \in News : e.price <= price => e \in Event
    BY <2>2 DEF News, Event
  <2>4. bid \in [Bidders -> Bid]
    <3>1. \A b \in Bidders : bid[b] \in Request /\ bid[b].price <= price
      BY DEF CommittedInv, RowInv, BoundsInv, PricesInv
    <3>2. \A b \in Bidders : bid[b] \in Bid
      BY <2>2, <3>1 DEF Request, Bid
    <3> QED BY <3>2 DEF CommittedInv, RowInv
  <2>5. channel \in Seq(Event)
    <3>1. channel \in Seq(News) /\ \A i \in 1 .. Len(channel) : Backed(channel[i], price, status)
      BY DEF CommittedInv, WiresInv, Sound
    <3>2. \A i \in 1 .. Len(channel) : channel[i] \in Event
      <4> SUFFICES ASSUME NEW i \in 1 .. Len(channel) PROVE channel[i] \in Event
        OBVIOUS
      <4>1. channel[i] \in News
        BY <3>1
      <4> QED BY <2>3, <3>1, <4>1, EventsCostNoMore
    <3> QED BY <3>1, <3>2, SeqOfElements
  <2>6. wire \in [Sockets -> Seq(Event \cup Answer)]
    <3>1. ASSUME NEW s \in Sockets PROVE wire[s] \in Seq(Event \cup Answer)
      <4>1. /\ wire[s] \in Seq(Message)
            /\ \A i \in 1 .. Len(wire[s]) : Backed(wire[s][i], price, status)
        BY DEF CommittedInv, WiresInv, Sound
      <4>2. ASSUME NEW i \in 1 .. Len(wire[s]) PROVE wire[s][i] \in Event \cup Answer
        <5>1. wire[s][i] \in News \/ wire[s][i] \in Answer
          BY <4>1 DEF Message
        <5> QED BY <2>3, <4>1, <5>1, EventsCostNoMore
      <4> QED BY <4>1, <4>2, SeqOfElements
    <3> QED BY <3>1 DEF CommittedInv, WiresInv
  <2>7. lookups \in [Sockets -> 0 .. MaxMessages] /\ client \in [Sockets -> Client]
    <3>1. ASSUME NEW s \in Sockets
          PROVE  lookups[s] \in 0 .. MaxMessages /\ client[s] \in Client
      <4>1. Counted(s) /\ Follows(s) /\ client[s] \in Person
        BY DEF RequestsInv, FollowInv, RoomInv
      <4>2. PICK i, l, k \in Nat :
              /\ i = Len(inbox[s]) /\ l = lookups[s] /\ k = Cardinality(AnswersOn(wire[s]))
              /\ client[s].waiting = i + l + k
        BY PatientWaitsOnce DEF CommittedInv
      <4>3. PICK n \in Int : /\ n = client[s].sent /\ i + l + k <= n /\ n <= MaxMessages
        BY <4>1, <4>2 DEF Counted, Person
      <4>4. /\ l \in 0 .. MaxMessages /\ i + l + k \in 0 .. MaxMessages
            /\ n \in 0 .. MaxMessages
        <5>1. MaxMessages \in Nat
          BY EventBounds
        <5> HIDE DEF IInv
        <5> QED BY <4>3, <5>1
      <4>5. client[s].view.price \in Prices
        BY <2>2, <4>1 DEF Follows, Person
      <4>6. client[s].waiting \in 0 .. MaxMessages /\ client[s].sent \in 0 .. MaxMessages
        BY <4>2, <4>3, <4>4
      <4>7. client[s].view \in View
        BY <4>1, <4>5 DEF Person, View
      <4> QED BY <4>1, <4>2, <4>4, <4>6, <4>7 DEF Person, Client
    <3> QED BY <3>1 DEF RequestsInv, RoomInv
  <2>8. lost \subseteq Event
    BY <2>3 DEF BoundsInv, PricesInv
  <2> QED BY <2>1, <2>2, <2>4, <2>5, <2>6, <2>7, <2>8
          DEF TypeOK, CommittedInv, RowInv, BoundsInv, RequestsInv
<1>2. Init => IInv
  BY InitCommitted, InitRoom, InitRequests, InitFollows, InitBounds
<1>3. IInv /\ [Next]_vars => IInv'
  BY StepCommitted, StepRoom, StepRequests, StepFollows, StepBounds
<1> HIDE DEF IInv
<1> QED BY <1>1, <1>2, <1>3, PTL DEF Spec
==============================================================================
