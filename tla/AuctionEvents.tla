---------------------------- MODULE AuctionEvents ----------------------------
(* How the watchers of one live auction learn of its bids and its end: a bid  *)
(* request and the END job commit first and publish in a later call; Redis   *)
(* keeps the order of the publications; the server broadcasts each one to    *)
(* the sockets in the room; and a socket enters the room in two steps, since *)
(* the join handler awaits a database read. Redis keeps nothing for a         *)
(* subscriber that is not there: what is published while the server's is     *)
(* reconnecting or the server is down is gone. A price is the number of bids  *)
(* committed so far: AuctionStore!EveryRaiseMeetsIncrement makes it rise with *)
(* every bid.                                                                *)
EXTENDS Naturals, Sequences, Functions, FiniteSets

CONSTANTS
  Bidders,      \* bid requests, one each
  Sockets,      \* connections of clients that watch the auction
  MaxMessages,  \* bound: join and leave messages a client sends
  MaxFaults,    \* bound: publications and join lookups that fail
  MaxDrops,     \* bound: sockets that break
  MaxOutages    \* bound: losses of the subscription, and crashes of the server

ASSUME EventBounds ==
  /\ IsFiniteSet(Bidders)
  /\ MaxMessages \in Nat /\ MaxFaults \in Nat /\ MaxDrops \in Nat /\ MaxOutages \in Nat

VARIABLES
  price, status,  \* the committed row
  bid,            \* bid[b]: how far the request of b has come
  ending,         \* how far the END job has come
  server,         \* whether the server is up and its subscriber is subscribed
  channel,        \* published and not yet received by the server
  lost,           \* history: the events that no server will receive
  room,           \* the sockets in the auction's room
  lookups,        \* lookups[s]: join handlers of s that await the database
  inbox,          \* inbox[s]: messages from the client, not yet handled
  wire,           \* wire[s]: messages to the client, not yet received
  client,         \* client[s]: what the client has asked for and knows
  spent           \* the bounded resources of the environment already used

row     == <<price, status>>
redis   == <<server, channel, lost>>
sockets == <<room, lookups, inbox, wire, client>>
vars    == <<row, bid, ending, redis, sockets, spent>>

Prices == 0 .. Cardinality(Bidders)
View   == [price: Prices, status: {"LIVE", "ENDED"}]
Event  == [event: {"auction:bid", "auction:ended"}, price: Prices]
Answer == [event: {"auction:joined", "auction:left", "auction:error"}]
Bid    == [stage: {"idle", "publish", "created", "failed"}, price: Prices]
(* asked: the last message sent; waiting: those not yet answered; patient:   *)
(* it has never sent while one was waiting; inside: what the answers said;   *)
(* view: what the client shows, once it has fetched.                         *)
Client == [asked: {"join", "leave"}, waiting: 0 .. MaxMessages, sent: 0 .. MaxMessages,
           patient: BOOLEAN, inside: BOOLEAN, fetched: BOOLEAN, view: View]

Ended == status = "ENDED"
Blank == [price |-> 0, status |-> "LIVE"]
Newcomer(sent) == [asked |-> "leave", waiting |-> 0, sent |-> sent,
                   patient |-> TRUE, inside |-> FALSE, fetched |-> FALSE, view |-> Blank]

Init ==
  /\ price = 0 /\ status = "LIVE"
  /\ bid = [b \in Bidders |-> [stage |-> "idle", price |-> 0]]
  /\ ending = "idle"
  /\ server = "up" /\ channel = <<>> /\ lost = {}
  /\ room = {}
  /\ lookups = [s \in Sockets |-> 0]
  /\ inbox = [s \in Sockets |-> <<>>]
  /\ wire = [s \in Sockets |-> <<>>]
  /\ client = [s \in Sockets |-> Newcomer(0)]
  /\ spent = [faults |-> 0, drops |-> 0, outages |-> 0]

Spend(what, bound) == spent[what] < bound /\ spent' = [spent EXCEPT ![what] = @ + 1]
BidEvent(p)        == [event |-> "auction:bid", price |-> p]
EndedEvent         == [event |-> "auction:ended", price |-> price]
Emit(s, message)   == wire' = [wire EXCEPT ![s] = Append(@, message)]
------------------------------------------------------------------------------
(* postBidService: placeBid commits, then the event is published, then the    *)
(* request is answered. A publication that fails makes the answer a 500.     *)
FaultyPlaceBid(b) ==                         \* also after the end
  /\ bid[b].stage = "idle" /\ server # "down"
  /\ price' = price + 1
  /\ bid' = [bid EXCEPT ![b] = [stage |-> "publish", price |-> price + 1]]
  /\ UNCHANGED <<status, ending, redis, sockets, spent>>
PlaceBid(b) ==
  /\ bid[b].stage = "idle" /\ server # "down" /\ ~Ended
  /\ price' = price + 1
  /\ bid' = [bid EXCEPT ![b] = [stage |-> "publish", price |-> price + 1]]
  /\ UNCHANGED <<status, ending, redis, sockets, spent>>

(* publishSocketEvent: PUBLISH reaches whoever is subscribed.                *)
Publish(event) ==
  /\ channel' = IF server = "up" THEN Append(channel, event) ELSE channel
  /\ lost' = IF server = "up" THEN lost ELSE lost \cup {event}
  /\ UNCHANGED server

PublishBid(b) ==
  /\ bid[b].stage = "publish"
  /\ Publish(BidEvent(bid[b].price))
  /\ bid' = [bid EXCEPT ![b].stage = "created"]
  /\ UNCHANGED <<row, ending, sockets, spent>>

PublishFails(b) ==
  /\ bid[b].stage = "publish"
  /\ Spend("faults", MaxFaults)
  /\ bid' = [bid EXCEPT ![b].stage = "failed"]
  /\ lost' = lost \cup {BidEvent(bid[b].price)}
  /\ UNCHANGED <<row, ending, server, channel, sockets>>

(* The END job of the worker; what can go wrong there is in AuctionLifecycle. *)
EndAuction ==
  /\ ending = "idle"
  /\ status' = "ENDED" /\ ending' = "publish"
  /\ UNCHANGED <<price, bid, redis, sockets, spent>>

PublishEnd ==
  /\ ending = "publish"
  /\ Publish(EndedEvent)
  /\ ending' = "done"
  /\ UNCHANGED <<row, bid, sockets, spent>>

(* initializeSocketInfrastructure, broadcastSocketEvent. *)
FaultyBroadcast ==                           \* forgets a case of the switch
  /\ channel # <<>>
  /\ channel' = Tail(channel)
  /\ wire' = [s \in Sockets |->
       IF s \in room /\ Head(channel).event = "auction:bid"
       THEN Append(wire[s], Head(channel)) ELSE wire[s]]
  /\ UNCHANGED <<row, bid, ending, server, lost, room, lookups, inbox, client, spent>>
Broadcast ==
  /\ channel # <<>>
  /\ channel' = Tail(channel)
  /\ wire' = [s \in Sockets |->
       IF s \in room THEN Append(wire[s], Head(channel)) ELSE wire[s]]
  /\ UNCHANGED <<row, bid, ending, server, lost, room, lookups, inbox, client, spent>>

------------------------------------------------------------------------------
(* registerAuctionSocketHandlers. The handlers of one socket start in the     *)
(* order of its messages, and join goes on when the lookup returns.          *)
FaultyHandleJoin(s) ==                       \* answers before it has joined
  /\ inbox[s] # <<>> /\ Head(inbox[s]) = "join"
  /\ inbox' = [inbox EXCEPT ![s] = Tail(@)]
  /\ lookups' = [lookups EXCEPT ![s] = @ + 1]
  /\ Emit(s, [event |-> "auction:joined"])
  /\ UNCHANGED <<row, bid, ending, redis, room, client, spent>>
HandleJoin(s) ==
  /\ inbox[s] # <<>> /\ Head(inbox[s]) = "join"
  /\ inbox' = [inbox EXCEPT ![s] = Tail(@)]
  /\ lookups' = [lookups EXCEPT ![s] = @ + 1]
  /\ UNCHANGED <<row, bid, ending, redis, room, wire, client, spent>>

JoinRoom(s) ==
  /\ lookups[s] > 0
  /\ lookups' = [lookups EXCEPT ![s] = @ - 1]
  /\ room' = room \cup {s}
  /\ Emit(s, [event |-> "auction:joined"])
  /\ UNCHANGED <<row, bid, ending, redis, inbox, client, spent>>

LookupFails(s) ==
  /\ lookups[s] > 0
  /\ Spend("faults", MaxFaults)
  /\ lookups' = [lookups EXCEPT ![s] = @ - 1]
  /\ Emit(s, [event |-> "auction:error"])
  /\ UNCHANGED <<row, bid, ending, redis, room, inbox, client>>

HandleLeave(s) ==
  /\ inbox[s] # <<>> /\ Head(inbox[s]) = "leave"
  /\ inbox' = [inbox EXCEPT ![s] = Tail(@)]
  /\ room' = room \ {s}
  /\ Emit(s, [event |-> "auction:left"])
  /\ UNCHANGED <<row, bid, ending, redis, lookups, client, spent>>

(* The connection breaks: Socket.IO takes the socket out of its rooms, a join *)
(* that still awaits comes to nothing, and the client starts again.          *)
Disconnect(s) ==
  /\ Spend("drops", MaxDrops) /\ server # "down"
  /\ room' = room \ {s}
  /\ lookups' = [lookups EXCEPT ![s] = 0]
  /\ inbox' = [inbox EXCEPT ![s] = <<>>]
  /\ wire' = [wire EXCEPT ![s] = <<>>]
  /\ client' = [client EXCEPT ![s] = Newcomer(@.sent)]
  /\ UNCHANGED <<row, bid, ending, redis>>

(* The subscriber's connection breaks, with what Redis had sent on it; the    *)
(* client library reconnects and subscribes again.                           *)
LoseSubscription ==
  /\ server = "up"
  /\ Spend("outages", MaxOutages)
  /\ server' = "unsubscribed"
  /\ channel' = <<>>
  /\ lost' = lost \cup Range(channel)
  /\ UNCHANGED <<row, bid, ending, sockets>>

(* The server dies with its sockets, and with the requests that have          *)
(* committed a bid and not published it.                                     *)
ServerCrash ==
  /\ server # "down"
  /\ Spend("outages", MaxOutages)
  /\ server' = "down"
  /\ channel' = <<>>
  /\ lost' = lost \cup Range(channel)
                  \cup {BidEvent(bid[b].price) : b \in {c \in Bidders : bid[c].stage = "publish"}}
  /\ bid' = [b \in Bidders |-> IF bid[b].stage = "publish" THEN [bid[b] EXCEPT !.stage = "failed"]
                               ELSE bid[b]]
  /\ room' = {}
  /\ lookups' = [s \in Sockets |-> 0]
  /\ inbox' = [s \in Sockets |-> <<>>]
  /\ wire' = [s \in Sockets |-> <<>>]
  /\ client' = [s \in Sockets |-> Newcomer(client[s].sent)]
  /\ UNCHANGED <<row, ending>>

(* initializeSocketEventSubscriber: the server subscribes before it listens.  *)
Subscribe ==
  /\ server # "up"
  /\ server' = "up"
  /\ UNCHANGED <<row, bid, ending, channel, lost, sockets, spent>>

------------------------------------------------------------------------------
(* The client follows docs/realtime-architecture.md: events update what it    *)
(* shows, and once it is in the room it fetches the state from the REST API. *)
Ask(s, message) ==
  /\ server # "down"
  /\ client[s].sent < MaxMessages
  /\ client[s].asked # message
  /\ client' = [client EXCEPT ![s].asked = message, ![s].waiting = @ + 1, ![s].sent = @ + 1,
                              ![s].patient = @ /\ client[s].waiting = 0]
  /\ inbox' = [inbox EXCEPT ![s] = Append(@, message)]
  /\ UNCHANGED <<row, bid, ending, redis, room, lookups, wire, spent>>

Newer(p, q) == IF p > q THEN p ELSE q
Learned(view, event) ==
  IF event.event = "auction:ended" THEN [price |-> Newer(view.price, event.price), status |-> "ENDED"]
  ELSE [view EXCEPT !.price = Newer(@, event.price)]

Understood(me, message) ==
  CASE message.event = "auction:joined" -> [me EXCEPT !.inside = TRUE, !.waiting = @ - 1]
    [] message.event = "auction:left"   -> [me EXCEPT !.inside = FALSE, !.waiting = @ - 1,
                                                      !.fetched = FALSE]
    [] message.event = "auction:error"  -> [me EXCEPT !.waiting = @ - 1,
                                                      !.asked = IF me.inside THEN "join" ELSE "leave"]
    [] OTHER                            -> [me EXCEPT !.view = Learned(@, message)]

Receive(s) ==
  /\ wire[s] # <<>>
  /\ client' = [client EXCEPT ![s] = Understood(@, Head(wire[s]))]
  /\ wire' = [wire EXCEPT ![s] = Tail(@)]
  /\ UNCHANGED <<row, bid, ending, redis, room, lookups, inbox, spent>>

Fetch(s) ==
  /\ client[s].inside /\ ~client[s].fetched
  /\ client' = [client EXCEPT ![s].fetched = TRUE,
                              ![s].view = [price |-> price, status |-> status]]
  /\ UNCHANGED <<row, bid, ending, redis, room, lookups, inbox, wire, spent>>

------------------------------------------------------------------------------
Next ==
  \/ EndAuction \/ PublishEnd \/ Broadcast
  \/ LoseSubscription \/ ServerCrash \/ Subscribe
  \/ \E b \in Bidders : PlaceBid(b) \/ PublishBid(b) \/ PublishFails(b)
  \/ \E s \in Sockets :
       \/ HandleJoin(s) \/ JoinRoom(s) \/ LookupFails(s) \/ HandleLeave(s) \/ Disconnect(s)
       \/ Ask(s, "join") \/ Ask(s, "leave") \/ Receive(s) \/ Fetch(s)

Spec == Init /\ [][Next]_vars
------------------------------------------------------------------------------
(* Every variable has its type. *)
TypeOK ==
  /\ price \in Prices /\ status \in {"LIVE", "ENDED"}
  /\ bid \in [Bidders -> Bid]
  /\ ending \in {"idle", "publish", "done"}
  /\ server \in {"up", "unsubscribed", "down"}
  /\ channel \in Seq(Event) /\ lost \subseteq Event
  /\ room \subseteq Sockets
  /\ lookups \in [Sockets -> 0 .. MaxMessages]
  /\ inbox \in [Sockets -> Seq({"join", "leave"})]
  /\ wire \in [Sockets -> Seq(Event \cup Answer)]
  /\ client \in [Sockets -> Client]
  /\ spent \in [{"faults", "drops", "outages"} -> Nat]

OnTheWay == Range(channel) \cup UNION {Range(wire[s]) \cap Event : s \in Sockets}

(* postBidService, auction.worker.ts: what is published is committed, and the *)
(* result of the auction that a watcher is told is the one that stands.      *)
EventsAreCommitted ==
  \A e \in OnTheWay :
    /\ e.event = "auction:bid" => e.price \in 1 .. price
    /\ e.event = "auction:ended" => Ended /\ e.price = price

(* registerAuctionSocketHandlers: joins and leaves may overtake each other,   *)
(* but when the answers have arrived, the last one told the client whether   *)
(* it is in the room.                                                        *)
Answered(s) == inbox[s] = <<>> /\ lookups[s] = 0 /\ wire[s] = <<>>
AnswersMatchRoom ==
  \A s \in Sockets : Answered(s) => (client[s].inside <=> s \in room)

(* postBidService, broadcastSocketEvent, auction:join: a client that fetches  *)
(* after it was told that it is in the room misses nothing that is published: *)
(* when no message is under way it shows the committed price, unless the      *)
(* event of that very price was lost, and the committed status, unless the    *)
(* event of the end was. It does not matter in which order the events came,   *)
(* nor what was lost before, nor that the bidder was told of an error.       *)
Quiet ==
  ending # "publish" /\ channel = <<>> /\ \A b \in Bidders : bid[b].stage # "publish"
WatchersAreUpToDate ==
  \A s \in Sockets :
    Quiet /\ Answered(s) /\ client[s].inside /\ client[s].fetched =>
      /\ client[s].view.price = price \/ BidEvent(price) \in lost
      /\ client[s].view.status = status \/ EndedEvent \in lost

(* docs/socket-architecture.md: the server joins the socket to the room on    *)
(* auction:join and removes it on auction:leave. A client that waits for each *)
(* answer is where it last asked to be. (For one that does not wait, a leave  *)
(* overtakes a join that still awaits the database.)                         *)
RoomFollowsRequests ==
  \A s \in Sockets :
    Answered(s) /\ client[s].patient => (client[s].asked = "join" <=> s \in room)
==============================================================================
