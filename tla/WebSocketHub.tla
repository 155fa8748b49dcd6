---------------------------- MODULE WebSocketHub ----------------------------
(***************************************************************************)
(* The live feed of the central server (src/server/main.go): the broadcast *)
(* goroutine, one handleWebSocket goroutine per dashboard, and the map of  *)
(* clients between them under clientsMutex.                                *)
(*                                                                         *)
(* The tail of handleEvents is here too, AddEvent and the channel send, as *)
(* the source of events.  A write to a dashboard takes time: it begins,    *)
(* and it ends when the socket has room or the peer is gone.  No write has *)
(* a deadline.                                                             *)
(***************************************************************************)
EXTENDS Naturals, Sequences

CONSTANTS
    Events,      \* the events that are posted
    Clients,     \* the dashboards' connections
    ChanCap,     \* capacity of broadcastChan (100)
    RecentLimit, \* events sent to a new client (100)
    SockCap,     \* messages a peer that does not read can be sent
    None         \* no event, no client

ASSUME HubAssumption ==
    /\ ChanCap \in Nat \ {0} /\ RecentLimit \in Nat \ {0}
    /\ SockCap \in Nat \ {0}
    /\ None \notin Events \cup Clients

VARIABLES
    up,            \* the server process is alive
    epc,           \* the handler of each event: "new", "stored", "sent"
    store,         \* EventStore.events
    broadcastChan, \* the queue to broadcastEvents
    clients,       \* the keys of Server.clients
    hpc,           \* where the handleWebSocket goroutine of a client is
    recentEvents,  \* what it still has to send of its snapshot
    bpc,           \* where broadcastEvents is
    event,         \* the event it broadcasts
    todo,          \* the clients its range loop has yet to visit
    fresh,         \* clients added to the map since the loop began
    client,        \* the one it is visiting
    gone,          \* clients whose peer has left
    closed,        \* clients whose connection the server has closed
    raced,         \* clients to whom two goroutines have written at once
    unread         \* messages in the socket of each client, not yet read

(* Variables no step reads. *)
VARIABLES
    sentTo,        \* events written to each client, until it is raced
    snapFrom,      \* index in store of the oldest event of its snapshot
    broadcasted    \* events broadcastEvents is done with

evars == <<epc, store>>
hvars == <<hpc, recentEvents, snapFrom>>
bvars == <<bpc, event, todo, fresh, client, broadcasted>>
pvars == <<gone, raced, unread, sentTo>>
vars == <<up, evars, broadcastChan, clients, hvars, bvars, closed, pvars>>

Init ==
    /\ up = TRUE
    /\ epc = [e \in Events |-> "new"]
    /\ store = <<>>
    /\ broadcastChan = <<>>
    /\ clients = {}
    /\ hpc = [c \in Clients |-> "off"]
    /\ recentEvents = [c \in Clients |-> <<>>]
    /\ bpc = "receive"
    /\ event = None
    /\ todo = {}
    /\ fresh = {}
    /\ client = None
    /\ gone = {}
    /\ closed = {}
    /\ raced = {}
    /\ unread = [c \in Clients |-> 0]
    /\ sentTo = [c \in Clients |-> {}]
    /\ snapFrom = [c \in Clients |-> 0]
    /\ broadcasted = {}

-----------------------------------------------------------------------------
AddEventIfRoom(e) == \* variant: a store that is full takes nothing in
    /\ up
    /\ epc[e] = "new"
    /\ epc' = [epc EXCEPT ![e] = "stored"]
    /\ store' = IF Len(store) < RecentLimit THEN Append(store, e) ELSE store
    /\ UNCHANGED <<up, broadcastChan, clients, hvars, bvars, closed, pvars>>

(* The tail of handleEvents. *)
AddEvent(e) ==
    /\ up
    /\ epc[e] = "new"
    /\ epc' = [epc EXCEPT ![e] = "stored"]
    /\ store' = Append(store, e)
    /\ UNCHANGED <<up, broadcastChan, clients, hvars, bvars, closed, pvars>>

SendUnbounded(e) == \* variant: a channel without a limit
    /\ up
    /\ epc[e] = "stored"
    /\ epc' = [epc EXCEPT ![e] = "sent"]
    /\ broadcastChan' = Append(broadcastChan, e)
    /\ UNCHANGED <<up, store, clients, hvars, bvars, closed, pvars>>

Send(e) ==
    /\ up
    /\ epc[e] = "stored"
    /\ Len(broadcastChan) < ChanCap
    /\ epc' = [epc EXCEPT ![e] = "sent"]
    /\ broadcastChan' = Append(broadcastChan, e)
    /\ UNCHANGED <<up, store, clients, hvars, bvars, closed, pvars>>

-----------------------------------------------------------------------------
(* clientsMutex: the read lock is held by the range loop of broadcastEvents
   and by nobody else; the write lock only around one statement. *)
ReadLocked == bpc \in {"range", "write"}

GetRecentEvents(n) ==
    SubSeq(store, IF Len(store) > n THEN Len(store) - n + 1 ELSE 1, Len(store))

HGoto(c, from, to) ==
    /\ up
    /\ hpc[c] = from
    /\ hpc' = [hpc EXCEPT ![c] = to]

(* Upgrade succeeds; an upgrade that fails leaves nothing behind. *)
Connect(c) ==
    /\ HGoto(c, "off", "connected")
    /\ UNCHANGED <<up, evars, broadcastChan, clients, recentEvents, snapFrom,
                   bvars, closed, pvars>>

Register(c) ==
    /\ ~ReadLocked
    /\ HGoto(c, "connected", "registered")
    /\ clients' = clients \cup {c}
    /\ fresh' = fresh \cup {c}
    /\ UNCHANGED <<up, evars, broadcastChan, recentEvents, snapFrom, bpc,
                   event, todo, client, broadcasted, closed, pvars>>

Snapshot(c) ==
    /\ HGoto(c, "registered", "greeting")
    /\ recentEvents' = [recentEvents EXCEPT ![c] = GetRecentEvents(RecentLimit)]
    /\ snapFrom' = [snapFrom EXCEPT ![c] =
                        Len(store) - Len(recentEvents'[c]) + 1]
    /\ UNCHANGED <<up, evars, broadcastChan, clients, bvars, closed, pvars>>

(* gorilla/websocket supports one writer at a time.  Two that overlap share
   the connection's writer, frame header and buffer without a lock: from then
   on a write to that connection may fail, panic, or arrive as something the
   peer cannot read. *)
Spoiled(writers, c) == raced' = IF c \in writers THEN raced \cup {c} ELSE raced

(* WriteJSON ends well when the message fits in the socket, and with an
   error when the peer is gone (which the first writes may not notice), when
   the server has closed the connection, or for want of a writer of its own. *)
Writable(c) == c \notin closed /\ unread[c] < SockCap
Broken(c)   == c \in gone \cup closed
Fails(c)    == Broken(c) \/ c \in raced

Written(c, e) ==
    /\ unread' = [unread EXCEPT ![c] = @ + 1]
    /\ sentTo' = [sentTo EXCEPT ![c] = IF c \in raced THEN @ ELSE @ \cup {e}]
    /\ UNCHANGED <<gone, raced>>

(* Where the handler of a client, or the broadcaster, is inside WriteJSON. *)
BeingGreeted     == {c \in Clients : hpc[c] = "writing"}
BeingBroadcastTo == {c \in Clients : bpc = "write" /\ client = c}

(* The loop over recentEvents holds no lock. *)
GreetBegin(c) ==
    /\ recentEvents[c] # <<>>
    /\ HGoto(c, "greeting", "writing")
    /\ Spoiled(BeingBroadcastTo, c)
    /\ UNCHANGED <<up, evars, broadcastChan, clients, recentEvents, snapFrom,
                   bvars, closed, gone, unread, sentTo>>

GreetWritten(c) ==
    /\ Writable(c)
    /\ HGoto(c, "writing", "greeting")
    /\ Written(c, Head(recentEvents[c]))
    /\ recentEvents' = [recentEvents EXCEPT ![c] = Tail(@)]
    /\ UNCHANGED <<up, evars, broadcastChan, clients, snapFrom, bvars, closed>>

GreetErrorContinues(c) == \* variant: the loop goes on after an error
    /\ Fails(c)
    /\ HGoto(c, "writing", "greeting")
    /\ UNCHANGED <<up, evars, broadcastChan, clients, recentEvents, snapFrom,
                   bvars, closed, pvars>>

(* An error ends the loop, not the handler: the client stays in the map, and
   the rest of its snapshot is never sent. *)
GreetError(c) ==
    /\ Fails(c)
    /\ HGoto(c, "writing", "reading")
    /\ recentEvents' = [recentEvents EXCEPT ![c] = <<>>]
    /\ UNCHANGED <<up, evars, broadcastChan, clients, snapFrom, bvars, closed,
                   pvars>>

GreetDone(c) ==
    /\ recentEvents[c] = <<>>
    /\ HGoto(c, "greeting", "reading")
    /\ UNCHANGED <<up, evars, broadcastChan, clients, recentEvents, snapFrom,
                   bvars, closed, pvars>>

(* ReadMessage fails; the deferred function takes the client off the map and
   closes the connection. *)
ReadError(c) ==
    /\ Broken(c)
    /\ HGoto(c, "reading", "leaving")
    /\ UNCHANGED <<up, evars, broadcastChan, clients, recentEvents, snapFrom,
                   bvars, closed, pvars>>

UnregisterUnlocked(c) == \* variant: delete without clientsMutex
    /\ HGoto(c, "leaving", "done")
    /\ clients' = clients \ {c}
    /\ closed' = closed \cup {c}
    /\ UNCHANGED <<up, evars, broadcastChan, recentEvents, snapFrom, bvars,
                   pvars>>

UnregisterCloseOnly(c) == \* variant: the map keeps the closed client
    /\ ~ReadLocked
    /\ HGoto(c, "leaving", "done")
    /\ closed' = closed \cup {c}
    /\ UNCHANGED <<up, evars, broadcastChan, clients, recentEvents, snapFrom,
                   bvars, pvars>>

Unregister(c) ==
    /\ ~ReadLocked
    /\ HGoto(c, "leaving", "done")
    /\ clients' = clients \ {c}
    /\ closed' = closed \cup {c}
    /\ UNCHANGED <<up, evars, broadcastChan, recentEvents, snapFrom, bvars,
                   pvars>>

(* A writer that finds traces of another may panic, the other being still at
   work or done.  net/http recovers the panic of a handler, whose deferred
   clean-up is not registered yet, so the client stays in the map.  Nobody
   recovers the panic of the broadcaster: the server dies. *)
HandlerPanic(c) ==
    /\ c \in raced
    /\ HGoto(c, "writing", "panicked")
    /\ recentEvents' = [recentEvents EXCEPT ![c] = <<>>]
    /\ UNCHANGED <<up, evars, broadcastChan, clients, snapFrom, bvars, closed,
                   pvars>>

BroadcasterPanic ==
    /\ up
    /\ BeingBroadcastTo \cap raced # {}
    /\ up' = FALSE
    /\ UNCHANGED <<evars, broadcastChan, clients, hvars, bvars, closed, pvars>>

Handler(c) ==
    \/ Register(c) \/ Snapshot(c)
    \/ GreetBegin(c) \/ GreetWritten(c) \/ GreetError(c) \/ GreetDone(c)
    \/ ReadError(c) \/ Unregister(c)

-----------------------------------------------------------------------------
(* broadcastEvents: take an event, lock, visit every client, unlock. *)
BGoto(from, to) == up /\ bpc = from /\ bpc' = to

BReceive ==
    /\ broadcastChan # <<>>
    /\ BGoto("receive", "lock")
    /\ event' = Head(broadcastChan)
    /\ broadcastChan' = Tail(broadcastChan)
    /\ UNCHANGED <<up, evars, clients, hvars, todo, fresh, client,
                   broadcasted, closed, pvars>>

BLockGreeted == \* variant: clients that are still greeted are passed over
    /\ BGoto("lock", "range")
    /\ todo' = {c \in clients : hpc[c] = "reading"}
    /\ fresh' = {}
    /\ UNCHANGED <<up, evars, broadcastChan, clients, hvars, event, client,
                   broadcasted, closed, pvars>>

BLock ==
    /\ BGoto("lock", "range")
    /\ todo' = clients
    /\ fresh' = {}
    /\ UNCHANGED <<up, evars, broadcastChan, clients, hvars, event, client,
                   broadcasted, closed, pvars>>

BWrite(c) ==
    /\ c \in todo
    /\ BGoto("range", "write")
    /\ client' = c
    /\ todo' = todo \ {c}
    /\ Spoiled(BeingGreeted, c)
    /\ UNCHANGED <<up, evars, broadcastChan, clients, hvars, event, fresh,
                   broadcasted, closed, gone, unread, sentTo>>

BWritten ==
    /\ BGoto("write", "range")
    /\ Writable(client)
    /\ Written(client, event)
    /\ client' = None
    /\ UNCHANGED <<up, evars, broadcastChan, clients, hvars, event, todo,
                   fresh, broadcasted, closed>>

BErrorReturns == \* variant: a failed write ends the broadcaster
    /\ BGoto("write", "returned")
    /\ Fails(client)
    /\ closed' = closed \cup {client}
    /\ UNCHANGED <<up, evars, broadcastChan, clients, hvars, event, todo,
                   fresh, client, broadcasted, pvars>>

(* On an error the client is closed and the read lock given up... *)
BError ==
    /\ BGoto("write", "drop")
    /\ Fails(client)
    /\ closed' = closed \cup {client}
    /\ UNCHANGED <<up, evars, broadcastChan, clients, hvars, event, todo,
                   fresh, client, broadcasted, pvars>>

(* ...to delete it from the map under the write lock. *)
BDelete ==
    /\ BGoto("drop", "relock")
    /\ clients' = clients \ {client}
    /\ client' = None
    /\ UNCHANGED <<up, evars, broadcastChan, hvars, event, todo, fresh,
                   broadcasted, closed, pvars>>

(* The loop goes on over a map others may have changed: a Go range loop never
   visits an entry deleted before it is reached, and may or may not visit one
   added since it began. *)
BRelock ==
    \E seen \in SUBSET (fresh \cap clients) :
        /\ BGoto("relock", "range")
        /\ todo' = (todo \cap clients) \cup seen
        /\ fresh' = fresh \ seen
        /\ UNCHANGED <<up, evars, broadcastChan, clients, hvars, event,
                       client, broadcasted, closed, pvars>>

BDone ==
    /\ todo = {}
    /\ BGoto("range", "receive")
    /\ broadcasted' = broadcasted \cup {event}
    /\ event' = None
    /\ UNCHANGED <<up, evars, broadcastChan, clients, hvars, todo, fresh,
                   client, closed, pvars>>

Broadcaster ==
    \/ BReceive \/ BLock \/ BWritten \/ BError \/ BDelete \/ BRelock \/ BDone
    \/ \E c \in Clients : BWrite(c)

-----------------------------------------------------------------------------
(* The dashboards: each reads its socket, or does not, or leaves.  What they
   do when the server is dead concerns nobody. *)
PeerReads(c) ==
    /\ up
    /\ c \notin gone
    /\ unread[c] > 0
    /\ unread' = [unread EXCEPT ![c] = @ - 1]
    /\ UNCHANGED <<up, evars, broadcastChan, clients, hvars, bvars, closed,
                   gone, raced, sentTo>>

PeerLeaves(c) ==
    /\ up
    /\ hpc[c] # "off"
    /\ c \notin gone
    /\ gone' = gone \cup {c}
    /\ UNCHANGED <<up, evars, broadcastChan, clients, hvars, bvars, closed,
                   raced, unread, sentTo>>

Next ==
    \/ \E e \in Events : AddEvent(e) \/ Send(e)
    \/ \E c \in Clients :
            \/ Connect(c) \/ Handler(c) \/ HandlerPanic(c)
            \/ PeerReads(c) \/ PeerLeaves(c)
    \/ Broadcaster
    \/ BroadcasterPanic

Spec == Init /\ [][Next]_vars

(* The Go scheduler runs every runnable goroutine, and a writer waiting for
   an RWMutex is not overtaken for ever by readers. *)
ServerFairness ==
    /\ \A e \in Events : WF_vars(AddEvent(e)) /\ WF_vars(Send(e))
    /\ \A c \in Clients :
          WF_vars(Handler(c)) /\ SF_vars(Register(c)) /\ SF_vars(Unregister(c))
    /\ WF_vars(Broadcaster)

(* Every dashboard keeps reading until it leaves. *)
PeerFairness == \A c \in Clients : WF_vars(PeerReads(c))

FairSpec  == Spec /\ ServerFairness
DrainSpec == FairSpec /\ PeerFairness

-----------------------------------------------------------------------------
HPC == {"off", "connected", "registered", "greeting", "writing", "reading",
        "leaving", "done", "panicked"}
BPC == {"receive", "lock", "range", "write", "drop", "relock"}

(* Every variable keeps its type, the channel and the sockets their limits. *)
TypeOK ==
    /\ up \in BOOLEAN
    /\ epc \in [Events -> {"new", "stored", "sent"}]
    /\ store \in Seq(Events)
    /\ broadcastChan \in Seq(Events) /\ Len(broadcastChan) <= ChanCap
    /\ clients \in SUBSET Clients
    /\ hpc \in [Clients -> HPC]
    /\ recentEvents \in [Clients -> Seq(Events)]
    /\ bpc \in BPC
    /\ event \in Events \cup {None}
    /\ todo \in SUBSET Clients
    /\ fresh \in SUBSET Clients
    /\ client \in Clients \cup {None}
    /\ gone \in SUBSET Clients
    /\ closed \in SUBSET Clients
    /\ raced \in SUBSET Clients
    /\ unread \in [Clients -> 0 .. SockCap]
    /\ sentTo \in [Clients -> SUBSET Events]
    /\ snapFrom \in [Clients -> Nat]
    /\ broadcasted \in SUBSET Events

(* A dashboard that is connected and was greeted has no hole in its feed: it
   was sent every event since the oldest of its snapshot that the broadcaster
   is done with, whatever came between its registration, its snapshot and the
   broadcasts of that moment.  Only two goroutines that wrote to its connection
   at once can have put one there. *)
NoGap ==
    \A c \in clients :
        (hpc[c] = "reading" /\ ~Fails(c)) =>
            \A i \in DOMAIN store :
                (i >= snapFrom[c] /\ store[i] \in broadcasted) =>
                    store[i] \in sentTo[c]

(* The map is never changed while the broadcaster ranges over it, which the
   Go runtime would answer by killing the process. *)
MapStableWhileRanged ==
    [][(ReadLocked /\ ReadLocked') => clients' = clients]_vars

(* The broadcaster writes only to clients in the map, and one it has dropped
   is never written to again: neither by the rest of the loop nor later. *)
WritesOnlyToMembers ==
    /\ bpc = "write" => client \in clients
    /\ bpc \in {"range", "write"} => todo \subseteq clients

(* A dashboard whose peer has left does not stay in the map for ever, unless
   the handler that would take it off panicked. *)
GoneClientIsRemoved ==
    \A c \in Clients :
        (c \in gone /\ c \in clients) ~>
            (c \notin clients \/ hpc[c] = "panicked" \/ ~up)

(* With dashboards that keep reading, every posted event passes the channel
   and every broadcast comes to its end. *)
EveryEventIsBroadcast ==
    \A e \in Events :
        epc[e] = "stored" ~> (e \in broadcasted \/ ~up)

(* ...and a dashboard that connects gets past its registration. *)
EveryClientIsGreeted ==
    \A c \in Clients :
        hpc[c] = "connected" ~>
            (hpc[c] \in {"reading", "leaving", "done", "panicked"} \/ ~up)

-----------------------------------------------------------------------------
(* A dashboard is part of the feed from its snapshot on, as long as its peer,
   the map and its handler know it, and until two goroutines write to it at
   once. *)
Follows(c) ==
    /\ hpc[c] \in {"greeting", "writing", "reading"}
    /\ c \in clients
    /\ ~Fails(c)

Stage(c) ==
    CASE Follows(c) /\ hpc[c] = "reading"              -> "following"
      [] Follows(c) /\ hpc[c] # "reading"              -> "greeted"
      [] hpc[c] \in {"off", "connected", "registered"} -> "out"
      [] OTHER                                         -> "left"

Stages == [c \in Clients |-> Stage(c)]
Starts == [c \in Clients |-> IF Follows(c) THEN snapFrom[c] ELSE 0]

AbstractFeed == INSTANCE Feed WITH
    log      <- store,
    finished <- broadcasted,
    stage    <- Stages,
    from     <- Starts,
    received <- sentTo

(* Handlers, broadcaster, map and lock together keep the promise of the feed:
   a dashboard gets nothing that was not posted, begins to follow only when it
   has caught up, a broadcast is over only when all that follow have its
   event, and who has left the feed does not come back into it. *)
FeedIsKept == AbstractFeed!Spec

-----------------------------------------------------------------------------
(* What the repository's documents say and the code does not do. *)

(* graduate_Q:171, "the WebSocket broadcast has a goroutine of its own and
   does not block the handling of requests": a handler gets rid of its event
   even if a dashboard does not read its socket. *)
BroadcastDoesNotBlockRequests ==
    \A e \in Events : epc[e] = "stored" ~> (epc[e] = "sent" \/ ~up)

(* graduate_Q:94, "sync.RWMutex protects shared data": no connection is
   written to by its handler and the broadcaster at once. *)
OneWriterPerConnection == BeingGreeted \cap BeingBroadcastTo = {}
=============================================================================
