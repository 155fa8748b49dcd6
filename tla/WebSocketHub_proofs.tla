------------------------ MODULE WebSocketHub_proofs -------------------------
(***************************************************************************)
(* What WebSocketHub guarantees for any events, any number of dashboards   *)
(* and any size of the channel, the snapshot and the sockets.              *)
(***************************************************************************)
EXTENDS WebSocketHub, TLAPS, SequenceTheorems

USE HubAssumption

InSeq(s) == {s[i] : i \in DOMAIN s}

(* The broadcaster is at work on an event, and that event and all before it
   have left their handlers. *)
Broadcasting ==
    /\ bpc # "receive" => event \in Events /\ epc[event] = "sent"
    /\ \A e \in broadcasted : epc[e] = "sent"
    /\ \A i \in DOMAIN broadcastChan : epc[broadcastChan[i]] = "sent"

(* Sent to the dashboard, or in what its handler has still to send. *)
Has(c, e) == e \in sentTo[c] \cup InSeq(recentEvents[c])

(* The range loop will still come to the dashboard, or is with it. *)
ComesTo(c) == c \in todo \/ (bpc = "write" /\ client = c)

InLoop == bpc \in {"range", "write", "drop", "relock"}

(* Of what is in the store since its snapshot, a dashboard has all that was
   broadcast, and has or will get the event of the loop. *)
HoleFree(c) ==
    \A i \in DOMAIN store : i >= snapFrom[c] =>
        /\ store[i] \in broadcasted => Has(c, store[i])
        /\ (InLoop /\ store[i] = event) => Has(c, event) \/ ComesTo(c)

NoHole == \A c \in Clients : Follows(c) => HoleFree(c)

(* A greeting ends when the snapshot has been sent, or with an error. *)
GreetedOrFailed ==
    \A c \in Clients :
        (hpc[c] = "reading" /\ ~Fails(c)) => recentEvents[c] = <<>>

(* A handler that writes has something to write. *)
WritesSomething ==
    \A c \in Clients : hpc[c] = "writing" => recentEvents[c] # <<>>

(* What is in the store has been taken in, and a handler sends from there. *)
Sources ==
    /\ \A e \in Events : epc[e] = "new" <=> e \notin InSeq(store)
    /\ \A c \in Clients : InSeq(recentEvents[c]) \subseteq InSeq(store)

(* The inductive invariant. *)
IInv ==
    /\ WritesSomething
    /\ TypeOK
    /\ WritesOnlyToMembers
    /\ bpc = "drop" => client \in closed
    /\ Broadcasting
    /\ GreetedOrFailed
    /\ NoHole
    /\ Sources

-----------------------------------------------------------------------------
LEMMA AppendEvent ==
    ASSUME NEW s \in Seq(Events), NEW e \in Events
    PROVE  /\ Append(s, e) \in Seq(Events)
           /\ Len(Append(s, e)) = Len(s) + 1
           /\ Len(s) \in Nat
           /\ DOMAIN s = 1 .. Len(s)
           /\ DOMAIN Append(s, e) = 1 .. Len(s) + 1
           /\ \A i \in 1 .. Len(s) : Append(s, e)[i] = s[i]
           /\ Append(s, e)[Len(s) + 1] = e
OBVIOUS

LEMMA TailEvent ==
    ASSUME NEW s \in Seq(Events), s # <<>>
    PROVE  /\ Tail(s) \in Seq(Events)
           /\ Len(Tail(s)) = Len(s) - 1
           /\ Len(s) \in Nat \ {0}
           /\ DOMAIN s = 1 .. Len(s)
           /\ DOMAIN Tail(s) = 1 .. Len(s) - 1
           /\ \A i \in 1 .. Len(s) - 1 : Tail(s)[i] = s[i + 1]
           /\ Head(s) = s[1]
           /\ Head(s) \in Events
OBVIOUS

LEMMA TailLoses ==
    ASSUME NEW s \in Seq(Events), s # <<>>
    PROVE  /\ InSeq(s) \subseteq InSeq(Tail(s)) \cup {Head(s)}
           /\ InSeq(Tail(s)) \subseteq InSeq(s)
<1>1. /\ DOMAIN s = 1 .. Len(s) /\ DOMAIN Tail(s) = 1 .. Len(s) - 1
      /\ Len(s) \in Nat \ {0} /\ Head(s) = s[1]
      /\ \A i \in 1 .. Len(s) - 1 : Tail(s)[i] = s[i + 1]
  BY TailEvent
<1>2. ASSUME NEW i \in DOMAIN s PROVE s[i] \in InSeq(Tail(s)) \cup {Head(s)}
  <2>1. CASE i = 1
    BY <1>1, <2>1
  <2>2. CASE i # 1
    <3>1. i - 1 \in DOMAIN Tail(s) /\ Tail(s)[i - 1] = s[i]
      BY <1>1, <2>2
    <3>. QED
      BY <3>1 DEF InSeq
  <2>. QED
    BY <2>1, <2>2
<1>3. ASSUME NEW i \in DOMAIN Tail(s) PROVE Tail(s)[i] \in InSeq(s)
  <2>1. i + 1 \in DOMAIN s /\ Tail(s)[i] = s[i + 1]
    BY <1>1
  <2>. QED
    BY <2>1 DEF InSeq
<1>. QED
  BY <1>2, <1>3 DEF InSeq

LEMMA AppendAdds ==
    ASSUME NEW s \in Seq(Events), NEW e \in Events
    PROVE  InSeq(Append(s, e)) = InSeq(s) \cup {e}
<1>1. /\ DOMAIN s = 1 .. Len(s) /\ DOMAIN Append(s, e) = 1 .. Len(s) + 1
      /\ Len(s) \in Nat /\ Append(s, e)[Len(s) + 1] = e
      /\ \A i \in 1 .. Len(s) : Append(s, e)[i] = s[i]
  BY AppendEvent
<1>2. \A i \in 1 .. Len(s) : Append(s, e)[i] \in InSeq(s)
  BY <1>1 DEF InSeq
<1>3. InSeq(Append(s, e)) \subseteq InSeq(s) \cup {e}
  BY <1>1, <1>2 DEF InSeq
<1>4. InSeq(s) \subseteq InSeq(Append(s, e))
  BY <1>1 DEF InSeq
<1>5. e \in InSeq(Append(s, e))
  BY <1>1 DEF InSeq
<1>. QED
  BY <1>3, <1>4, <1>5

(* The snapshot is the end of the store. *)
LEMMA SuffixHolds ==
    ASSUME NEW s \in Seq(Events), NEW m \in 1 .. Len(s) + 1
    PROVE  /\ SubSeq(s, m, Len(s)) \in Seq(Events)
           /\ Len(SubSeq(s, m, Len(s))) = Len(s) - m + 1
           /\ \A i \in m .. Len(s) : s[i] \in InSeq(SubSeq(s, m, Len(s)))
           /\ InSeq(SubSeq(s, m, Len(s))) \subseteq InSeq(s)
<1>1. Len(s) \in Nat /\ m \in Int /\ \A i \in m .. Len(s) : s[i] \in Events
  OBVIOUS
<1>2. /\ SubSeq(s, m, Len(s)) \in Seq(Events)
      /\ Len(SubSeq(s, m, Len(s))) = Len(s) - m + 1
      /\ \A i \in 1 .. Len(s) - m + 1 : SubSeq(s, m, Len(s))[i] = s[m + i - 1]
  BY <1>1, SubSeqProperties
<1>3. ASSUME NEW i \in m .. Len(s)
      PROVE  s[i] \in InSeq(SubSeq(s, m, Len(s)))
  <2>1. i - m + 1 \in 1 .. Len(s) - m + 1 /\ m + (i - m + 1) - 1 = i
    BY <1>1
  <2>2. DOMAIN SubSeq(s, m, Len(s)) = 1 .. Len(s) - m + 1
    BY <1>2
  <2>3. SubSeq(s, m, Len(s))[i - m + 1] = s[i]
    BY <1>2, <2>1
  <2>. QED
    BY <2>1, <2>2, <2>3 DEF InSeq
<1>4. ASSUME NEW j \in DOMAIN SubSeq(s, m, Len(s))
      PROVE  SubSeq(s, m, Len(s))[j] \in InSeq(s)
  <2>1. j \in 1 .. Len(s) - m + 1
    BY <1>2
  <2>2. m + j - 1 \in DOMAIN s
    BY <1>1, <2>1
  <2>. QED
    BY <1>2, <2>1, <2>2 DEF InSeq
<1>. QED
  BY <1>2, <1>3, <1>4 DEF InSeq

LEMMA RecentIsSuffix ==
    ASSUME store \in Seq(Events)
    PROVE  /\ GetRecentEvents(RecentLimit) \in Seq(Events)
           /\ Len(GetRecentEvents(RecentLimit)) \in 0 .. Len(store)
           /\ \A i \in DOMAIN store :
                 i >= Len(store) - Len(GetRecentEvents(RecentLimit)) + 1 =>
                     store[i] \in InSeq(GetRecentEvents(RecentLimit))
           /\ InSeq(GetRecentEvents(RecentLimit)) \subseteq InSeq(store)
<1>1. PICK m \in 1 .. Len(store) + 1 :
          m = IF Len(store) > RecentLimit THEN Len(store) - RecentLimit + 1 ELSE 1
  OBVIOUS
<1>2. GetRecentEvents(RecentLimit) = SubSeq(store, m, Len(store))
  BY <1>1 DEF GetRecentEvents
<1>3. Len(store) \in Nat /\ DOMAIN store = 1 .. Len(store)
  OBVIOUS
<1>4. \A i \in DOMAIN store : i >= m => i \in m .. Len(store)
  BY <1>3
<1>5. Len(store) - (Len(store) - m + 1) + 1 = m
      /\ Len(store) - m + 1 \in 0 .. Len(store)
  BY <1>3
<1>6. Len(GetRecentEvents(RecentLimit)) = Len(store) - m + 1
      /\ GetRecentEvents(RecentLimit) \in Seq(Events)
      /\ \A i \in m .. Len(store) : store[i] \in InSeq(GetRecentEvents(RecentLimit))
  BY <1>2, SuffixHolds
<1>7. InSeq(GetRecentEvents(RecentLimit)) \subseteq InSeq(store)
  BY <1>2, SuffixHolds
<1>8. \A i \in DOMAIN store :
          i >= Len(store) - Len(GetRecentEvents(RecentLimit)) + 1 =>
              store[i] \in InSeq(GetRecentEvents(RecentLimit))
  BY <1>4, <1>5, <1>6
<1>. QED
  BY <1>5, <1>6, <1>7, <1>8

-----------------------------------------------------------------------------
(* Types and limits, and the event and the client the broadcaster is at. *)
Shape ==
    /\ TypeOK
    /\ WritesSomething
    /\ WritesOnlyToMembers
    /\ bpc = "drop" => client \in closed
    /\ Broadcasting

LEMMA ShapeInit == Init => Shape
BY DEF Init, Shape, TypeOK, WritesOnlyToMembers, Broadcasting, HPC, BPC,
       WritesSomething

LEMMA ShapeStepEvents ==
    ASSUME Shape, NEW e \in Events, AddEvent(e) \/ Send(e)
    PROVE  Shape'
<1>. USE DEF Shape, TypeOK, HPC, BPC, WritesOnlyToMembers, Broadcasting, WritesSomething,
             hvars, bvars, pvars
<1>1. CASE AddEvent(e)
  <2>1. store' \in Seq(Events)
    BY <1>1, AppendEvent DEF AddEvent
  <2>2. epc' \in [Events -> {"new", "stored", "sent"}]
    BY <1>1 DEF AddEvent
  <2>3. \A x \in Events : epc[x] = "sent" => epc'[x] = "sent"
    BY <1>1 DEF AddEvent
  <2>4. \A i \in DOMAIN broadcastChan : broadcastChan[i] \in Events
    OBVIOUS
  <2>. QED
    BY <1>1, <2>1, <2>2, <2>3, <2>4 DEF AddEvent
<1>2. CASE Send(e)
  <2>1. broadcastChan' \in Seq(Events) /\ Len(broadcastChan') <= ChanCap
    BY <1>2, AppendEvent DEF Send
  <2>2. epc' \in [Events -> {"new", "stored", "sent"}] /\ epc'[e] = "sent"
    BY <1>2 DEF Send
  <2>3. \A x \in Events : epc[x] = "sent" => epc'[x] = "sent"
    BY <1>2 DEF Send
  <2>4. \A i \in DOMAIN broadcastChan' : epc'[broadcastChan'[i]] = "sent"
    <3>1. broadcastChan' = Append(broadcastChan, e)
      BY <1>2 DEF Send
    <3>2. ASSUME NEW i \in DOMAIN broadcastChan'
          PROVE  broadcastChan'[i] = e \/ (i \in DOMAIN broadcastChan
                                   /\ broadcastChan'[i] = broadcastChan[i])
      BY <3>1, AppendEvent
    <3>3. \A i \in DOMAIN broadcastChan : broadcastChan[i] \in Events
      OBVIOUS
    <3>. QED
      BY <2>2, <2>3, <3>2, <3>3
  <2>. QED
    BY <1>2, <2>1, <2>2, <2>3, <2>4 DEF Send
<1>. QED
  BY <1>1, <1>2

LEMMA ShapeStepHandler ==
    ASSUME Shape, NEW c \in Clients, Connect(c) \/ Handler(c) \/ HandlerPanic(c)
    PROVE  Shape'
<1>. USE DEF Shape, TypeOK, HPC, BPC, WritesOnlyToMembers, Broadcasting, WritesSomething,
             evars, hvars, bvars, pvars, HGoto
<1>1. CASE Connect(c)
  BY <1>1 DEF Connect
<1>2. CASE Register(c)
  BY <1>2 DEF Register, ReadLocked
<1>3. CASE Snapshot(c)
  <2>1. recentEvents' \in [Clients -> Seq(Events)]
        /\ snapFrom' \in [Clients -> Nat]
    BY <1>3, RecentIsSuffix DEF Snapshot
  <2>. QED
    BY <1>3, <2>1 DEF Snapshot
<1>4. CASE GreetBegin(c)
  BY <1>4 DEF GreetBegin, Spoiled
<1>5. CASE GreetWritten(c)
  <2>1. PICK s \in Seq(Events) : s = recentEvents[c]
    OBVIOUS
  <2>2. s # <<>> /\ Head(s) \in Events /\ Tail(s) \in Seq(Events)
    BY <1>5, <2>1, TailEvent DEF GreetWritten
  <2>3. recentEvents' = [recentEvents EXCEPT ![c] = Tail(s)]
        /\ sentTo' = [sentTo EXCEPT ![c] =
                          IF c \in raced THEN @ ELSE @ \cup {Head(s)}]
    BY <1>5, <2>1 DEF GreetWritten, Written
  <2>4. recentEvents' \in [Clients -> Seq(Events)]
        /\ sentTo' \in [Clients -> SUBSET Events]
    BY <2>2, <2>3
  <2>5. unread' \in [Clients -> 0 .. SockCap] /\ hpc' \in [Clients -> HPC]
    BY <1>5 DEF GreetWritten, Written, Writable
  <2>. QED
    BY <1>5, <2>4, <2>5 DEF GreetWritten, Written
<1>6. CASE GreetError(c)
  BY <1>6 DEF GreetError
<1>7. CASE GreetDone(c)
  BY <1>7 DEF GreetDone
<1>8. CASE ReadError(c)
  BY <1>8 DEF ReadError
<1>9. CASE Unregister(c)
  BY <1>9 DEF Unregister, ReadLocked
<1>10. CASE HandlerPanic(c)
  BY <1>10 DEF HandlerPanic
<1>. QED
  BY <1>1, <1>2, <1>3, <1>4, <1>5, <1>6, <1>7, <1>8, <1>9, <1>10 DEF Handler

LEMMA ShapeStepPeer ==
    ASSUME Shape, NEW c \in Clients, PeerReads(c) \/ PeerLeaves(c)
    PROVE  Shape'
<1>. USE DEF Shape, TypeOK, HPC, BPC, WritesOnlyToMembers, Broadcasting, WritesSomething,
             evars, hvars, bvars, pvars
<1>1. CASE PeerReads(c)
  BY <1>1 DEF PeerReads
<1>2. CASE PeerLeaves(c)
  BY <1>2 DEF PeerLeaves
<1>. QED
  BY <1>1, <1>2

LEMMA ShapeStepBroadcaster ==
    ASSUME Shape, Broadcaster \/ BroadcasterPanic
    PROVE  Shape'
<1>. USE DEF Shape, TypeOK, HPC, BPC, WritesOnlyToMembers, Broadcasting, WritesSomething,
             evars, hvars, bvars, pvars, BGoto
<1>1. CASE BReceive
  <2>1. /\ broadcastChan' \in Seq(Events) /\ Len(broadcastChan') <= ChanCap
        /\ event' \in Events /\ epc[event'] = "sent"
        /\ \A i \in DOMAIN broadcastChan' : epc[broadcastChan'[i]] = "sent"
    BY <1>1, TailEvent DEF BReceive
  <2>. QED
    BY <1>1, <2>1 DEF BReceive
<1>2. CASE BLock
  BY <1>2 DEF BLock
<1>3. ASSUME NEW c \in Clients, BWrite(c)
      PROVE  Shape'
  BY <1>3 DEF BWrite, Spoiled
<1>4. CASE BWritten
  <2>1. client \in Clients /\ event \in Events
    BY <1>4 DEF BWritten
  <2>2. unread' \in [Clients -> 0 .. SockCap]
        /\ sentTo' \in [Clients -> SUBSET Events]
    BY <1>4, <2>1 DEF BWritten, Written, Writable
  <2>. QED
    BY <1>4, <2>1, <2>2 DEF BWritten, Written
<1>5. CASE BError
  BY <1>5 DEF BError
<1>6. CASE BDelete
  BY <1>6 DEF BDelete
<1>7. CASE BRelock
  BY <1>7 DEF BRelock
<1>8. CASE BDone
  BY <1>8 DEF BDone
<1>9. CASE BroadcasterPanic
  BY <1>9 DEF BroadcasterPanic
<1>. QED
  BY <1>1, <1>2, <1>3, <1>4, <1>5, <1>6, <1>7, <1>8, <1>9 DEF Broadcaster

LEMMA ShapeStep == Shape /\ [Next]_vars => Shape'
<1>1. ASSUME Shape, UNCHANGED vars PROVE Shape'
  BY <1>1 DEF vars, evars, hvars, bvars, pvars, Shape, TypeOK,
              WritesOnlyToMembers, Broadcasting, WritesSomething
<1>. QED
  BY <1>1, ShapeStepEvents, ShapeStepHandler, ShapeStepPeer,
     ShapeStepBroadcaster DEF Next

-----------------------------------------------------------------------------
(* What a dashboard that follows the feed has never shrinks, and whoever
   followed it before a step still has what it had. *)
LEMMA GreetedStep == IInv /\ [Next]_vars => GreetedOrFailed'
<1>. SUFFICES ASSUME IInv, [Next]_vars
             PROVE  GreetedOrFailed'
  OBVIOUS
<1>. USE DEF GreetedOrFailed, Fails, Broken, IInv, TypeOK, HGoto, BGoto,
             evars, hvars, bvars, pvars
<1>1. ASSUME UNCHANGED <<hpc, recentEvents>>, gone \subseteq gone',
             closed \subseteq closed', raced \subseteq raced'
      PROVE  GreetedOrFailed'
  BY <1>1
<1>2. ASSUME NEW e \in Events, AddEvent(e) \/ Send(e)
      PROVE  GreetedOrFailed'
  BY <1>1, <1>2 DEF AddEvent, Send
<1>3. ASSUME NEW c \in Clients, Connect(c) \/ HandlerPanic(c)
      PROVE  GreetedOrFailed'
  BY <1>3 DEF Connect, HandlerPanic
<1>4. ASSUME NEW c \in Clients, Handler(c)
      PROVE  GreetedOrFailed'
  <2>1. CASE Register(c) \/ GreetBegin(c) \/ ReadError(c) \/ Unregister(c)
    BY <2>1 DEF Register, GreetBegin, ReadError, Unregister, Spoiled
  <2>2. CASE Snapshot(c) \/ GreetWritten(c)
    <3>1. /\ hpc'[c] = "greeting"
          /\ \A x \in Clients \ {c} : hpc'[x] = hpc[x]
                                      /\ recentEvents'[x] = recentEvents[x]
          /\ UNCHANGED <<gone, closed, raced>>
      BY <2>2 DEF Snapshot, GreetWritten, Written
    <3>. QED
      BY <3>1
  <2>3. CASE GreetError(c)
    BY <2>3 DEF GreetError
  <2>4. CASE GreetDone(c)
    BY <2>4 DEF GreetDone
  <2>. QED
    BY <1>4, <2>1, <2>2, <2>3, <2>4 DEF Handler
<1>5. ASSUME NEW c \in Clients, PeerReads(c) \/ PeerLeaves(c)
      PROVE  GreetedOrFailed'
  BY <1>1, <1>5 DEF PeerReads, PeerLeaves
<1>6. CASE Broadcaster
  BY <1>1, <1>6 DEF Broadcaster, BReceive, BLock, BWrite, BWritten, BError,
                    BDelete, BRelock, BDone, Written, Spoiled
<1>7. CASE BroadcasterPanic \/ UNCHANGED vars
  BY <1>1, <1>7 DEF BroadcasterPanic, vars
<1>. QED
  BY <1>2, <1>3, <1>4, <1>5, <1>6, <1>7 DEF Next

(* A step that takes nothing away from a dashboard's feed. *)
LEMMA HoleFreeKept ==
    ASSUME NEW c \in Clients, HoleFree(c),
           UNCHANGED <<store, snapFrom, broadcasted>>,
           \A e : Has(c, e) => Has(c, e)',
           InLoop' => InLoop /\ event' = event
                      /\ (ComesTo(c) => Has(c, event)' \/ ComesTo(c)')
    PROVE  HoleFree(c)'
<1>. SUFFICES ASSUME NEW i \in DOMAIN store, i >= snapFrom[c]
             PROVE  /\ store[i] \in broadcasted => Has(c, store[i])'
                    /\ (InLoop' /\ store[i] = event') =>
                           Has(c, event)' \/ ComesTo(c)'
  BY DEF HoleFree, Has
<1>1. store[i] \in broadcasted => Has(c, store[i])'
  BY DEF HoleFree
<1>2. ASSUME InLoop', store[i] = event'
      PROVE  Has(c, event)' \/ ComesTo(c)'
  <2>1. InLoop /\ store[i] = event
    BY <1>2
  <2>2. Has(c, event) \/ ComesTo(c)
    BY <2>1 DEF HoleFree
  <2>3. Has(c, event) => Has(c, event)'
    <3>1. Has(c, store[i]) => Has(c, store[i])'
      OBVIOUS
    <3>. QED
      BY <3>1, <1>2, <2>1 DEF Has
  <2>. QED
    BY <1>2, <2>2, <2>3
<1>. QED
  BY <1>1, <1>2

LEMMA NoHoleStepServer ==
    ASSUME IInv,
           \/ \E e \in Events : AddEvent(e) \/ Send(e)
           \/ \E c \in Clients : Connect(c) \/ Handler(c) \/ HandlerPanic(c)
                                     \/ PeerReads(c) \/ PeerLeaves(c)
           \/ BroadcasterPanic
           \/ UNCHANGED vars
    PROVE  NoHole'
<1>. USE DEF evars, hvars, bvars, pvars, HGoto
<1>0. NoHole /\ TypeOK /\ Broadcasting /\ WritesSomething
  BY DEF IInv
<1>1. ASSUME UNCHANGED <<store, bvars, snapFrom>>,
             \A x \in Clients : Follows(x)' => Follows(x),
             \A x \in Clients : \A e : Has(x, e) => Has(x, e)'
      PROVE  NoHole'
  <2>. SUFFICES ASSUME NEW x \in Clients, Follows(x)'
               PROVE  HoleFree(x)'
    BY DEF NoHole
  <2>1. HoleFree(x)
    BY <1>0, <1>1 DEF NoHole
  <2>. QED
    BY <1>1, <2>1, HoleFreeKept DEF InLoop, ComesTo
<1>2. ASSUME UNCHANGED <<store, bvars, snapFrom, recentEvents, sentTo>>,
             \A x \in Clients : Follows(x)' => Follows(x)
      PROVE  NoHole'
  BY <1>1, <1>2 DEF Has
<1>3. ASSUME NEW e \in Events, AddEvent(e)
      PROVE  NoHole'
  <2>. SUFFICES ASSUME NEW x \in Clients, Follows(x)'
               PROVE  HoleFree(x)'
    BY DEF NoHole
  <2>1. /\ epc[e] = "new" /\ store' = Append(store, e)
        /\ UNCHANGED <<bvars, snapFrom, recentEvents, sentTo, clients, hpc,
                       gone, closed, raced>>
    BY <1>3 DEF AddEvent
  <2>2. HoleFree(x)
    BY <1>0, <2>1 DEF NoHole, Follows, Fails, Broken
  <2>3. e \notin broadcasted /\ (InLoop => event # e)
    BY <1>0, <2>1 DEF Broadcasting, InLoop
  <2>4. ASSUME NEW i \in DOMAIN store'
        PROVE  store'[i] = e \/ (i \in DOMAIN store /\ store'[i] = store[i])
    BY <1>0, <2>1, AppendEvent DEF TypeOK
  <2>. QED
    BY <2>1, <2>2, <2>3, <2>4 DEF HoleFree, Has, InLoop, ComesTo
<1>4. ASSUME NEW e \in Events, Send(e)
      PROVE  NoHole'
  BY <1>2, <1>4 DEF Send, Follows, Fails, Broken
<1>5. ASSUME NEW c \in Clients,
             Connect(c) \/ GreetBegin(c) \/ GreetDone(c) \/ ReadError(c)
      PROVE  NoHole'
  <2>1. /\ UNCHANGED <<store, bvars, snapFrom, recentEvents, sentTo, clients,
                       gone, closed>>
        /\ raced \subseteq raced'
        /\ hpc'[c] \in {"greeting", "writing", "reading"} =>
               hpc[c] \in {"greeting", "writing", "reading"}
        /\ \A x \in Clients \ {c} : hpc'[x] = hpc[x]
    BY <1>0, <1>5 DEF Connect, GreetBegin, GreetDone, ReadError, Spoiled,
                      TypeOK
  <2>. QED
    BY <1>2, <2>1 DEF Follows, Fails, Broken
<1>6. ASSUME NEW c \in Clients, Register(c)
      PROVE  NoHole'
  <2>. SUFFICES ASSUME NEW x \in Clients, Follows(x)'
               PROVE  HoleFree(x)'
    BY DEF NoHole
  <2>1. /\ UNCHANGED <<store, snapFrom, recentEvents, sentTo, gone, closed,
                       raced, bpc, event, todo, client, broadcasted>>
        /\ clients' = clients \cup {c} /\ hpc'[c] = "registered"
        /\ \A y \in Clients \ {c} : hpc'[y] = hpc[y]
    BY <1>0, <1>6 DEF Register, TypeOK
  <2>2. x # c /\ HoleFree(x)
    BY <1>0, <2>1 DEF NoHole, Follows, Fails, Broken
  <2>. QED
    BY <2>1, <2>2, HoleFreeKept DEF InLoop, ComesTo, Has
<1>7. ASSUME NEW c \in Clients, Unregister(c)
      PROVE  NoHole'
  <2>. SUFFICES ASSUME NEW x \in Clients, Follows(x)'
               PROVE  HoleFree(x)'
    BY DEF NoHole
  <2>1. /\ UNCHANGED <<store, snapFrom, recentEvents, sentTo, gone, raced,
                       bvars>>
        /\ clients' \subseteq clients /\ closed \subseteq closed'
        /\ hpc'[c] = "done"
        /\ \A y \in Clients \ {c} : hpc'[y] = hpc[y]
    BY <1>0, <1>7 DEF Unregister, TypeOK
  <2>2. HoleFree(x)
    BY <1>0, <2>1 DEF NoHole, Follows, Fails, Broken
  <2>. QED
    BY <2>1, <2>2, HoleFreeKept DEF InLoop, ComesTo, Has
<1>8. ASSUME NEW c \in Clients, Snapshot(c)
      PROVE  NoHole'
  <2>. SUFFICES ASSUME NEW x \in Clients, Follows(x)'
               PROVE  HoleFree(x)'
    BY DEF NoHole
  <2>1. /\ UNCHANGED <<store, sentTo, gone, closed, raced, clients, bvars>>
        /\ recentEvents' =
               [recentEvents EXCEPT ![c] = GetRecentEvents(RecentLimit)]
        /\ snapFrom' = [snapFrom EXCEPT ![c] =
                            Len(store) - Len(recentEvents'[c]) + 1]
        /\ \A y \in Clients \ {c} : hpc'[y] = hpc[y]
    BY <1>0, <1>8 DEF Snapshot, TypeOK
  <2>2. CASE x = c
    <3>1. recentEvents'[c] = GetRecentEvents(RecentLimit)
          /\ snapFrom'[c] = Len(store) - Len(GetRecentEvents(RecentLimit)) + 1
      BY <1>0, <2>1 DEF TypeOK
    <3>2. \A i \in DOMAIN store : i >= snapFrom'[c] => Has(c, store[i])'
      BY <1>0, <2>1, <3>1, RecentIsSuffix DEF TypeOK, Has
    <3>. QED
      BY <2>1, <2>2, <3>2 DEF HoleFree, Has
  <2>3. CASE x # c
    <3>1. recentEvents'[x] = recentEvents[x] /\ snapFrom'[x] = snapFrom[x]
      BY <1>0, <2>1, <2>3 DEF TypeOK
    <3>2. HoleFree(x)
      BY <1>0, <2>1, <2>3 DEF NoHole, Follows, Fails, Broken
    <3>. QED
      BY <2>1, <3>1, <3>2 DEF HoleFree, Has, InLoop, ComesTo
  <2>. QED
    BY <2>2, <2>3
<1>9. ASSUME NEW c \in Clients, GreetWritten(c)
      PROVE  NoHole'
  <2>. SUFFICES ASSUME NEW x \in Clients, Follows(x)'
               PROVE  HoleFree(x)'
    BY DEF NoHole
  <2>1. PICK s \in Seq(Events) : s = recentEvents[c]
    BY <1>0 DEF TypeOK
  <2>2. /\ s # <<>> /\ hpc[c] = "writing"
        /\ recentEvents' = [recentEvents EXCEPT ![c] = Tail(s)]
        /\ sentTo' = [sentTo EXCEPT ![c] =
                          IF c \in raced THEN @ ELSE @ \cup {Head(s)}]
        /\ \A y \in Clients \ {c} : hpc'[y] = hpc[y]
        /\ UNCHANGED <<store, bvars, snapFrom, clients, gone, closed, raced>>
    BY <1>0, <1>9, <2>1 DEF GreetWritten, Written, WritesSomething, TypeOK
  <2>3. HoleFree(x) /\ x \notin raced
    BY <1>0, <2>2 DEF NoHole, Follows, Fails, Broken
  <2>4. CASE x = c
    <3>1. recentEvents'[c] = Tail(s) /\ sentTo'[c] = sentTo[c] \cup {Head(s)}
      BY <1>0, <2>2, <2>3, <2>4 DEF TypeOK
    <3>2. \A e : Has(c, e) => Has(c, e)'
      BY <2>1, <2>2, <3>1, TailLoses DEF Has
    <3>. QED
      BY <2>2, <2>3, <2>4, <3>2, HoleFreeKept DEF InLoop, ComesTo
  <2>5. CASE x # c
    <3>1. recentEvents'[x] = recentEvents[x] /\ sentTo'[x] = sentTo[x]
      BY <1>0, <2>2, <2>5 DEF TypeOK
    <3>2. \A e : Has(x, e) => Has(x, e)'
      BY <3>1 DEF Has
    <3>. QED
      BY <2>2, <2>3, <3>2, HoleFreeKept DEF InLoop, ComesTo
  <2>. QED
    BY <2>4, <2>5
<1>10. ASSUME NEW c \in Clients, PeerReads(c) \/ PeerLeaves(c)
       PROVE  NoHole'
  BY <1>2, <1>10 DEF PeerReads, PeerLeaves, Follows, Fails, Broken
<1>11. CASE BroadcasterPanic \/ UNCHANGED vars
  BY <1>2, <1>11 DEF BroadcasterPanic, vars, Follows, Fails, Broken
<1>12. ASSUME NEW c \in Clients, GreetError(c) \/ HandlerPanic(c)
       PROVE  NoHole'
  <2>. SUFFICES ASSUME NEW x \in Clients, Follows(x)'
               PROVE  HoleFree(x)'
    BY DEF NoHole
  <2>1. /\ UNCHANGED <<store, bvars, snapFrom, sentTo, clients, gone, closed,
                       raced>>
        /\ \A y \in Clients \ {c} : hpc'[y] = hpc[y]
                                     /\ recentEvents'[y] = recentEvents[y]
        /\ Fails(c)
    BY <1>0, <1>12 DEF GreetError, HandlerPanic, Fails, TypeOK
  <2>2. x # c /\ HoleFree(x)
    BY <1>0, <2>1 DEF NoHole, Follows, Fails, Broken
  <2>. QED
    BY <2>1, <2>2, HoleFreeKept DEF InLoop, ComesTo, Has
<1>. QED
  BY <1>3, <1>4, <1>5, <1>6, <1>7, <1>8, <1>9, <1>10, <1>11, <1>12
     DEF Handler

LEMMA NoHoleStepBroadcaster == IInv /\ Broadcaster => NoHole'
<1>. SUFFICES ASSUME IInv, Broadcaster, NEW c \in Clients, Follows(c)'
             PROVE  HoleFree(c)'
  BY DEF NoHole
<1>. USE DEF evars, hvars, bvars, pvars, BGoto
<1>0. /\ NoHole /\ TypeOK /\ Broadcasting /\ WritesOnlyToMembers
      /\ bpc = "drop" => client \in closed
  BY DEF IInv
<1>1. /\ UNCHANGED <<store, snapFrom, recentEvents, gone, hpc>>
      /\ closed \subseteq closed' /\ clients' \subseteq clients
      /\ raced \subseteq raced'
      /\ sentTo[c] \subseteq sentTo'[c]
  <2>1. CASE BWritten
    <3>1. /\ sentTo' = [sentTo EXCEPT ![client] =
                            IF client \in raced THEN @ ELSE @ \cup {event}]
          /\ UNCHANGED <<store, snapFrom, recentEvents, gone, hpc, closed,
                         raced, clients>>
      BY <2>1 DEF BWritten, Written
    <3>. QED
      BY <1>0, <3>1 DEF TypeOK
  <2>2. CASE ~BWritten
    BY <2>2 DEF Broadcaster, BReceive, BLock, BWrite, BError, BDelete, BRelock,
                BDone, Spoiled
  <2>. QED
    BY <2>1, <2>2
<1>2. Follows(c) /\ HoleFree(c)
  BY <1>0, <1>1 DEF NoHole, Follows, Fails, Broken
<1>3. \A e : Has(c, e) => Has(c, e)'
  BY <1>1 DEF Has
<1>4. ASSUME broadcasted' = broadcasted,
             InLoop' => InLoop /\ event' = event
                        /\ (ComesTo(c) => Has(c, event)' \/ ComesTo(c)')
      PROVE  HoleFree(c)'
  BY <1>1, <1>2, <1>3, <1>4, HoleFreeKept
<1>5. CASE BReceive
  BY <1>4, <1>5 DEF BReceive, InLoop
<1>6. CASE BLock
  <2>1. ComesTo(c)'
    BY <1>2, <1>6 DEF BLock, ComesTo, Follows
  <2>2. \A i \in DOMAIN store : i >= snapFrom[c] =>
            (store[i] \in broadcasted => Has(c, store[i])')
    BY <1>1, <1>2, <1>3 DEF HoleFree, Has
  <2>3. UNCHANGED <<broadcasted, event>>
    BY <1>6 DEF BLock
  <2>. QED
    BY <1>1, <2>1, <2>2, <2>3 DEF HoleFree, Has
<1>7. ASSUME NEW x \in Clients, BWrite(x)
      PROVE  HoleFree(c)'
  BY <1>4, <1>7 DEF BWrite, InLoop, ComesTo
<1>8. CASE BWritten
  <2>1. client = c => sentTo'[c] = sentTo[c] \cup {event}
    BY <1>0, <1>2, <1>8 DEF BWritten, Written, TypeOK, Follows, Fails
  <2>2. ComesTo(c) => Has(c, event)' \/ ComesTo(c)'
    BY <1>8, <2>1 DEF BWritten, ComesTo, Has
  <2>. QED
    BY <1>4, <1>8, <2>2 DEF BWritten, InLoop
<1>9. CASE BError
  <2>1. c # client
    BY <1>9 DEF BError, Follows, Fails, Broken
  <2>. QED
    BY <1>4, <1>9, <2>1 DEF BError, InLoop, ComesTo
<1>10. CASE BDelete
  BY <1>4, <1>10 DEF BDelete, InLoop, ComesTo
<1>11. CASE BRelock
  <2>1. ComesTo(c) => ComesTo(c)'
    BY <1>2, <1>11 DEF BRelock, ComesTo, Follows
  <2>. QED
    BY <1>4, <1>11, <2>1 DEF BRelock, InLoop
<1>12. CASE BDone
  <2>1. ~ComesTo(c) /\ InLoop /\ ~InLoop' /\ broadcasted' = broadcasted \cup {event}
    BY <1>12 DEF BDone, ComesTo, InLoop
  <2>2. \A i \in DOMAIN store : i >= snapFrom[c] =>
            (store[i] \in broadcasted' => Has(c, store[i]))
    BY <1>2, <2>1 DEF HoleFree
  <2>3. \A i \in DOMAIN store : i >= snapFrom[c] =>
            (store[i] \in broadcasted' => Has(c, store[i])')
    BY <1>1, <1>3, <2>2 DEF Has
  <2>. QED
    BY <1>1, <2>1, <2>3 DEF HoleFree, Has
<1>. QED
  BY <1>5, <1>6, <1>7, <1>8, <1>9, <1>10, <1>11, <1>12 DEF Broadcaster

LEMMA SourcesStep == IInv /\ [Next]_vars => Sources'
<1>. SUFFICES ASSUME IInv, [Next]_vars
             PROVE  Sources'
  OBVIOUS
<1>. USE DEF evars, hvars, bvars, pvars, HGoto, BGoto
<1>0. TypeOK /\ Sources /\ WritesSomething
  BY DEF IInv
<1>1. ASSUME UNCHANGED <<epc, store, recentEvents>>
      PROVE  Sources'
  BY <1>0, <1>1 DEF Sources
<1>2. ASSUME NEW e \in Events, AddEvent(e)
      PROVE  Sources'
  <2>1. /\ epc' = [epc EXCEPT ![e] = "stored"] /\ recentEvents' = recentEvents
        /\ InSeq(store') = InSeq(store) \cup {e}
    BY <1>0, <1>2, AppendAdds DEF AddEvent, TypeOK
  <2>. QED
    BY <1>0, <2>1 DEF Sources, TypeOK
<1>3. ASSUME NEW e \in Events, Send(e)
      PROVE  Sources'
  BY <1>0, <1>3 DEF Send, Sources, TypeOK
<1>4. ASSUME NEW c \in Clients, Snapshot(c)
      PROVE  Sources'
  <2>1. /\ recentEvents' =
               [recentEvents EXCEPT ![c] = GetRecentEvents(RecentLimit)]
        /\ UNCHANGED <<epc, store>>
        /\ InSeq(GetRecentEvents(RecentLimit)) \subseteq InSeq(store)
    BY <1>0, <1>4, RecentIsSuffix DEF Snapshot, TypeOK
  <2>. QED
    BY <1>0, <2>1 DEF Sources, TypeOK
<1>5. ASSUME NEW c \in Clients, GreetWritten(c)
      PROVE  Sources'
  <2>1. PICK s \in Seq(Events) : s = recentEvents[c]
    BY <1>0 DEF TypeOK
  <2>2. /\ recentEvents' = [recentEvents EXCEPT ![c] = Tail(s)]
        /\ s # <<>>
        /\ UNCHANGED <<epc, store>>
    BY <1>0, <1>5, <2>1 DEF GreetWritten, WritesSomething
  <2>3. InSeq(Tail(s)) \subseteq InSeq(s)
    BY <2>2, TailLoses
  <2>. QED
    BY <1>0, <2>1, <2>2, <2>3 DEF Sources, TypeOK
<1>6. ASSUME NEW c \in Clients,
             \/ Connect(c) \/ Register(c) \/ GreetBegin(c) \/ GreetDone(c)
             \/ ReadError(c) \/ Unregister(c) \/ PeerReads(c) \/ PeerLeaves(c)
      PROVE  Sources'
  BY <1>1, <1>6 DEF Connect, Register, GreetBegin, GreetDone, ReadError,
                    Unregister, PeerReads, PeerLeaves
<1>7. CASE Broadcaster
  BY <1>1, <1>7 DEF Broadcaster, BReceive, BLock, BWrite, BWritten, BError,
                    BDelete, BRelock, BDone
<1>8. CASE BroadcasterPanic \/ UNCHANGED vars
  BY <1>1, <1>8 DEF BroadcasterPanic, vars
<1>9. ASSUME NEW c \in Clients, GreetError(c) \/ HandlerPanic(c)
      PROVE  Sources'
  <2>1. /\ recentEvents' = [recentEvents EXCEPT ![c] = <<>>]
        /\ UNCHANGED <<epc, store>>
    BY <1>9 DEF GreetError, HandlerPanic
  <2>2. InSeq(<<>>) = {}
    BY DEF InSeq
  <2>. QED
    BY <1>0, <2>1, <2>2 DEF Sources, TypeOK
<1>. QED
  BY <1>2, <1>3, <1>4, <1>5, <1>6, <1>7, <1>8, <1>9 DEF Next, Handler

LEMMA Invariance == Spec => []IInv
<1>1. Init => IInv
  <2>1. Init => GreetedOrFailed /\ NoHole /\ Sources
    BY DEF Init, GreetedOrFailed, NoHole, Follows, Sources, InSeq
  <2>. QED
    BY <2>1, ShapeInit DEF IInv, Shape
<1>2. IInv /\ [Next]_vars => IInv'
  <2>1. IInv /\ [Next]_vars => Shape'
    BY ShapeStep DEF IInv, Shape
  <2>2. IInv /\ [Next]_vars => NoHole'
    BY NoHoleStepServer, NoHoleStepBroadcaster DEF Next
  <2>. QED
    BY <2>1, <2>2, GreetedStep, SourcesStep DEF IInv, Shape
<1>. QED
  BY <1>1, <1>2, PTL DEF Spec

-----------------------------------------------------------------------------
(* Every variable keeps its type, the channel and the sockets their limits. *)
THEOREM TypeCorrect == Spec => []TypeOK
BY Invariance, PTL DEF IInv

(* The broadcaster never writes to a dashboard that is not in the map. *)
THEOREM OnlyMembersAreWritten == Spec => []WritesOnlyToMembers
BY Invariance, PTL DEF IInv

(* A dashboard that was greeted has no hole in its feed, whatever comes
   between its registration, its snapshot and the broadcasts. *)
THEOREM FeedHasNoGap == Spec => []NoGap
<1>1. IInv => NoGap
  <2>. SUFFICES ASSUME IInv, NEW c \in clients, hpc[c] = "reading", ~Fails(c),
                      NEW i \in DOMAIN store, i >= snapFrom[c],
                      store[i] \in broadcasted
               PROVE  store[i] \in sentTo[c]
    BY DEF NoGap
  <2>1. c \in Clients
    BY DEF IInv, TypeOK
  <2>2. Has(c, store[i])
    BY <2>1 DEF IInv, NoHole, Follows, HoleFree
  <2>3. recentEvents[c] = <<>>
    BY <2>1 DEF IInv, GreetedOrFailed
  <2>. QED
    BY <2>2, <2>3 DEF Has, InSeq
<1>. QED
  BY <1>1, Invariance, PTL

(* The map of clients is never changed while it is ranged over. *)
THEOREM MapIsStable == Spec => MapStableWhileRanged
<1>1. [Next]_vars => [(ReadLocked /\ ReadLocked') => clients' = clients]_vars
  <2>. SUFFICES ASSUME [Next]_vars, ReadLocked, ReadLocked'
               PROVE  clients' = clients
    OBVIOUS
  <2>. USE DEF ReadLocked, HGoto, BGoto, evars, hvars, bvars, pvars
  <2>1. ASSUME NEW e \in Events, AddEvent(e) \/ Send(e)
        PROVE  clients' = clients
    BY <2>1 DEF AddEvent, Send
  <2>2. ASSUME NEW c \in Clients, Connect(c) \/ Handler(c) \/ HandlerPanic(c)
        PROVE  clients' = clients
    BY <2>2 DEF Connect, Handler, HandlerPanic, Register, Snapshot, GreetBegin,
                GreetWritten, GreetError, GreetDone, ReadError, Unregister
  <2>3. ASSUME NEW c \in Clients, PeerReads(c) \/ PeerLeaves(c)
        PROVE  clients' = clients
    BY <2>3 DEF PeerReads, PeerLeaves
  <2>4. CASE Broadcaster
    BY <2>4 DEF Broadcaster, BReceive, BLock, BWrite, BWritten, BError,
                BDelete, BRelock, BDone
  <2>5. CASE BroadcasterPanic \/ UNCHANGED vars
    BY <2>5 DEF BroadcasterPanic, vars
  <2>. QED
    BY <2>1, <2>2, <2>3, <2>4, <2>5 DEF Next
<1>. QED
  BY <1>1, PTL DEF Spec, MapStableWhileRanged

-----------------------------------------------------------------------------
(* Where each dashboard is in the feed, step by step. *)
LEMMA PostedIsStored == AbstractFeed!Posted = InSeq(store)
BY DEF AbstractFeed!Posted, InSeq

(* Nothing about the dashboard matters to the feed but this. *)
SamePlace(x) ==
    /\ hpc'[x] = hpc[x] /\ snapFrom'[x] = snapFrom[x]
    /\ x \in clients' <=> x \in clients
    /\ x \in gone' <=> x \in gone
    /\ x \in closed' <=> x \in closed
    /\ x \in raced' <=> x \in raced

LEMMA OneMoves ==
    ASSUME NEW c \in Clients, \A x \in Clients \ {c} : SamePlace(x)
    PROVE  /\ Stages' = [Stages EXCEPT ![c] = Stage(c)']
           /\ Starts' = [Starts EXCEPT ![c] =
                             IF Follows(c)' THEN snapFrom'[c] ELSE 0]
<1>1. ASSUME NEW x \in Clients \ {c}
      PROVE  Stage(x)' = Stage(x) /\ Follows(x)' = Follows(x)
             /\ snapFrom'[x] = snapFrom[x]
  BY <1>1 DEF SamePlace, Stage, Follows, Fails, Broken
<1>2. Stages' = [x \in Clients |-> Stage(x)']
  BY DEF Stages
<1>3. Starts' = [x \in Clients |-> IF Follows(x)' THEN snapFrom'[x] ELSE 0]
  BY DEF Starts
<1>. QED
  BY <1>1, <1>2, <1>3 DEF Stages, Starts

LEMMA NobodyMoves ==
    ASSUME \A x \in Clients : SamePlace(x)
    PROVE  UNCHANGED <<Stages, Starts>>
<1>1. ASSUME NEW x \in Clients
      PROVE  Stage(x)' = Stage(x) /\ Follows(x)' = Follows(x)
             /\ snapFrom'[x] = snapFrom[x]
  BY <1>1 DEF SamePlace, Stage, Follows, Fails, Broken
<1>. QED
  BY <1>1 DEF Stages, Starts

(* A step of one dashboard that does not bring it into the feed. *)
LEMMA StaysOrLeaves ==
    ASSUME NEW c \in Clients, \A x \in Clients \ {c} : SamePlace(x),
           UNCHANGED <<store, broadcasted, sentTo>>,
           \/ /\ Stage(c)' = Stage(c) /\ snapFrom'[c] = snapFrom[c]
           \/ Stage(c)' = "left"
    PROVE  AbstractFeed!Leave(c) \/ UNCHANGED AbstractFeed!vars
<1>1. Follows(c) <=> Stage(c) \in {"following", "greeted"}
  BY DEF Stage, Follows
<1>2. Follows(c)' <=> Stage(c)' \in {"following", "greeted"}
  BY DEF Stage, Follows
<1>3. CASE Stage(c)' = Stage(c) /\ snapFrom'[c] = snapFrom[c]
  <2>1. Stages' = Stages /\ Starts' = Starts
    BY <1>1, <1>2, <1>3, OneMoves DEF Stages, Starts
  <2>. QED
    BY <2>1 DEF AbstractFeed!vars
<1>4. CASE Stage(c)' = "left"
  BY <1>2, <1>4, OneMoves DEF AbstractFeed!Leave
<1>. QED
  BY <1>3, <1>4

(* Who is greeted gets the snapshot from its oldest event on. *)
LEMMA SnapshotRefines ==
    ASSUME IInv, NEW c \in Clients, Snapshot(c)
    PROVE  AbstractFeed!Greet(c) \/ AbstractFeed!Leave(c)
           \/ UNCHANGED AbstractFeed!vars
<1>1. /\ hpc[c] = "registered" /\ hpc'[c] = "greeting"
      /\ \A x \in Clients \ {c} : SamePlace(x)
      /\ UNCHANGED <<store, broadcasted, sentTo>>
      /\ snapFrom'[c] = Len(store) - Len(GetRecentEvents(RecentLimit)) + 1
  BY DEF IInv, TypeOK, Snapshot, HGoto, SamePlace, evars, bvars, pvars
<1>2. CASE Follows(c)'
  <2>1. Stage(c) = "out" /\ Stage(c)' = "greeted"
    BY <1>1, <1>2 DEF Stage, Follows
  <2>2. snapFrom'[c] \in 1 .. Len(store) + 1
    <3>1. /\ Len(GetRecentEvents(RecentLimit)) \in 0 .. Len(store)
          /\ Len(store) \in Nat
      BY RecentIsSuffix DEF IInv, TypeOK
    <3>. QED
      BY <1>1, <3>1
  <2>3. AbstractFeed!Greet(c)
    BY <1>1, <1>2, <2>1, <2>2, OneMoves DEF AbstractFeed!Greet, Stages
  <2>. QED
    BY <2>3
<1>3. CASE ~Follows(c)'
  <2>1. Stage(c)' = "left"
    BY <1>1, <1>3 DEF Stage
  <2>. QED
    BY <1>1, <2>1, StaysOrLeaves
<1>. QED
  BY <1>2, <1>3

(* Who has been greeted has caught up. *)
LEMMA GreetDoneRefines ==
    ASSUME IInv, NEW c \in Clients, GreetDone(c)
    PROVE  AbstractFeed!Follow(c) \/ AbstractFeed!Leave(c)
           \/ UNCHANGED AbstractFeed!vars
<1>1. /\ hpc[c] = "greeting" /\ hpc'[c] = "reading"
      /\ \A x \in Clients : x # c => SamePlace(x)
      /\ Follows(c)' = Follows(c)
      /\ UNCHANGED <<store, broadcasted, sentTo, snapFrom>>
      /\ recentEvents[c] = <<>>
  BY DEF IInv, TypeOK, GreetDone, HGoto, SamePlace, Follows, Fails, Broken,
         evars, bvars, pvars
<1>2. CASE Follows(c)
  <2>1. Stage(c) = "greeted" /\ Stage(c)' = "following"
    BY <1>1, <1>2 DEF Stage
  <2>2. AbstractFeed!Due(Starts[c], broadcasted) \subseteq sentTo[c]
    <3>1. ASSUME NEW i \in DOMAIN store, i >= snapFrom[c],
                 store[i] \in broadcasted
          PROVE  store[i] \in sentTo[c]
      <4>1. Has(c, store[i])
        BY <1>2, <3>1 DEF IInv, NoHole, HoleFree
      <4>. QED
        BY <1>1, <4>1 DEF Has, InSeq
    <3>2. Starts[c] = snapFrom[c]
      BY <1>2 DEF Starts
    <3>. QED
      BY <3>1, <3>2 DEF AbstractFeed!Due
  <2>3. Starts' = Starts /\ Stages' = [Stages EXCEPT ![c] = "following"]
    BY <1>1, <1>2, <2>1, OneMoves DEF Starts
  <2>4. AbstractFeed!Follow(c)
    BY <1>1, <2>1, <2>2, <2>3 DEF AbstractFeed!Follow, Stages
  <2>. QED
    BY <2>4
<1>3. CASE ~Follows(c)
  <2>1. Stage(c)' = "left"
    BY <1>1, <1>3 DEF Stage
  <2>. QED
    BY <1>1, <2>1, StaysOrLeaves
<1>. QED
  BY <1>2, <1>3

(* A broadcast is over when the loop has nobody left to visit. *)
LEMMA BDoneRefines ==
    ASSUME IInv, BDone
    PROVE  event \in Events /\ AbstractFeed!Finish(event)
<1>1. /\ bpc = "range" /\ todo = {} /\ event \in Events
      /\ epc[event] = "sent"
      /\ broadcasted' = broadcasted \cup {event}
      /\ \A x \in Clients : SamePlace(x)
      /\ UNCHANGED <<store, sentTo>>
  BY DEF IInv, Broadcasting, BDone, BGoto, SamePlace, evars, hvars, pvars
<1>2. event \in AbstractFeed!Posted
  BY <1>1, PostedIsStored DEF IInv, Sources
<1>3. ASSUME NEW c \in Clients, Stages[c] = "following"
      PROVE  AbstractFeed!Due(Starts[c], {event}) \subseteq sentTo[c]
  <2>1. Follows(c) /\ hpc[c] = "reading"
    BY <1>3 DEF Stages, Stage
  <2>2. recentEvents[c] = <<>> /\ HoleFree(c)
    BY <2>1 DEF IInv, GreetedOrFailed, NoHole, Follows
  <2>3. ASSUME NEW i \in DOMAIN store, i >= snapFrom[c], store[i] = event
        PROVE  event \in sentTo[c]
    <3>1. Has(c, event)
      BY <1>1, <2>2, <2>3 DEF HoleFree, InLoop, ComesTo
    <3>. QED
      BY <2>2, <3>1 DEF Has, InSeq
  <2>4. Starts[c] = snapFrom[c]
    BY <2>1 DEF Starts
  <2>. QED
    BY <2>3, <2>4 DEF AbstractFeed!Due
<1>. QED
  BY <1>1, <1>2, <1>3, NobodyMoves DEF AbstractFeed!Finish

LEMMA StepRefines ==
    IInv /\ [Next]_vars => [AbstractFeed!Next]_(AbstractFeed!vars)
<1>. SUFFICES ASSUME IInv, [Next]_vars
             PROVE  AbstractFeed!Next \/ UNCHANGED AbstractFeed!vars
  OBVIOUS
<1>. USE DEF AbstractFeed!Next, evars, hvars, bvars, pvars, HGoto, BGoto
<1>0. TypeOK /\ Sources /\ WritesSomething /\ WritesOnlyToMembers
      /\ Broadcasting
  BY DEF IInv
<1>1. ASSUME UNCHANGED <<store, broadcasted, sentTo>>,
             \A x \in Clients : SamePlace(x)
      PROVE  UNCHANGED AbstractFeed!vars
  BY <1>1, NobodyMoves DEF AbstractFeed!vars
<1>2. ASSUME NEW e \in Events, AddEvent(e)
      PROVE  AbstractFeed!Next
  <2>1. /\ e \notin InSeq(store) /\ store' = Append(store, e)
        /\ UNCHANGED <<broadcasted, sentTo>>
        /\ \A x \in Clients : SamePlace(x)
    BY <1>0, <1>2 DEF AddEvent, Sources, SamePlace
  <2>2. AbstractFeed!Post(e)
    BY <2>1, PostedIsStored, NobodyMoves DEF AbstractFeed!Post
  <2>. QED
    BY <2>2
<1>3. ASSUME NEW e \in Events, Send(e)
      PROVE  UNCHANGED AbstractFeed!vars
  BY <1>1, <1>3 DEF Send, SamePlace
<1>4. ASSUME NEW c \in Clients, NEW e \in InSeq(store),
             sentTo' = [sentTo EXCEPT ![c] = @ \cup {e}],
             UNCHANGED <<store, broadcasted, Stages, Starts>>
      PROVE  AbstractFeed!Next
  <2>1. e \in Events
    BY <1>0 DEF TypeOK, InSeq
  <2>2. AbstractFeed!Deliver(c, e)
    BY <1>4, PostedIsStored DEF AbstractFeed!Deliver
  <2>. QED
    BY <2>1, <2>2
<1>5. ASSUME NEW c \in Clients, \A x \in Clients : x # c => SamePlace(x),
             UNCHANGED <<store, broadcasted, sentTo, snapFrom>>,
             Stage(c)' = Stage(c) \/ Stage(c)' = "left"
      PROVE  AbstractFeed!Next \/ UNCHANGED AbstractFeed!vars
  BY <1>5, StaysOrLeaves
<1>6. ASSUME NEW c \in Clients, Handler(c)
      PROVE  AbstractFeed!Next \/ UNCHANGED AbstractFeed!vars
  <2>1. CASE Snapshot(c)
    BY <2>1, SnapshotRefines
  <2>2. CASE GreetDone(c)
    BY <2>2, GreetDoneRefines
  <2>3. CASE GreetWritten(c)
    <3>1. PICK s \in Seq(Events) : s = recentEvents[c]
      BY <1>0 DEF TypeOK
    <3>2. Head(s) \in InSeq(store)
      <4>1. s # <<>>
        BY <1>0, <2>3, <3>1 DEF WritesSomething, GreetWritten
      <4>2. Head(s) \in InSeq(s)
        BY <4>1, TailEvent DEF InSeq
      <4>. QED
        BY <1>0, <3>1, <4>2 DEF Sources
    <3>3. Stages' = Stages /\ Starts' = Starts
      <4>1. /\ hpc[c] = "writing" /\ hpc' = [hpc EXCEPT ![c] = "greeting"]
            /\ \A x \in Clients \ {c} : SamePlace(x)
            /\ Follows(c)' = Follows(c) /\ snapFrom'[c] = snapFrom[c]
        BY <1>0, <2>3 DEF GreetWritten, Written, SamePlace, Follows, Fails, Broken,
                          TypeOK
      <4>2. Stage(c)' = Stage(c)
        BY <1>0, <4>1 DEF Stage, TypeOK
      <4>. QED
        BY <4>1, <4>2, OneMoves DEF Stages, Starts
    <3>4. CASE c \in raced
      BY <1>0, <2>3, <3>3, <3>4 DEF GreetWritten, Written, TypeOK,
                                    AbstractFeed!vars
    <3>5. CASE c \notin raced
      BY <1>4, <2>3, <3>1, <3>2, <3>3, <3>5 DEF GreetWritten, Written
    <3>. QED
      BY <3>4, <3>5
  <2>4. CASE Register(c) \/ GreetBegin(c) \/ GreetError(c) \/ ReadError(c)
             \/ Unregister(c)
    <3>1. /\ UNCHANGED <<store, broadcasted, sentTo, snapFrom>>
          /\ \A x \in Clients : x # c => SamePlace(x)
      BY <1>0, <2>4 DEF Register, GreetBegin, GreetError, ReadError,
                        Unregister, Spoiled, SamePlace, TypeOK
    <3>2. CASE Register(c)
      <4>1. hpc[c] = "connected" /\ hpc'[c] = "registered"
        BY <1>0, <3>2 DEF Register, TypeOK
      <4>2. Stage(c)' = Stage(c)
        BY <4>1 DEF Stage, Follows
      <4>. QED
        BY <1>5, <3>1, <4>2
    <3>3. CASE GreetBegin(c)
      <4>1. /\ hpc[c] = "greeting" /\ hpc'[c] = "writing"
            /\ Follows(c)' => Follows(c)
        BY <1>0, <3>3 DEF GreetBegin, Spoiled, TypeOK, Follows, Fails, Broken
      <4>2. Stage(c)' = Stage(c) \/ Stage(c)' = "left"
        BY <4>1 DEF Stage
      <4>. QED
        BY <1>5, <3>1, <4>2
    <3>4. CASE GreetError(c) \/ ReadError(c) \/ Unregister(c)
      <4>1. /\ hpc'[c] \in {"reading", "leaving", "done"}
            /\ ~Follows(c)'
        BY <1>0, <3>4 DEF GreetError, ReadError, Unregister, TypeOK, Follows,
                          Fails, Broken
      <4>2. Stage(c)' = "left"
        BY <4>1 DEF Stage
      <4>. QED
        BY <1>5, <3>1, <4>2
    <3>. QED
      BY <2>4, <3>2, <3>3, <3>4
  <2>. QED
    BY <1>6, <2>1, <2>2, <2>3, <2>4 DEF Handler
<1>7. ASSUME NEW c \in Clients, Connect(c) \/ HandlerPanic(c)
      PROVE  AbstractFeed!Next \/ UNCHANGED AbstractFeed!vars
  <2>1. /\ UNCHANGED <<store, broadcasted, sentTo, snapFrom>>
        /\ \A x \in Clients : x # c => SamePlace(x)
    BY <1>0, <1>7 DEF Connect, HandlerPanic, SamePlace, TypeOK
  <2>2. Stage(c)' = Stage(c) \/ Stage(c)' = "left"
    <3>1. CASE Connect(c)
      <4>1. hpc[c] = "off" /\ hpc'[c] = "connected"
        BY <1>0, <3>1 DEF Connect, TypeOK
      <4>. QED
        BY <4>1 DEF Stage, Follows
    <3>2. CASE HandlerPanic(c)
      <4>1. hpc'[c] = "panicked"
        BY <1>0, <3>2 DEF HandlerPanic, TypeOK
      <4>. QED
        BY <4>1 DEF Stage, Follows
    <3>. QED
      BY <1>7, <3>1, <3>2
  <2>. QED
    BY <1>5, <2>1, <2>2
<1>8. ASSUME NEW c \in Clients, PeerReads(c)
      PROVE  UNCHANGED AbstractFeed!vars
  BY <1>1, <1>8 DEF PeerReads, SamePlace
<1>9. ASSUME NEW c \in Clients,
             UNCHANGED <<store, broadcasted, sentTo, snapFrom, hpc>>,
             \A x \in Clients : x # c => SamePlace(x),
             ~Follows(c)'
      PROVE  AbstractFeed!Next \/ UNCHANGED AbstractFeed!vars
  <2>1. Stage(c)' = Stage(c) \/ Stage(c)' = "left"
    BY <1>9 DEF Stage, Follows
  <2>. QED
    BY <1>5, <1>9, <2>1
<1>10. ASSUME NEW c \in Clients, PeerLeaves(c)
       PROVE  AbstractFeed!Next \/ UNCHANGED AbstractFeed!vars
  <2>1. /\ UNCHANGED <<store, broadcasted, sentTo, snapFrom, hpc>>
        /\ \A x \in Clients : x # c => SamePlace(x)
        /\ ~Follows(c)'
    BY <1>10 DEF PeerLeaves, SamePlace, Follows, Fails, Broken
  <2>. QED
    BY <1>9, <2>1
<1>11. CASE Broadcaster
  <2>1. CASE BReceive \/ BLock \/ BRelock
    BY <1>1, <2>1 DEF BReceive, BLock, BRelock, SamePlace
  <2>2. CASE BWritten
    <3>1. /\ client \in Clients /\ event \in InSeq(store)
          /\ sentTo' = [sentTo EXCEPT ![client] =
                            IF client \in raced THEN @ ELSE @ \cup {event}]
          /\ UNCHANGED <<store, broadcasted>>
          /\ \A x \in Clients : SamePlace(x)
      BY <1>0, <2>2 DEF BWritten, Written, WritesOnlyToMembers, TypeOK,
                        Broadcasting, Sources, SamePlace
    <3>2. CASE client \in raced
      BY <1>0, <1>1, <3>1, <3>2 DEF TypeOK
    <3>3. CASE client \notin raced
      BY <1>4, <3>1, <3>3, NobodyMoves
    <3>. QED
      BY <3>2, <3>3
  <2>6. ASSUME NEW c \in Clients, BWrite(c)
        PROVE  AbstractFeed!Next \/ UNCHANGED AbstractFeed!vars
    <3>1. /\ UNCHANGED <<store, broadcasted, sentTo, snapFrom, hpc>>
          /\ \A x \in Clients : x # c => SamePlace(x)
          /\ c \in clients' <=> c \in clients
          /\ c \in gone' <=> c \in gone
          /\ c \in closed' <=> c \in closed
      BY <2>6 DEF BWrite, Spoiled, SamePlace
    <3>2. CASE c \in raced'
      BY <1>9, <3>1, <3>2 DEF Follows, Fails
    <3>3. CASE c \notin raced'
      <4>1. c \notin raced
        BY <2>6, <3>3 DEF BWrite, Spoiled
      <4>2. \A x \in Clients : SamePlace(x)
        BY <3>1, <3>3, <4>1 DEF SamePlace
      <4>. QED
        BY <1>1, <3>1, <4>2
    <3>. QED
      BY <3>2, <3>3
  <2>3. CASE BError
    <3>1. PICK c \in Clients : c = client
      BY <1>0, <2>3 DEF BError, WritesOnlyToMembers, TypeOK
    <3>2. /\ UNCHANGED <<store, broadcasted, sentTo, snapFrom, hpc>>
          /\ \A x \in Clients : x # c => SamePlace(x)
          /\ ~Follows(c)'
      BY <2>3, <3>1 DEF BError, SamePlace, Follows, Fails, Broken
    <3>. QED
      BY <1>9, <3>2
  <2>4. CASE BDelete
    <3>1. CASE client \notin Clients
      <4>1. /\ UNCHANGED <<store, broadcasted, sentTo>>
            /\ \A x \in Clients : SamePlace(x)
        BY <2>4, <3>1 DEF BDelete, SamePlace
      <4>. QED
        BY <1>1, <4>1
    <3>2. ASSUME NEW c \in Clients, c = client
          PROVE  AbstractFeed!Next \/ UNCHANGED AbstractFeed!vars
      <4>1. /\ UNCHANGED <<store, broadcasted, sentTo, snapFrom, hpc>>
            /\ \A x \in Clients : x # c => SamePlace(x)
            /\ ~Follows(c)'
        BY <2>4, <3>2 DEF BDelete, SamePlace, Follows
      <4>. QED
        BY <1>9, <4>1
    <3>. QED
      BY <3>1, <3>2
  <2>5. CASE BDone
    BY <2>5, BDoneRefines
  <2>. QED
    BY <1>11, <2>1, <2>2, <2>3, <2>4, <2>5, <2>6 DEF Broadcaster
<1>12. CASE BroadcasterPanic \/ UNCHANGED vars
  BY <1>1, <1>12 DEF BroadcasterPanic, vars, SamePlace
<1>. QED
  BY <1>2, <1>3, <1>6, <1>7, <1>8, <1>10, <1>11, <1>12 DEF Next

(* Handlers, broadcaster, map and lock together keep what the feed promises,
   for any events, any number of dashboards and every interleaving of their
   goroutines: the hub implements Feed. *)
THEOREM HubKeepsFeed == Spec => FeedIsKept
<1>1. Init => AbstractFeed!Init
  BY DEF Init, AbstractFeed!Init, Stages, Starts, Stage, Follows
<1>2. IInv /\ [Next]_vars => [AbstractFeed!Next]_(AbstractFeed!vars)
  BY StepRefines
<1>. QED
  BY <1>1, <1>2, Invariance, PTL DEF Spec, FeedIsKept, AbstractFeed!Spec

=============================================================================
