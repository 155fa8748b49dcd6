------------------------------ MODULE Collector ------------------------------
(***************************************************************************)
(* From the kernel's ring buffer to the server: the agent                  *)
(* (src/agent/main.go) with the probes' end of the buffer                  *)
(* (src/kernel/process_monitor.bpf.c).                                     *)
(*                                                                         *)
(* A probe reserves room and submits, or drops the event when there is     *)
(* none.  The read loop of main starts a goroutine per event, which waits  *)
(* for one of MaxSends slots, posts the event once and gives the slot back *)
(* however that ends.  The network may lose the request; the server may    *)
(* answer too late, and goes on with the request when the agent has given  *)
(* up.  On a signal main returns, and the process takes its goroutines and *)
(* the buffer with it.                                                     *)
(***************************************************************************)
EXTENDS Naturals, Sequences, FiniteSets

CONSTANTS
    Events,      \* the events the probes decide to record
    SelfEvents,  \* those of the agent itself: comm is "agent"
    Whitelisted, \* those sendEventToServer filters out
    RingCap,     \* events that fit into the ring buffer (256 KiB)
    MaxSends     \* capacity of sendSemaphore (50)

ASSUME CollectorAssumption ==
    /\ SelfEvents \subseteq Events /\ Whitelisted \subseteq Events
    /\ RingCap \in Nat \ {0} /\ MaxSends \in Nat \ {0}

VARIABLES
    agent,         \* the agent process: "running", "closing", "exited"
    ring,          \* the events map
    state,         \* what has become of each event
    sendSemaphore, \* the goroutines that hold a slot
    pending,       \* requests the server has received and not yet handled
    recorded       \* events the server has handled, in order

(* Variables no step reads. *)
VARIABLES
    posts,         \* how often each event was posted
    submitted,     \* the events that found room in the buffer, in order
    taken          \* the events the read loop has taken, in order

order == <<submitted, taken>>
vars  == <<agent, ring, state, sendSemaphore, pending, recorded, posts, order>>

(* "dropped": no room in the buffer; "skipped": the agent's own; "filtered":
   whitelisted; "answered" and "failed": how the one POST ended; "unseen" and
   "killed": the agent was not, or is no longer there. *)
Ended == {"dropped", "skipped", "filtered", "answered", "failed", "unseen",
          "killed"}
InGoroutine == {"started", "waiting", "posting"}
States == {"none", "buffered"} \cup InGoroutine \cup Ended

Init ==
    /\ agent = "running"
    /\ ring = <<>>
    /\ state = [e \in Events |-> "none"]
    /\ sendSemaphore = {}
    /\ pending = {}
    /\ recorded = <<>>
    /\ posts = [e \in Events |-> 0]
    /\ submitted = <<>>
    /\ taken = <<>>

Goto(e, from, to) ==
    /\ state[e] = from
    /\ state' = [state EXCEPT ![e] = to]

-----------------------------------------------------------------------------
SubmitUnbounded(e) == \* variant: the reservation is not checked
    /\ agent # "exited"
    /\ Goto(e, "none", "buffered")
    /\ ring' = Append(ring, e)
    /\ submitted' = Append(submitted, e)
    /\ UNCHANGED <<agent, sendSemaphore, pending, recorded, posts, taken>>

(* bpf_ringbuf_reserve and bpf_ringbuf_submit. *)
Submit(e) ==
    /\ agent # "exited"
    /\ Len(ring) < RingCap
    /\ Goto(e, "none", "buffered")
    /\ ring' = Append(ring, e)
    /\ submitted' = Append(submitted, e)
    /\ UNCHANGED <<agent, sendSemaphore, pending, recorded, posts, taken>>

(* The reservation fails: the probe returns 0 and nobody is told. *)
Drop(e) ==
    /\ agent # "exited"
    /\ Len(ring) >= RingCap
    /\ Goto(e, "none", "dropped")
    /\ UNCHANGED <<agent, ring, sendSemaphore, pending, recorded, posts, order>>

(* The probes are detached when the agent is gone. *)
Unseen(e) ==
    /\ agent = "exited"
    /\ Goto(e, "none", "unseen")
    /\ UNCHANGED <<agent, ring, sendSemaphore, pending, recorded, posts, order>>

ReadAll == \* variant: the agent's own events are not skipped
    /\ agent = "running"
    /\ ring # <<>>
    /\ ring' = Tail(ring)
    /\ Goto(Head(ring), "buffered", "started")
    /\ taken' = Append(taken, Head(ring))
    /\ UNCHANGED <<agent, sendSemaphore, pending, recorded, posts, submitted>>

ReadNewest == \* variant: the record before the producer's position is read
    LET last == Len(ring) IN
    /\ agent = "running"
    /\ ring # <<>>
    /\ ring' = SubSeq(ring, 1, last - 1)
    /\ Goto(ring[last], "buffered",
            IF ring[last] \in SelfEvents THEN "skipped" ELSE "started")
    /\ taken' = Append(taken, ring[last])
    /\ UNCHANGED <<agent, sendSemaphore, pending, recorded, posts, submitted>>

(* One turn of the read loop: the reader is not closed, the record decodes,
   and unless it is the agent's own a goroutine is started for it. *)
Read ==
    /\ agent = "running"
    /\ ring # <<>>
    /\ ring' = Tail(ring)
    /\ Goto(Head(ring), "buffered",
            IF Head(ring) \in SelfEvents THEN "skipped" ELSE "started")
    /\ taken' = Append(taken, Head(ring))
    /\ UNCHANGED <<agent, sendSemaphore, pending, recorded, posts, submitted>>

-----------------------------------------------------------------------------
(* sendEventToServer. *)
Alive == agent # "exited"

Filter(e) ==
    /\ Alive
    /\ Goto(e, "started", IF e \in Whitelisted THEN "filtered" ELSE "waiting")
    /\ UNCHANGED <<agent, ring, sendSemaphore, pending, recorded, posts, order>>

(* sendSemaphore <- struct{}{}: wait for a slot, then post. *)
Acquire(e) ==
    /\ Alive
    /\ Cardinality(sendSemaphore) < MaxSends
    /\ Goto(e, "waiting", "posting")
    /\ sendSemaphore' = sendSemaphore \cup {e}
    /\ posts' = [posts EXCEPT ![e] = @ + 1]
    /\ UNCHANGED <<agent, ring, pending, recorded, order>>

Release(e) == sendSemaphore' = sendSemaphore \ {e}

(* The response has come, whatever its status: other than 200 is logged. *)
Answered(e) ==
    /\ Alive
    /\ \E i \in DOMAIN recorded : recorded[i] = e
    /\ Goto(e, "posting", "answered")
    /\ Release(e)
    /\ UNCHANGED <<agent, ring, pending, recorded, posts, order>>

FailKeepingSlot(e) == \* variant: an early return without the release
    /\ Alive
    /\ Goto(e, "posting", "failed")
    /\ UNCHANGED <<agent, ring, sendSemaphore, pending, recorded, posts, order>>

FailRetrying(e) == \* variant: a failed POST is repeated
    /\ Alive
    /\ Goto(e, "posting", "waiting")
    /\ Release(e)
    /\ UNCHANGED <<agent, ring, pending, recorded, posts, order>>

(* The connection fails, or the client's timeout of 10 s expires while the
   request is under way, with the server, or answered too late. *)
Fail(e) ==
    /\ Alive
    /\ Goto(e, "posting", "failed")
    /\ Release(e)
    /\ UNCHANGED <<agent, ring, pending, recorded, posts, order>>

Goroutine(e) == Filter(e) \/ Acquire(e) \/ Answered(e) \/ Fail(e)

-----------------------------------------------------------------------------
(* The network delivers a posted request, possibly after the agent gave up. *)
Deliver(e) ==
    /\ posts[e] > Cardinality({i \in DOMAIN recorded : recorded[i] = e})
    /\ e \notin pending
    /\ pending' = pending \cup {e}
    /\ UNCHANGED <<agent, ring, state, sendSemaphore, recorded, posts, order>>

(* handleEvents (module Ingest); nothing cancels it when the agent leaves. *)
Handle(e) ==
    /\ e \in pending
    /\ pending' = pending \ {e}
    /\ recorded' = Append(recorded, e)
    /\ UNCHANGED <<agent, ring, state, sendSemaphore, posts, order>>

-----------------------------------------------------------------------------
(* SIGINT or SIGTERM: doClose closes the reader and then exitChan. *)
Signal ==
    /\ agent = "running"
    /\ agent' = "closing"
    /\ UNCHANGED <<ring, state, sendSemaphore, pending, recorded, posts, order>>

(* The read loop notices and main returns: the process ends with whatever its
   goroutines were doing and whatever the buffer still holds. *)
Exit ==
    /\ agent = "closing"
    /\ agent' = "exited"
    /\ ring' = <<>>
    /\ sendSemaphore' = {}
    /\ state' = [e \in Events |->
                    IF state[e] \in InGoroutine \cup {"buffered"}
                    THEN "killed" ELSE state[e]]
    /\ UNCHANGED <<pending, recorded, posts, order>>

Next ==
    \/ \E e \in Events :
          \/ Submit(e) \/ Drop(e) \/ Unseen(e)
          \/ Goroutine(e)
          \/ Deliver(e) \/ Handle(e)
    \/ Read
    \/ Signal
    \/ Exit

Spec == Init /\ [][Next]_vars

(* The scheduler runs every goroutine; a request ends, since the client has a
   timeout; goroutines waiting for a slot get it in their order. *)
Fairness ==
    /\ WF_vars(Read)
    /\ WF_vars(Exit)
    /\ \A e \in Events : WF_vars(Goroutine(e)) /\ SF_vars(Acquire(e))
    /\ \A e \in Events : WF_vars(Handle(e))

FairSpec == Spec /\ Fairness

-----------------------------------------------------------------------------
(* Every variable keeps its type; the buffer and the semaphore their limit. *)
TypeOK ==
    /\ agent \in {"running", "closing", "exited"}
    /\ ring \in Seq(Events) /\ Len(ring) <= RingCap
    /\ state \in [Events -> States]
    /\ sendSemaphore \in SUBSET Events
    /\ Cardinality(sendSemaphore) <= MaxSends
    /\ pending \in SUBSET Events
    /\ recorded \in Seq(Events)
    /\ posts \in [Events -> Nat]
    /\ submitted \in Seq(Events) /\ taken \in Seq(Events)

(* The slots taken are those of the goroutines that are posting: however a
   POST ends its slot comes back, and no goroutine posts without one. *)
SlotsAreOfSenders ==
    sendSemaphore = {e \in Events : state[e] = "posting"}

(* The server sees an event at most once, even one whose POST the agent took
   for failed: the request may have arrived, and the agent does not repeat
   it. *)
RecordedAtMostOnce ==
    \A i, j \in DOMAIN recorded : recorded[i] = recorded[j] => i = j

(* Nothing the agent does itself reaches the server, so the connections it
   makes to report events are not reported in turn, for ever. *)
NoFeedback ==
    \A i \in DOMAIN recorded : recorded[i] \notin SelfEvents \cup Whitelisted

(* While the agent lives, what was submitted is what it has taken and, after
   that, what still waits in the buffer: in the order of submission, with none
   missing in between and none twice; and what found no room is in neither. *)
RingIsBuffered ==
    /\ \A e \in Events :
          state[e] = "buffered" <=> \E i \in DOMAIN ring : ring[i] = e
    /\ Alive => submitted = taken \o ring
    /\ \A i \in DOMAIN submitted :
          /\ state[submitted[i]] \notin {"none", "dropped", "unseen"}
          /\ \A j \in DOMAIN submitted : submitted[i] = submitted[j] => i = j

(* Every event in the buffer comes to an end as long as the agent lives: it is
   read, and its goroutine gets a slot and loses it again, whatever the
   network and the server do. *)
EveryEventEnds ==
    \A e \in Events : state[e] = "buffered" ~> state[e] \in Ended

-----------------------------------------------------------------------------
(* What an outcome means.  An agent that was killed knows nothing of an event
   it had posted. *)
Status(e) ==
    CASE state[e] = "none" -> "new"
      [] state[e] \in {"buffered", "started", "waiting"} -> "open"
      [] state[e] = "posting" -> "posted"
      [] state[e] = "answered" -> "told"
      [] state[e] = "failed" -> "unsure"
      [] state[e] = "killed" -> IF posts[e] > 0 THEN "unsure" ELSE "lost"
      [] OTHER -> "lost"

Promise == INSTANCE Delivery WITH
    Reportable <- Events \ (SelfEvents \cup Whitelisted),
    status     <- [e \in Events |-> Status(e)],
    log        <- recorded

(* Buffer, goroutines, slots, timeouts, the network and the agent's exit
   together deliver each event at most once, and what the agent takes for
   the outcome of an event is what has become of it: one it gave up before
   sending never arrives, one it was told of has arrived. *)
DeliversAtMostOnce == Promise!Spec

=============================================================================
