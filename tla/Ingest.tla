------------------------------- MODULE Ingest -------------------------------
(***************************************************************************)
(* POST /api/events of the central server (src/server/main.go).            *)
(*                                                                         *)
(* net/http runs every request in a goroutine of its own, so handleEvents  *)
(* is split where it gives up control: the fingerprint lookup, the upsert, *)
(* the in-memory store, the buffered channel to the broadcaster and the    *)
(* reply are one action each, and any number of requests interleave        *)
(* between them.  A statement the database runs is atomic (SQLite).  The   *)
(* process may die between any two steps; the database survives, memory    *)
(* does not, and an agent whose request is cut off does not send it again. *)
(***************************************************************************)
EXTENDS Naturals, Sequences

CONSTANTS
    Reqs,        \* the POST requests agents send, each once
    Event,       \* Event[r]: the process event r carries, with its agent
    NoRow,       \* a fingerprint for which security_events has no row
    StoreLimit,  \* EventStore.limit (10000)
    ChanCap      \* capacity of broadcastChan (100)

(* The fields of an event that something here tells apart.  proc stands for
   pid, comm, uid and euid; peer for the addresses and ports; time for the
   timestamp; agent is the X-Agent-ID header. *)
ASSUME EventAssumption ==
    \A r \in Reqs : DOMAIN Event[r] =
        {"type", "proc", "filename", "filepath", "peer", "time", "agent"}

ASSUME BoundAssumption == StoreLimit \in Nat \ {0} /\ ChanCap \in Nat \ {0}

(* GenerateFingerprint hashes these fields and no others. *)
GenerateFingerprint(e) == <<e.type, e.proc, e.filename>>

Key(r) == GenerateFingerprint(Event[r])
Keys == {Key(r) : r \in Reqs}

(* The upsert of a fingerprint that has a row replaces only timestamp, risk
   level and the network columns: a row is the request its other columns came
   from (first) and the one that wrote these (last). *)
Row == [first : Reqs, last : Reqs]

ASSUME NoRowAssumption == NoRow \notin Row

-----------------------------------------------------------------------------
VARIABLES
    up,            \* the server process is running
    db,            \* security_events: the row of each fingerprint
    store,         \* EventStore.events
    broadcastChan, \* the queue between handleEvents and broadcastEvents
    pc             \* how far the handler of each request has come

(* Variables no step reads: what happened, for the properties to speak of. *)
VARIABLES
    before,       \* before[r]: requests answered "success" when r came in
    lookupFailed, \* requests whose lookup failed although a row may exist
    insertFailed, \* requests whose insert failed
    purged,       \* fingerprints whose row the cleanup task took last
    appended,     \* requests in the order AddEvent ran, this process' life
    delivered     \* requests broadcastEvents has taken, this process' life

history == <<before, lookupFailed, insertFailed, purged, appended, delivered>>
vars == <<up, db, store, broadcastChan, pc, before, lookupFailed,
          insertFailed, purged, appended, delivered>>

Answered == {"accepted", "duplicate"}             \* answered "success"
Final    == Answered \cup {"rejected", "lost"}
InFlight == {"received", "missed", "inserted", "stored", "sent"}
PC       == {"idle"} \cup InFlight \cup Final

Init ==
    /\ up = TRUE
    /\ db = [k \in Keys |-> NoRow]
    /\ store = <<>>
    /\ broadcastChan = <<>>
    /\ pc = [r \in Reqs |-> "idle"]
    /\ before = [r \in Reqs |-> {}]
    /\ lookupFailed = {}
    /\ insertFailed = {}
    /\ purged = {}
    /\ appended = <<>>
    /\ delivered = <<>>

Goto(r, from, to) ==
    /\ up
    /\ pc[r] = from
    /\ pc' = [pc EXCEPT ![r] = to]

-----------------------------------------------------------------------------
(* Not a POST, or a body that does not decode: 405 or 400, nothing touched. *)
Reject(r) ==
    /\ Goto(r, "idle", "rejected")
    /\ UNCHANGED <<up, db, store, broadcastChan, history>>

(* The body is decoded and the fingerprint computed. *)
Receive(r) ==
    /\ Goto(r, "idle", "received")
    /\ before' = [before EXCEPT ![r] = {q \in Reqs : pc[q] \in Answered}]
    /\ UNCHANGED <<up, db, store, broadcastChan, lookupFailed, insertFailed,
                   purged, appended, delivered>>

LookupHitUnchecked(r) == \* variant: no row is taken for a row
    /\ Goto(r, "received", "duplicate")
    /\ UNCHANGED <<up, db, store, broadcastChan, history>>

(* The fingerprint has a row: answered as a duplicate, nothing refreshed. *)
LookupHit(r) ==
    /\ db[Key(r)] # NoRow
    /\ Goto(r, "received", "duplicate")
    /\ UNCHANGED <<up, db, store, broadcastChan, history>>

LookupMissUnchecked(r) == \* variant: the lookup is not waited for
    /\ Goto(r, "received", "missed")
    /\ UNCHANGED <<up, db, store, broadcastChan, history>>

LookupMiss(r) ==
    /\ db[Key(r)] = NoRow
    /\ Goto(r, "received", "missed")
    /\ UNCHANGED <<up, db, store, broadcastChan, history>>

(* Any error of the query is taken for a miss (err == nil && ...). *)
LookupError(r) ==
    /\ Goto(r, "received", "missed")
    /\ lookupFailed' = lookupFailed \cup {r}
    /\ UNCHANGED <<up, db, store, broadcastChan, before, insertFailed,
                   purged, appended, delivered>>

(* InsertEvent: INSERT ... ON CONFLICT(fingerprint) DO UPDATE. *)
Upsert(row, r) ==
    [first |-> IF row = NoRow THEN r ELSE row.first, last |-> r]

InsertEvent(r) ==
    /\ Goto(r, "missed", "inserted")
    /\ db' = [db EXCEPT ![Key(r)] = Upsert(@, r)]
    /\ purged' = purged \ {Key(r)}
    /\ UNCHANGED <<up, store, broadcastChan, before, lookupFailed,
                   insertFailed, appended, delivered>>

(* A failed insert is logged and the handler goes on as if it had worked. *)
InsertError(r) ==
    /\ Goto(r, "missed", "inserted")
    /\ insertFailed' = insertFailed \cup {r}
    /\ UNCHANGED <<up, db, store, broadcastChan, before, lookupFailed,
                   purged, appended, delivered>>

TrimmedNewest(s) == \* variant: the wrong end is dropped
    IF Len(s) > StoreLimit THEN SubSeq(s, 1, StoreLimit) ELSE s

(* EventStore.AddEvent: append, then drop the oldest beyond the limit. *)
Trimmed(s) == IF Len(s) > StoreLimit THEN Tail(s) ELSE s

AddEvent(r) ==
    /\ Goto(r, "inserted", "stored")
    /\ store' = Trimmed(Append(store, r))
    /\ appended' = Append(appended, r)
    /\ UNCHANGED <<up, db, broadcastChan, before, lookupFailed, insertFailed,
                   purged, delivered>>

SendUnbounded(r) == \* variant: a channel without a limit
    /\ Goto(r, "stored", "sent")
    /\ broadcastChan' = Append(broadcastChan, r)
    /\ UNCHANGED <<up, db, store, history>>

SendOrSkip(r) == \* variant: select with a default, which drops the event
    /\ Goto(r, "stored", "sent")
    /\ broadcastChan' = IF Len(broadcastChan) < ChanCap
                        THEN Append(broadcastChan, r) ELSE broadcastChan
    /\ UNCHANGED <<up, db, store, history>>

SendUnbuffered(r) == \* variant: one place too few in the channel
    /\ Len(broadcastChan) < ChanCap - 1
    /\ Goto(r, "stored", "sent")
    /\ broadcastChan' = Append(broadcastChan, r)
    /\ UNCHANGED <<up, db, store, history>>

(* broadcastChan <- event: the handler waits while the buffer is full. *)
Send(r) ==
    /\ Len(broadcastChan) < ChanCap
    /\ Goto(r, "stored", "sent")
    /\ broadcastChan' = Append(broadcastChan, r)
    /\ UNCHANGED <<up, db, store, history>>

Reply(r) ==
    /\ Goto(r, "sent", "accepted")
    /\ UNCHANGED <<up, db, store, broadcastChan, history>>

-----------------------------------------------------------------------------
(* broadcastEvents takes the next event; what it does with it is the matter
   of WebSocketHub. *)
Broadcast ==
    /\ up
    /\ broadcastChan # <<>>
    /\ broadcastChan' = Tail(broadcastChan)
    /\ delivered' = Append(delivered, Head(broadcastChan))
    /\ UNCHANGED <<up, db, store, pc, before, lookupFailed, insertFailed,
                   purged, appended>>

(* The cleanup task deletes the rows whose created_at is before a day ago.
   Time is abstracted: any rows may have come of age. *)
Cleanup ==
    \E old \in SUBSET Keys :
        /\ up
        /\ old # {}
        /\ \A k \in old : db[k] # NoRow
        /\ db' = [k \in Keys |-> IF k \in old THEN NoRow ELSE db[k]]
        /\ purged' = purged \cup old
        /\ UNCHANGED <<up, store, broadcastChan, pc, before, lookupFailed,
                       insertFailed, appended, delivered>>

(* The process dies: requests in flight are cut off, memory is gone. *)
Crash ==
    /\ up
    /\ up' = FALSE
    /\ pc' = [r \in Reqs |-> IF pc[r] \in InFlight THEN "lost" ELSE pc[r]]
    /\ store' = <<>>
    /\ broadcastChan' = <<>>
    /\ appended' = <<>>
    /\ delivered' = <<>>
    /\ UNCHANGED <<db, before, lookupFailed, insertFailed, purged>>

(* NewServer opens the same database; the store starts empty. *)
Restart ==
    /\ ~up
    /\ up' = TRUE
    /\ UNCHANGED <<db, store, broadcastChan, pc, history>>

(* Connection refused: the agent logs it and drops the event. *)
Refuse(r) ==
    /\ ~up
    /\ pc[r] = "idle"
    /\ pc' = [pc EXCEPT ![r] = "lost"]
    /\ UNCHANGED <<up, db, store, broadcastChan, history>>

-----------------------------------------------------------------------------
Handle(r) ==
    \/ LookupHit(r)
    \/ LookupMiss(r)
    \/ LookupError(r)
    \/ InsertEvent(r)
    \/ InsertError(r)
    \/ AddEvent(r)
    \/ Send(r)
    \/ Reply(r)

Next ==
    \/ \E r \in Reqs : Reject(r) \/ Receive(r) \/ Handle(r) \/ Refuse(r)
    \/ Broadcast
    \/ Cleanup
    \/ Crash
    \/ Restart

Spec == Init /\ [][Next]_vars

(* The Go scheduler runs every runnable goroutine.  That the broadcaster
   always comes back for the next event is assumed here: it holds as long as
   no client stalls it (WebSocketHub). *)
Fairness ==
    /\ \A r \in Reqs : WF_vars(Handle(r))
    /\ WF_vars(Broadcast)

FairSpec == Spec /\ Fairness

-----------------------------------------------------------------------------
IsSeqOf(s, n) == s \in Seq(Reqs) /\ Len(s) <= n

(* Every variable keeps its type; the store and the channel their limits. *)
TypeOK ==
    /\ up \in BOOLEAN
    /\ db \in [Keys -> Row \cup {NoRow}]
    /\ IsSeqOf(store, StoreLimit)
    /\ IsSeqOf(broadcastChan, ChanCap)
    /\ pc \in [Reqs -> PC]
    /\ before \in [Reqs -> SUBSET Reqs]
    /\ lookupFailed \in SUBSET Reqs
    /\ insertFailed \in SUBSET Reqs
    /\ purged \in SUBSET Keys
    /\ appended \in Seq(Reqs)
    /\ delivered \in Seq(Reqs)

(* An event the server answered "success" for, as new or as a duplicate, has
   a row in the database, across crashes and restarts, unless its own insert
   failed (which the answer does not tell) or the cleanup took the row. *)
AnsweredIsRecorded ==
    \A r \in Reqs :
        pc[r] \in Answered =>
            \/ db[Key(r)] # NoRow
            \/ r \in insertFailed
            \/ Key(r) \in purged

(* Lookup and insert are two statements, so two requests of one fingerprint
   may both be processed as new; but only if they overlap in time.  A request
   received after another of its fingerprint was answered is processed again
   only when its lookup fails, the other's insert failed, or the cleanup has
   taken the row and none has been written since. *)
NoSerialReprocessing ==
    [][\A s \in Reqs :
          (pc[s] = "received" /\ pc'[s] = "missed" /\ s \notin lookupFailed')
              => \A r \in before[s] : Key(r) = Key(s) =>
                    r \in insertFailed \/ Key(s) \in purged]_vars

(* A row whose columns come from two events was written by requests that
   overlapped, or by one whose lookup failed: no request that was received
   after the row's first event had been answered ever rewrites a part of it. *)
MixedRowNeedsRace ==
    \A k \in Keys :
        db[k] # NoRow =>
            \/ db[k].last = db[k].first
            \/ db[k].last \in lookupFailed
            \/ db[k].first \notin before[db[k].last]

Newest(s) ==
    LET n == Len(s)
    IN  IF n > StoreLimit THEN SubSeq(s, n - StoreLimit + 1, n) ELSE s

(* The store always shows the last StoreLimit events, in the order AddEvent
   saw them, with none missing in between. *)
StoreIsRecentHistory == store = Newest(appended)

Feed == delivered \o broadcastChan

(* Every event added to the store reaches the broadcaster exactly once: its
   handler is still waiting to send it, or it is in the channel, or it has
   been taken, and never two of these; and nothing else is ever sent. *)
ExactlyOnceFeed ==
    /\ \A i, j \in DOMAIN Feed : Feed[i] = Feed[j] => i = j
    /\ \A r \in Reqs :
          (\E i \in DOMAIN appended : appended[i] = r) <=>
              ((\E i \in DOMAIN Feed : Feed[i] = r) \/ pc[r] = "stored")
    /\ \A i \in DOMAIN Feed : pc[Feed[i]] \in {"sent", "accepted"}

(* Every request received is answered, or cut off by a crash: no handler
   waits for the channel for ever as long as the broadcaster drains it. *)
EveryRequestEnds ==
    \A r \in Reqs : pc[r] = "received" ~> pc[r] \in Final

-----------------------------------------------------------------------------
(* What the repository says and the code does not do: a run of its own finds
   a behaviour that breaks it. *)

(* risk_analyzer.go:395, "the same event within 5 minutes is deduplicated": an
   event is dropped as a duplicate only of one of its own host, that names the
   same file and the same peer and is not older than the window. *)
DedupWindow == 300

IsSameEvent(e, f) ==
    /\ e.agent = f.agent
    /\ e.filepath = f.filepath /\ e.peer = f.peer
    /\ e.time < f.time + DedupWindow

DuplicateIsTheSameEvent ==
    [][\A r \in Reqs : (pc[r] = "received" /\ pc'[r] = "duplicate") =>
          IsSameEvent(Event[r], Event[db[Key(r)].first])]_vars
=============================================================================
