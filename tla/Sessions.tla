------------------------------ MODULE Sessions ------------------------------
(***************************************************************************)
(* aggregateEvents of src/server/static/dashboard.html: how the list of    *)
(* the dashboard is cut into sessions.  Events are told apart by their     *)
(* ids, which the database gives once: here by their places in the sorted  *)
(* list.  A session is the set of the places of its events; sessions come  *)
(* in the order of their first events.                                     *)
(***************************************************************************)
EXTENDS Integers, FiniteSets, SequencesExt

TIME_WINDOW == 5

(* NONE, LOW, MEDIUM, HIGH. *)
riskPriority == 0 .. 3

(* An event: its process, its time (in seconds) and the rank of its risk. *)
ListEvent ==
    [id : Nat, pid : Nat, ppid : Nat, ts : Nat, risk : riskPriority]

(* [...events].sort((a, b) => b.timestamp - a.timestamp): newest first, and
   events of one time stay in their order. *)
NotAfter(events, i) ==
    {j \in DOMAIN events : \/ events[j].ts > events[i].ts
                           \/ events[j].ts = events[i].ts /\ j <= i}

Place(events, i) == Cardinality(NotAfter(events, i))

SortedEvents(events) ==
    [n \in DOMAIN events |->
        events[CHOOSE i \in DOMAIN events : Place(events, i) = n]]

IsRelatedByPid(e, o) == \* variant: the same process and its parent only
    e.pid = o.pid \/ e.ppid = o.pid

IsRelated(e, o) ==
    \/ e.ppid = o.ppid
    \/ e.pid = o.ppid
    \/ o.pid = e.ppid
    \/ e.pid = o.pid

InTime(e, o) == e.ts - o.ts <= TIME_WINDOW /\ o.ts - e.ts <= TIME_WINDOW

(* The inner loop: of the events after the i-th that no session has, those
   related to it, up to the first that is out of the window, where it breaks. *)
Companions(sorted, i, used) ==
    {j \in i + 1 .. Len(sorted) :
        /\ j \notin used
        /\ IsRelated(sorted[i], sorted[j])
        /\ \A k \in i + 1 .. j : k \in used \/ InTime(sorted[i], sorted[k])}

(* The outer loop's body: a session for an event that no earlier one has. *)
WithSessionOf(sorted, i, sessions) ==
    LET used == UNION sessions IN
    IF i \in used THEN sessions
    ELSE sessions \cup {{i} \cup Companions(sorted, i, used)}

(* The sessions after the first n events. *)
SessionsUpTo(sorted) ==
    LET sessions[n \in 0 .. Len(sorted)] ==
            IF n = 0 THEN {} ELSE WithSessionOf(sorted, n, sessions[n - 1])
    IN  sessions

aggregateEvents(events) == SessionsUpTo(SortedEvents(events))[Len(events)]

getHighestRiskLevel(events) ==
    CHOOSE level \in {0} \cup {e.risk : e \in events} :
        \A e \in events : e.risk <= level

-----------------------------------------------------------------------------
(* An event that belongs in the session of an event as new or newer. *)
Joins(e, first) ==
    /\ first.ts - e.ts \in 0 .. TIME_WINDOW
    /\ \/ first.ppid \in {e.ppid, e.pid}
       \/ first.pid \in {e.ppid, e.pid}

(* A list is cut into sessions without loss: each event is in one of them and
   in no other, each session has a first event, with those in the window
   before it that are related to it, no event of a later session belongs
   there, and the level it shows is its highest. *)
IsCutRight(list) ==
    LET sorted   == SortedEvents(list)
        sessions == aggregateEvents(list)
        level(s) == getHighestRiskLevel({sorted[j] : j \in s})
    IN  /\ ToSet(sorted) = ToSet(list)
        /\ UNION sessions = DOMAIN list
        /\ \A s, t \in sessions : s # t => s \cap t = {}
        /\ \A s \in sessions :
              /\ \E i \in s :
                    /\ \A j \in s : i <= j /\ Joins(sorted[j], sorted[i])
                    /\ \A t \in sessions :
                          (\A j \in t : i < j) =>
                              \A j \in t : ~Joins(sorted[j], sorted[i])
              /\ \E j \in s : sorted[j].risk = level(s)
              /\ \A j \in s : sorted[j].risk <= level(s)
=============================================================================
