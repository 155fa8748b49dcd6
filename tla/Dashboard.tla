------------------------------ MODULE Dashboard ------------------------------
(***************************************************************************)
(* The list of events in a dashboard (src/server/static/dashboard.html).   *)
(*                                                                         *)
(* The page never puts a message of the feed into its list: a message      *)
(* restarts a timer, and the timer fetches the newest events that match    *)
(* the filter.  Fetches run side by side and their answers come in any     *)
(* order.  Of the server only what a page can notice is here: rows that    *)
(* come and go, and that an event is announced (put into the store and     *)
(* broadcast, or part of the greeting) after its row is written.           *)
(***************************************************************************)
EXTENDS Sessions

CONSTANTS
    Events,
    Row,         \* Row[e]: what a page is told of an event
    Early,       \* the events recorded when the page is loaded
    Levels,      \* ranks of risk levels
    All,         \* the filter that lets everything through
    Limit,       \* how many events a fetch asks for (100)
    MaxFetches,  \* connections a browser opens to one host
    MaxChanges,  \* bound: how often the user changes the filter
    None

Filters == Levels \cup {All}

ASSUME EventsAssumption == IsFiniteSet(Events) /\ Early \subseteq Events
ASSUME RowAssumption == Row \in [Events -> ListEvent]
ASSUME LevelsAssumption == Levels \subseteq Nat /\ All \notin Levels
ASSUME NoneAssumption == \A S \in SUBSET Events : None # S
ASSUME LimitAssumption ==
    Limit \in Nat /\ MaxChanges \in Nat /\ MaxFetches \in Nat

VARIABLES
    db,         \* events with a row
    coming,     \* events whose request has yet to reach the server
    toAnnounce, \* events past InsertEvent, not yet in store and channel
    store,      \* EventStore of the server
    ws,         \* the page's WebSocket
    notices,    \* messages in it
    timer,      \* wsMessageTimeout is set
    filter,     \* what the user has chosen
    fetches,    \* requests under way, oldest first
    shown,      \* what eventsList tells: "loading", "failed" or a "list"
    card,       \* the events of that list
    current,    \* currentEvents; None is null
    view,       \* currentView
    table,      \* the rows of the table, while it is seen
    changes,    \* changes of the filter so far
    stale       \* the answer shown is older than one that was there before

server == <<db, coming, toAnnounce, store>>
feed   == <<ws, notices, timer>>
screen == <<shown, card, current, view, table>>
vars   == <<server, feed, filter, fetches, screen, changes, stale>>

-----------------------------------------------------------------------------
Matches(e, f) == f = All \/ Row[e].risk = f

Matching(S, f) == {e \in S : Matches(e, f)}

Newer(d, e) == Row[d].ts > Row[e].ts

(* GetEvents: WHERE risk_level = ? ORDER BY timestamp DESC LIMIT ?.  Which of
   the rows of one time the limit cuts off is the database's choice. *)
GetEvents(S, f) ==
    {answer \in SUBSET Matching(S, f) :
        /\ Cardinality(answer) <= Limit
        /\ answer # Matching(S, f) => Cardinality(answer) = Limit
        /\ \A e \in answer : \A d \in Matching(S, f) \ answer : ~Newer(d, e)}

FetchAll(f) == \* variant: the filter left out
    [filter |-> All, answer |-> None, late |-> FALSE]

Fetch(f) == [filter |-> f, answer |-> None, late |-> FALSE]

(* applyFilters: a fetch that knows nothing of the ones under way. *)
applyFilters(f) ==
    /\ Len(fetches) < MaxFetches
    /\ fetches' = Append(fetches, Fetch(f))

(* The page has been loaded: its socket connects, its first fetch is out. *)
Init ==
    /\ db = Early
    /\ coming = Events \ Early
    /\ toAnnounce = {}
    /\ store \in SUBSET db
    /\ ws = "connecting"
    /\ notices = 0
    /\ timer = FALSE
    /\ filter = All
    /\ fetches = <<Fetch(All)>>
    /\ shown = "loading"
    /\ card = {}
    /\ current = {}
    /\ view = "card"
    /\ table = {}
    /\ changes = 0
    /\ stale = FALSE

-----------------------------------------------------------------------------
(* The server. *)
Record(e) ==
    /\ e \in coming
    /\ coming' = coming \ {e}
    /\ db' = db \cup {e}
    /\ toAnnounce' = toAnnounce \cup {e}
    /\ UNCHANGED <<store, feed, filter, fetches, screen, changes, stale>>

(* A failed insert is announced all the same (Ingest). *)
RecordError(e) ==
    /\ e \in coming
    /\ coming' = coming \ {e}
    /\ toAnnounce' = toAnnounce \cup {e}
    /\ UNCHANGED <<db, store, feed, filter, fetches, screen, changes,
                   stale>>

Announce(e) ==
    /\ e \in toAnnounce
    /\ toAnnounce' = toAnnounce \ {e}
    /\ store' = store \cup {e}
    /\ notices' = IF ws = "open" THEN notices + 1 ELSE notices
    /\ UNCHANGED <<db, coming, ws, timer, filter, fetches, screen,
                   changes, stale>>

(* The cleanup takes the rows that were written long ago, in one statement,
   and tells nobody.  When a row was written is the server's time, the list is
   ordered by the agents': any rows may go. *)
DeleteOldEvents ==
    /\ \E old \in SUBSET db : db' = db \ old
    /\ db' # db
    /\ UNCHANGED <<coming, toAnnounce, store, feed, filter, fetches,
                   screen, changes, stale>>

ConnectUngreeted == \* variant: no greeting
    /\ ws = "connecting"
    /\ ws' = "open"
    /\ UNCHANGED <<server, notices, timer, filter, fetches, screen, changes,
                   stale>>

(* The server registers the page and greets it with what the store holds. *)
Connect ==
    /\ ws = "connecting"
    /\ ws' = "open"
    /\ notices' = Cardinality(store)
    /\ UNCHANGED <<server, timer, filter, fetches, screen, changes, stale>>

(* onclose says so and does nothing else. *)
Disconnect ==
    /\ ws # "closed"
    /\ ws' = "closed"
    /\ notices' = 0
    /\ UNCHANGED <<server, timer, filter, fetches, screen, changes, stale>>

-----------------------------------------------------------------------------
(* The page. *)
(* ws.onmessage: the timer starts again from 300 ms. *)
OnMessage ==
    /\ notices > 0
    /\ notices' = notices - 1
    /\ timer' = TRUE
    /\ UNCHANGED <<server, ws, filter, fetches, screen, changes, stale>>

Expire ==
    /\ timer
    /\ timer' = FALSE
    /\ applyFilters(filter)
    /\ UNCHANGED <<server, ws, notices, filter, screen, changes, stale>>

ChooseNothing == \* variant: the choice of "all" clears the filter instead
    \E f \in Levels \cup {None} :
        /\ changes < MaxChanges
        /\ changes' = changes + 1
        /\ filter' = f
        /\ applyFilters(f)
        /\ UNCHANGED <<server, feed, screen, stale>>

(* The user chooses a filter, or the mode of the list, which fetches too. *)
Choose ==
    \E f \in Filters :
        /\ changes < MaxChanges
        /\ changes' = changes + 1
        /\ filter' = f
        /\ applyFilters(f)
        /\ UNCHANGED <<server, feed, screen, stale>>

(* The server answers a fetch; the answer is on its way. *)
Query(i) ==
    /\ fetches[i].answer = None
    /\ \E answer \in GetEvents(db, fetches[i].filter) :
          fetches' = [fetches EXCEPT ![i].answer = answer]
    /\ UNCHANGED <<server, feed, filter, screen, changes, stale>>

(* The fetches before the one that ends have been overtaken by it. *)
Without(i) ==
    [j \in 1 .. Len(fetches) - 1 |->
        IF j < i THEN [fetches[j] EXCEPT !.late = TRUE] ELSE fetches[j + 1]]

DisplayCardOnly(i) == \* variant: the table is not rendered again
    /\ current' = fetches[i].answer
    /\ shown' = "list"
    /\ card' = fetches[i].answer
    /\ UNCHANGED table

(* displayEvents.  No rows are null in JSON: the list says that there are no
   events, and the table throws, which leaves it empty and is taken for a
   failed fetch. *)
Display(i) ==
    LET events == fetches[i].answer IN
    /\ current' = IF events = {} THEN None ELSE events
    /\ shown' = IF events = {} /\ view = "table" THEN "failed" ELSE "list"
    /\ card' = events
    /\ table' = IF view = "table" THEN events ELSE table

Settle(i) ==
    /\ fetches[i].answer # None
    /\ Display(i)
    /\ fetches' = Without(i)
    /\ stale' = fetches[i].late
    /\ UNCHANGED <<server, feed, filter, view, changes>>

(* The fetch fails, or its answer is an error and no JSON. *)
FetchError(i) ==
    /\ shown' = "failed"
    /\ card' = {}
    /\ fetches' = Without(i)
    /\ stale' = fetches[i].late
    /\ UNCHANGED <<server, feed, filter, current, view, table, changes>>

SwitchView(v) ==
    /\ v # view
    /\ view' = v
    /\ table' = IF v = "card" \/ current = None THEN {} ELSE current
    /\ UNCHANGED <<server, feed, filter, fetches, shown, card, current, changes,
                   stale>>

Complete(i) == Query(i) \/ Settle(i) \/ FetchError(i)

Next ==
    \/ \E e \in Events : Record(e) \/ RecordError(e) \/ Announce(e)
    \/ DeleteOldEvents
    \/ Connect
    \/ Disconnect
    \/ OnMessage
    \/ Expire
    \/ Choose
    \/ \E i \in DOMAIN fetches : Complete(i)
    \/ \E v \in {"card", "table"} : SwitchView(v)

Spec == Init /\ [][Next]_vars

(* The server's handlers run, messages travel, and a fetch ends or fails.
   The timer of 300 ms expires because the events of a behaviour are finitely
   many: a stream without a pause would restart it for ever. *)
Fairness ==
    /\ \A e \in Events : WF_vars(Announce(e))
    /\ WF_vars(Connect)
    /\ WF_vars(OnMessage)
    /\ WF_vars(Expire)
    /\ WF_vars(fetches # <<>> /\ Complete(1))

FairSpec == Spec /\ Fairness

-----------------------------------------------------------------------------
TypeOK ==
    /\ db \in SUBSET Events
    /\ coming \in SUBSET Events
    /\ toAnnounce \in SUBSET Events
    /\ store \in SUBSET Events
    /\ ws \in {"connecting", "open", "closed"}
    /\ notices \in Nat
    /\ timer \in BOOLEAN
    /\ filter \in Filters
    /\ fetches \in Seq([filter : Filters, answer : {None} \cup SUBSET Events,
                        late : BOOLEAN])
    /\ shown \in {"loading", "failed", "list"}
    /\ card \in SUBSET Events
    /\ current \in {None} \cup SUBSET Events
    /\ view \in {"card", "table"}
    /\ table \in SUBSET Events
    /\ changes \in 0 .. MaxChanges
    /\ stale \in BOOLEAN

Listed == shown = "list"

(* Nothing is under way between the database and the screen. *)
Quiet ==
    /\ ws = "open" /\ toAnnounce = {} /\ notices = 0
    /\ ~timer /\ fetches = <<>>

(* A list of events does without one only when it is full of events that are
   no older. *)
NotMissedBy(e, list) ==
    e \in list \/ (Cardinality(list) = Limit /\ \A d \in list : ~Newer(e, d))

Fresh(list) ==
    /\ \A e \in list : Matches(e, filter)
    /\ \A e \in Matching(db, filter) : NotMissedBy(e, list)

(* The list of a connected dashboard for which nothing is under way misses
   none of the newest events that match the filter the user sees, and has
   none that does not match: no event slips through between the first fetch
   and the connection, or between a fetch and the next message.  A row that
   was deleted keeps its place until the next fetch.  What can break it is an
   answer that was overtaken by a newer one, or a failure, which the list
   says. *)
NewestAreShown == (Quiet /\ Listed /\ ~stale) => Fresh(card)

(* Both views show the same events, whichever was open when they came. *)
TableShowsList == (view = "table" /\ Listed) => table = card

(* While a page stays connected every event recorded ends up in its list,
   unless events that are no older fill it, the filter keeps it out, the last
   fetch failed, or an overtaken answer hides it. *)
EveryEventIsShown ==
    \A e \in Events : <>[](e \in Matching(db, filter) =>
        (NotMissedBy(e, card) \/ shown = "failed" \/ stale \/ ws = "closed"))

(* The list shown, in whatever order it came, is cut into sessions without
   loss: each event is in one of them, with the first of its session in its
   window and related to it, and in the earliest that has room for it; a
   session shows its highest level. *)
SessionsAreRight ==
    Listed => \A order \in SetToSeqs(card) :
                  IsCutRight([i \in DOMAIN order |-> Row[order[i]]])
=============================================================================
