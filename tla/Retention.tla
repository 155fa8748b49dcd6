------------------------------ MODULE Retention ------------------------------
(***************************************************************************)
(* The table security_events in time: what InsertEvent writes into it,     *)
(* what the cleanup task deletes from it (src/server/main.go 542-575,      *)
(* src/server/database.go), and when.                                      *)
(*                                                                         *)
(* created_at is the text of CURRENT_TIMESTAMP, which is UTC.  The limit   *)
(* DeleteOldEvents compares it with is bound as the text of a time.Time in *)
(* the server's zone, "2006-01-02 15:04:05.999999999-07:00".  SQLite       *)
(* compares the two as texts, so the limit is off by the zone, and a row   *)
(* of the limit's own second goes too: its text is shorter.                *)
(***************************************************************************)
EXTENDS Integers

CONSTANTS
    Keys,    \* the fingerprints
    Risks,   \* the risk levels
    RiskAt,  \* RiskAt[k][t]: the level of the event of k evaluated at t
    Lag,     \* Lag[k]: how old an event of k is when the server gets it
    Zones,   \* offsets of the zones a server may run in
    Day,     \* 24 hours: both the age limit and the period of the task
    MaxNow,  \* bound: the clock stops here
    NoRow

ASSUME TimeAssumption ==
    /\ Day \in Nat \ {0}
    /\ MaxNow \in Nat
    /\ RiskAt \in [Keys -> [0 .. MaxNow -> Risks]]
    /\ Lag \in [Keys -> Nat]
    /\ Zones \subseteq (1 - Day) .. (Day - 1)

(* The columns an upsert writes: the others are those of the key (Ingest says
   of which event). *)
Row == [ts : Int, created : Nat, risk : Risks]

ASSUME NoRowIsNoRow == NoRow \notin Row

VARIABLES
    now,         \* the time, UTC
    zone,        \* offset of the server's zone
    up,          \* the server process is running
    nextCleanup, \* when the cleanup task runs next
    rows         \* security_events

(* Variables no step reads: what happened, for the properties to speak of. *)
VARIABLES
    written,     \* when the row there is of each key was last written
    skipped      \* the last cleanup of this process failed

clock == <<now, zone, up, nextCleanup>>
tvars == <<now, zone, up, nextCleanup, rows, written, skipped>>

Present == {k \in Keys : rows[k] # NoRow}

TInit ==
    /\ now = 0
    /\ zone \in Zones
    /\ up = TRUE
    /\ nextCleanup = 0
    /\ rows = [k \in Keys |-> NoRow]
    /\ written = [k \in Keys |-> 0]
    /\ skipped = FALSE

-----------------------------------------------------------------------------
UpsertKeepsCreated(k) == \* variant: created_at is left alone
    [ts |-> now - Lag[k], risk |-> RiskAt[k][now],
     created |-> IF rows[k] = NoRow THEN now ELSE rows[k].created]

(* The row after InsertEvent, new or not: the event's time is the agent's,
   created_at the default of the column or set by the upsert. *)
Upsert(k) ==
    [ts |-> now - Lag[k], created |-> now, risk |-> RiskAt[k][now]]

(* A row that exists is written again after a race or a failed lookup
   (Ingest). *)
InsertEvent(k) ==
    /\ up
    /\ rows' = [rows EXCEPT ![k] = Upsert(k)]
    /\ written' = [written EXCEPT ![k] = now]
    /\ UNCHANGED <<clock, skipped>>

(* The limit's text, read as if it were UTC. *)
BeforeTime == now - Day + zone

OldEvents == {k \in Present : rows[k].created <= BeforeTime}

(* cleanupOldEvents: at the start of the process, then with every tick. *)
Cleanup ==
    /\ up
    /\ now >= nextCleanup
    /\ rows' = [k \in Keys |-> IF k \in OldEvents THEN NoRow ELSE rows[k]]
    /\ written' = [k \in Keys |-> IF k \in OldEvents THEN 0 ELSE written[k]]
    /\ nextCleanup' = now + Day
    /\ skipped' = FALSE
    /\ UNCHANGED <<now, zone, up>>

(* The statement fails: logged, and tried again with the next tick. *)
CleanupError ==
    /\ up
    /\ now >= nextCleanup
    /\ nextCleanup' = now + Day
    /\ skipped' = TRUE
    /\ UNCHANGED <<now, zone, up, rows, written>>

(* Time passes.  A cleanup that is due runs before the next tick: a tick is
   long against a statement. *)
Tick ==
    /\ now < MaxNow
    /\ up => now < nextCleanup
    /\ now' = now + 1
    /\ UNCHANGED <<zone, up, nextCleanup, rows, written, skipped>>

Crash ==
    /\ up
    /\ up' = FALSE
    /\ UNCHANGED <<now, zone, nextCleanup, rows, written, skipped>>

RestartLate == \* variant: a ticker alone, without a cleanup at the start
    /\ ~up
    /\ up' = TRUE
    /\ nextCleanup' = now + Day
    /\ skipped' = FALSE
    /\ UNCHANGED <<now, zone, rows, written>>

(* main starts the task anew: its first cleanup is due at once. *)
Restart ==
    /\ ~up
    /\ up' = TRUE
    /\ nextCleanup' = now
    /\ skipped' = FALSE
    /\ UNCHANGED <<now, zone, rows, written>>

TNext ==
    \/ \E k \in Keys : InsertEvent(k)
    \/ Cleanup
    \/ CleanupError
    \/ Tick
    \/ Crash
    \/ Restart

-----------------------------------------------------------------------------
TableTypeOK ==
    /\ now \in 0 .. MaxNow
    /\ zone \in Zones
    /\ up \in BOOLEAN
    /\ nextCleanup \in 0 .. MaxNow + Day
    /\ rows \in [Keys -> Row \cup {NoRow}]
    /\ written \in [Keys -> 0 .. MaxNow]
    /\ skipped \in BOOLEAN

(* A row is never deleted before a day has passed since its last event, up to
   the zone: a server east of Greenwich deletes earlier by its offset, one
   west of it later.  An event that comes again starts the day anew. *)
KeptADay ==
    [][\A k \in Keys : (rows[k] # NoRow /\ rows'[k] = NoRow) =>
          now - written[k] >= Day - zone]_tvars

(* While the server runs and its cleanups succeed no row stays longer than
   two days after its last event, again up to the zone, however often the
   process was restarted and however long it was down. *)
GoneAfterTwoDays ==
    (up /\ now < nextCleanup /\ ~skipped) =>
        \A k \in Present : now - written[k] < 2 * Day - zone
=============================================================================
