# A verification of the eBPF process monitor

The repository is a monitor of privileged processes. eBPF programs in the kernel
(`src/kernel/process_monitor.bpf.c`) see system calls and write events to a ring
buffer; an agent on every host (`src/agent/main.go`) reads them and posts them
over HTTP; a central server (`src/server/*.go`) deduplicates, rates, stores and
broadcasts them to dashboards (`src/server/static/dashboard.html`) over WebSocket.

This directory holds TLA+ modules of that way, TLC configurations that check them
on small instances, proofs that TLAPS checks for every instance, and
`PROJECT.json`, which lists for every definition the lines it is translated from.

## 1. Inventory

| Component | State | Operations | What is hard | What makes it correct |
|---|---|---|---|---|
| eBPF probes (`process_monitor.bpf.c`) | the `events` ring buffer | one program per hook: execve, setuid, `task_fix_setuid`, `file_permission`, openat, connect, (bind, exit: compiled, not attached) | run in any context, memory reserved and not cleared, buffer full, the hook's arguments | what is recorded is what happened, and unwritten bytes decide nothing |
| Agent (`agent/main.go`) | the ring reader, `sendSemaphore` (50), one goroutine per event | read, skip own, filter, acquire, post, release, shut down | timeout against late answers, exit with goroutines in flight, slots, feedback of its own connections | each event once at most, slots come back, no feedback, what is dropped is harmless |
| Event ingest (`handleEvents`) | `security_events` rows by fingerprint | lookup, evaluate, upsert, `AddEvent`, channel send, reply | one goroutine per request, lookup and insert apart, failing statements, crash between steps | answered means recorded; serial repetitions are not processed again; no row mixes events but by a race |
| EventStore | the newest 10000 events | `AddEvent`, `GetRecentEvents` | eviction, order against the channel | it shows the newest events without a hole |
| WebSocket feed | `clients` under `clientsMutex`, `broadcastChan` (100), one goroutine per dashboard and the broadcaster | register, snapshot, greet, read, unregister; receive, range, write, drop | a lock given up inside a range loop, two writers, a peer that does not read, panic | no hole in a dashboard's feed, map never changed under the loop, every event gets through |
| Deduplicator | none (`timeWindow` is unused) | `GenerateFingerprint` | what the fingerprint leaves out | a duplicate is the same event |
| Risk analyzer | the whitelist | `Evaluate` | rules that override the sum, three classifications by name in three layers | dangerous events end up HIGH, flags and hours never lower a level |
| Retention | `created_at` of rows | cleanup at start and every 24 h | time zones, failing cleanups, restarts, events that come again | rows stay a day, and go after two |
| Queries, timeline, forensic report, statistics | none (read the rows) | filters, time windows, related processes, report | several statements without a transaction, errors that end a list unseen, windows | a report holds the events it claims to, and its numbers agree with its list |
| Dashboard | its list, filter, view, timer, fetches under way | first fetch, feed, timer, filter, card and table view, sessions | answers and feed out of order, a feed that restarts the timer, failures | the list shows what the server has, in both views, without loss |
| Whitelist file | two lists | load, fall back, reload | failure half way | a failed load leaves the old list or the built-in one |
| Deployment scripts | remote hosts | copy, install, start | partial failure | out of scope except for their order |

The components meet in six places: the ring buffer (`Collector`), the bytes of
`struct process_event` (`EventLayout`), `POST /api/events` (`Collector.Handle` is
the whole of `Ingest`), `broadcastChan` (`Ingest.Broadcast` is the whole of
`WebSocketHub`'s broadcaster; the last two steps of `handleEvents` are in both),
the table `security_events` (`Ingest` writes it for one moment in time, `Retention`
in time, `Forensics` reads it while `Retention` changes it), and what a page sees
of the server (`Dashboard` has the row, the store and the message of an event as
three steps in the order `Ingest` proves them in).

## 2. Modules

| Module | Models | Remarks |
|---|---|---|
| `Ingest` | `handleEvents`, `EventStore.AddEvent`, the SQL it runs, cleanup, crash and restart | the core; proved about in `Ingest_proofs` |
| `WebSocketHub` | `handleWebSocket`, `broadcastEvents`, `clients`, `clientsMutex` | implements `Feed` |
| `Feed` | nothing by itself: what the live feed promises a dashboard | an abstract specification |
| `Collector` | ring buffer, read loop, `sendEventToServer`, shutdown | implements `Delivery` |
| `Delivery` | nothing by itself: what the way from probe to server promises | an abstract specification |
| `Programs` | how each layer classifies a `comm` and a path | tables: the names are representatives of what the string comparisons tell apart |
| `RiskAnalyzer` | `Evaluate` | pure operators; `now` is the hour |
| `EventLayout` | offsets of the C struct and of `binary.Read`, writing and reading the bytes in between | recursive functions over the field list |
| `KernelProbes` | each eBPF program: condition and event | |
| `AgentFilter` | decoding and filtering | |
| `Detection` | one system call from the probe to its level | composes the five above |
| `Retention` | `security_events` in time: upsert, `created_at`, the cleanup task, restarts | |
| `Forensics` | the report, the timeline of an escalation and the statistics, one action per SQL statement | extends `Retention` |
| `Sessions` | `aggregateEvents`, `getHighestRiskLevel` of the page | pure; the loop is a recursive function |
| `Dashboard` | the page's list: first fetch, feed, timer, filter, views | uses `Sessions` |
| `MC_*` | instances for TLC | |
| `Ingest_proofs`, `Collector_proofs`, `WebSocketHub_proofs`, `EventLayout_proofs`, `Detection_proofs`, `Forensics_proofs`, `Sessions_proofs`, `Dashboard_proofs` | theorems | section 4 |

Operators marked `variant` are defective versions of the definition that follows
them, one for each property of a passing run, listed under "mutants" in
`PROJECT.json`: with the variant in place of the definition TLC finds the
property violated, which shows that the property depends on that piece of code.

### Ingest

State: `db` (a row per fingerprint: `first`, the request its identity columns come
from, and `last`, the one that wrote the rest: the upsert replaces only some
columns), `store`, `broadcastChan`, `pc[r]` (how far the goroutine of request `r`
is), `up`. History variables, read by no step, remember what the properties speak
of. Each request runs `Receive`, then `LookupHit`, `LookupMiss` or `LookupError`
(any error is taken for a miss, as in the code), `InsertEvent` or `InsertError`
(logged, the handler goes on), `AddEvent`, `Send` (waits while the channel is
full), `Reply`. `Cleanup` deletes any set of rows, since time is abstracted;
`Crash` takes memory and requests in flight with it and leaves the database.

### WebSocketHub

A write to a socket takes two steps, so that others run while it is under way; it
ends when the socket has room (`SockCap`) or the peer is gone or the server closed
the connection, and never otherwise: the code sets no deadline. The read lock of
`clientsMutex` is the predicate `ReadLocked` on the broadcaster's position (nobody
else takes it). `BError`, `BDelete`, `BRelock` are the three steps of dropping a
client inside the loop, and `BRelock` chooses which of the entries added in
between the loop will still visit, as Go leaves open.

gorilla/websocket allows one writer per connection, and nothing keeps the greeting
and the broadcaster apart. When they overlap on one connection it is `raced`, for
good: writers share its frame header, buffer and current message without a lock, so
from then on a write may fail although peer and connection are in order (`Fails`),
may panic (`HandlerPanic`, `BroadcasterPanic`), or may end well and arrive as
something the peer cannot read. So a race can cost a dashboard the rest of its
snapshot (`GreetError`: the loop ends, the client stays in the map) or any later
message. What is written to a raced connection is no longer recorded in `sentTo`;
`NoGap` and `FeedIsKept` are about the others and say that there is no second way to
a hole. That the overlap does happen is what `hub_writers` shows. The model ends with
the server: what peers do after its death is left out.

`Feed` is the promise without goroutines, lock and sockets: a dashboard is out,
greeted, following or has left; its feed begins somewhere in the log of events, it
follows only once it has caught up with what was broadcast, a broadcast is over only
when all that follow have its event, and who has left stays away. `Stage` and
`Starts` map to it: a dashboard whose handler is past the registration takes part
(`Follows`) while it is in the map and its connection works and is not raced, and has
left otherwise; its feed begins at the oldest event of its snapshot. `FeedIsKept` is the refinement.

### Collector

`Submit`/`Drop` are the probes' side of the ring buffer. `Read` is a turn of the
read loop. The goroutine of an event passes `Filter`, `Acquire`, then `Answered`
or `Fail`; `Fail` may happen at any moment of the POST, before or after the
server has received or handled it. `Deliver` and `Handle` are the request's own
way, which nothing stops when the agent gives up or exits. The history variables
`submitted` and `taken` are what found room in the buffer and what the loop took from
it, in order; no step reads them.

`Delivery` is the promise without the machinery: an event is new, open, posted and
then told, unsure or lost, and arrives at most once. `Collector.Promise` maps the
states of buffer and goroutines to those (`Status`): whatever waits in the agent is
open, a failed POST is unsure, and an event of a killed agent is unsure when it had
been posted and lost when not. `DeliversAtMostOnce` is the refinement.

### Detection

`Record` applies the attached program to a call and the bytes its reserved memory
held; `Forward` decodes and filters; `Rate` evaluates at some hour. Memory is
modelled byte by byte only from the first byte where the two layouts differ.
`handle_task_fix_setuid` is modelled as it runs: the kernel passes
`(new, old, flags)` (`vmlinux.h:62248`), the program takes `(task, new, old)`.
Whether `bpf_probe_read_kernel` can read the user's address in `trace_connect` is
left open (`read`): it depends on the kernel.

### Retention

`rows[k]` holds the columns of a row that change; `InsertEvent` writes it, new or
not. `Cleanup` deletes what `DeleteOldEvents` deletes: `created_at` is the text of
UTC, the limit is bound as the text of a local time, SQLite compares them as texts,
so the limit is off by `zone`, and a row of the limit's own second, whose text is a
prefix of the limit's, goes too. `CleanupError` logs and waits for the next tick of
24 h; `Restart` makes a cleanup due at once. `Tick` waits for a due cleanup, since
an hour is long against a statement. `written` and `skipped` are read by no step.

### Forensics

Handlers run several statements and no transaction, so every statement is an
action and `at` is the next one. One request at a time is followed (`Begin` until
`Forget`): requests only read, so they do not disturb each other. `Meanwhile` is any
step of `Retention` in between, `touched` collects the keys it wrote or deleted.
The `...Cut` actions are loops that `rows.Next` ended because of an error: no code
asks `rows.Err`, so what was read is returned as if it were all. `GetParentError` is
the query whose error is ignored; the error of any other statement ends the request
(`Fail`). Queries are sets: `InWindow` has both ends of the window and asks for
the pid and not for the host, as the SQL does. Event types are counted by number and
then put under their names (`CountsByName`): nothing keeps an agent from sending a type
without a name, all of those are `UNKNOWN`, and of several the one read last replaces
the others, as the assignment in the loops does. `ReportAgrees` and `StatisticsAgree`
say what the numbers are worth then.

### Dashboard and Sessions

The page never puts a message into its list. `OnMessage` restarts a timer of 300 ms,
`Expire` fetches; so do the first load and `Choose`. Up to `MaxFetches` fetches run
side by side; `Query` is the moment the server reads its rows, `Settle` the moment
the answer replaces the list, in any order among fetches, `FetchError` the failure
of one. `Display` follows `displayEvents` into both views: Go encodes an empty list
as `null`, which the card view takes for no events and on which the table view
throws. `Disconnect` is final: `onclose` connects no more. `late` and `stale` are read
by no step. Of the server there are `Record`, `Announce` (store and message, after
the row) and `DeleteOldEvents`, which takes any rows in one statement: it goes by
`created_at`, the server's time, and the list is ordered by the agents' timestamps. A
deleted row keeps its place in the list until the next fetch. `Row` is what a page is
told of an event, `Early` the events that are recorded when it loads; of rows with one
timestamp `LIMIT` cuts off any, so `GetEvents` is a set of answers.
`Sessions.aggregateEvents` is the page's double loop, with its `used` set and the
`break` at the first event out of the window; `SessionsAreRight` applies it to the list
shown, in every order.

## 3. Runs

Passing runs and the bounds they use:

| Run | Instance | Shows |
|---|---|---|
| `ingest_same` | 2 requests of one fingerprint, store of 1, channel of 1 | every race on one row, eviction, a full channel, failing statements, cleanup, crash and restart; safety is proved for any number (section 4), and every handler ends |
| `hub_safe` | 2 events, 2 dashboards, snapshot of 1 | a dashboard that fails while another connects, inside one broadcast; a greeting and a broadcast on one connection with all that may come of it; events older than the snapshot; the whole implements `Feed` |
| `hub_live` | 2 events, 1 dashboard, channel of 1, socket of 1 | the second handler waits for the channel, broadcaster and greeting for the socket; the dashboard leaves, or its connection is spoiled, in every phase (`hub_stall` has a third event, to fill channel and broadcaster at once) |
| `collector` | 4 events (2 ordinary, 1 own, 1 whitelisted), buffer of 2, 1 slot | drop, order and completeness of what the buffer gives, waiting for a slot, late answers, exit in flight; the whole way implements `Delivery` |
| `detection_pass` | 17 programs, 9 credentials, every class of path, 2 contents of memory, 5 hours on both sides of each limit | the whole table of verdicts |
| `report` | 3 events of 2 processes (parent and child), 2 hosts and 3 types, two of them without a name, zones -1 and 1, a day of 2 ticks, 5 ticks, a window of 1 | rows live through two cleanups, one missed, and restarts; requests are followed at tick 3 (constraint `RequestsWhenSettled`), when rows of every age may be there; at most one list of a request is cut off; the types without a name replace each other in the statistics (in a report, which is of one process here, only the proof covers that) |
| `dashboard` | 3 events, 2 of them there when the page loads, 2 with one timestamp, lists of 2, 2 fetches at once, 1 change of the filter | an event that pushes another out, ties at the limit, rows deleted in the midst of a list, a filter changed under a fetch, answers in either order, failures, loss of the feed; the lists shown are cut into sessions with related events at both ends of a window |

Deadlock is checked for `Ingest`. The other models stop when their finite set of
events is used up, their clock has run out (`Retention.MaxNow`) or the process has
exited, so their configurations turn it off.

Runs that end in a violation, each of a sentence of the repository's documents or
comments, which `PROJECT.json` quotes under "findings":

| Run | What the code does |
|---|---|
| `ingest_duplicate` | an event is dropped as a duplicate of a different one |
| `hub_stall` | a dashboard that does not read blocks the handlers of POST requests |
| `hub_writers` | greeting and broadcast write to one connection at once |
| `detection_port` | the agent reads the network fields one byte early |
| `detection_setuid` | the program for `task_fix_setuid` reads the wrong arguments and never records |

Other differences between documents and code that the models contain and no run
is spent on, because they are plain in one definition:

- `Ingest`: two overlapping requests for one event both miss the lookup and are
  both put into the store and broadcast, where `graduate_Q:97` says that the lookup
  avoids repeated storage and processing. The table alone keeps one row.
- `Collector.Drop`: a full ring buffer loses events, `README.md:700` promises that
  none is missed. `Collector.Fail`: a failed POST is not repeated, `graduate_Q:298`
  lists a retry mechanism.
- `AgentFilter.ToLocalServer` compares the fields `detection_port` shows to be
  misread, so connections to the local server are not filtered (`agent/main.go:175`).
  The same misread port never is one of the ports of attack tools that the rule of
  `RiskAnalyzer` knows (`ConnectPortsNeverCount`).
- `AgentFilter.LooksDangerous`: setuid(0) by a whitelisted name, and prefix matches
  such as `crontab` for `cron`, are dropped although `agent/main.go:186` keeps
  events of high risk and the server would rate them HIGH.
- `RiskAnalyzer.EvaluateRank` asks the whitelist first, so connections by `bash`
  or `sh` are rated NONE (`risk_analyzer.go:253-256`).
- `Programs.isSensitiveFileAccess` leaves out the types of `/etc/passwd` and
  `/etc/shadow` (`graduate_Q:116`).
- `KernelProbes.Attached` has neither bind nor exit (`README.md:27-28`).
- `Retention.Day`: rows go after 24 hours, `README.md:822` keeps them 30 days by a
  command that will not find one that old; and the limit is off by the server's
  zone (`KeptADay` and `GoneAfterTwoDays` say so).
- `Forensics.InWindow`: a timeline is of a pid, whatever the host, so the processes
  of several agents mix. The event itself is counted among what precedes it. An
  event that is gone makes the report fail as any error does (500), although the
  handler has an answer for "not found".
- The conclusion of a report looks for suspicious opens in `Filename`, which is
  empty for an openat event: it never finds one. The text is not modelled.
- `Forensics.GatherCut`: an error in the middle of a list is not reported.
- `Forensics.Statement`: `graduate_Q:310` says that transactions keep the data of a
  report consistent; no request has one. How far its numbers may be from its list is
  what `Near` says: up to the rows touched while it was made.
- `Forensics.CountsByName`: of several event types without a name the count of one
  replaces the others (`database.go:347` and `:717`), so the distribution of the types
  may add up to less than the total beside it.
- `Dashboard.Disconnect`: the page never reconnects, `graduate_Q:230` says that it
  does. `Dashboard.FetchError`: in the table view a failure shows nowhere.
  `Dashboard.Display`: an empty list makes the table view throw.

### Fairness

- `Ingest.Fairness`: weak fairness of each handler and of the broadcaster. The Go
  scheduler runs runnable goroutines; that the broadcaster comes back for the next
  event is an assumption of that module which `hub_live` justifies for dashboards
  that read, and `hub_stall` refutes for ones that do not. No fairness is assumed
  of the environment (crash, restart, cleanup, new requests).
- `WebSocketHub.ServerFairness`: weak fairness of handlers and broadcaster, strong
  fairness of taking the write lock, because `sync.RWMutex` does not let readers
  overtake a waiting writer for ever. `PeerFairness` (dashboards read until they
  leave) is added only in `DrainSpec`.
- `Collector.Fairness`: goroutines run; a POST ends, since the client has a
  timeout of 10 s (`Fail` is always possible); a goroutine blocked on a channel is
  served in its order (strong fairness of `Acquire`).
- `Dashboard.Fairness`: the server announces what it has recorded, the socket
  connects, messages arrive, and the oldest fetch ends or fails. `Expire` is fair
  because the events of a behaviour are finitely many, so a pause of 300 ms comes;
  an endless stream without a pause would keep the page from ever fetching, which is
  listed as a hazard without a property. Nothing is assumed of the user, of the
  cleanup or of the connection's end.
- `Retention` and `Forensics` have no liveness property: that a due cleanup runs
  before time goes on is the guard of `Tick`.

## 4. Proofs

`Ingest_proofs` proves for every set of requests, every store limit and channel
capacity (`BoundAssumption`, `EventAssumption`, `NoRowAssumption`):

- `TypeCorrect`: `TypeOK` is inductive as it stands.
- `AnswersAreRecorded`, `MixedRowsNeedRaces`, `SerialRequestsAreDeduplicated`:
  from one inductive invariant, `DedupInv`. None of the three is inductive: that a
  request received after an answer finds the row needs to know that a row once
  seen only goes by the cleanup, that what a request saw answered before it came
  stays answered (`BeforeAreAnswered`), that a handler past its insert has written
  its row or failed to (`InsertedIsRecorded`), that a handler that missed did so
  because the row appeared in between (`RowAppearedInBetween`), and that only
  requests that started are in rows (`WritersStarted`).
- `StoreShowsNewest`: `store = Newest(appended)`, with lemmas on what dropping the
  head of a sequence does to its last elements.
- `FeedIsExactlyOnce`: from the fact that the feed (taken, then queued) holds
  exactly the requests past `Send`, each once.

`Collector_proofs` proves for any events, any buffer and any number of slots
(`CollectorAssumption`) all five invariants of `Collector` and the refinement of
`Delivery`:

- `IInv` adds to the invariants that an event's state determines how often it was
  posted and which filters it has passed (`PostsByState`), and that only what was
  posted is with the server, on one side of `Handle` (`RequestsArePosts`). Neither
  at-most-once nor the absence of feedback is inductive without them: a request in
  flight outlives the goroutine that made it.
- `RingIsExact`: while the agent lives, `submitted = taken \o ring`, and nothing is
  submitted twice (`SubmittedInOrder`): a submission goes last (`SubmitGoesLast`), and
  the loop takes what comes next (`TakenComesNext`).
- `CollectorDelivers`: under `IInv` every step maps to a step of `Delivery` or to a
  stutter (`StepRefines`); `Leave` is the agent's exit.

`WebSocketHub_proofs` proves for any events, dashboards, channel, snapshot and
sockets (`HubAssumption`): `TypeCorrect`, `OnlyMembersAreWritten`, `MapIsStable` (an
action property: no step of the others changes the map while the loop holds the
lock), and `FeedHasNoGap`. The last needs `NoHole`: of what is in the store since its
snapshot a dashboard has all that was broadcast, and has the event of the loop or
the loop will still come to it (`ComesTo`), together with `GreetedOrFailed` (a handler
that reads has sent its whole snapshot, unless a write failed) and `Broadcasting`. `HubKeepsFeed` is the
refinement of `Feed`, which needs in addition that what is in the store was taken in
by its handler, so that no event is posted twice, and that snapshots come from the
store (`Sources`). Per step at most one dashboard changes its stage (`OneMoves`), and
then from out to greeted (`SnapshotRefines`), from greeted to following
(`GreetDoneRefines`, where `NoHole` shows that it has caught up) or away
(`StaysOrLeaves`: also by a second writer on its connection); a broadcast that ends does so with every follower served
(`BDoneRefines`).

`Detection_proofs` proves for any calls, memories and hours `FlagNeverLowersLevel`,
`NightNeverLowersLevel` (two lemmas about `Evaluate` for an arbitrary event: every
rule that overrides the score is at least its threshold's equal), `GarbageIsHarmless`,
`EscalatedExecIsHigh` and `SetuidToRootIsHigh`, from what an event at the server is
known to be. `TypeCorrect` follows from `Shaped`: records, bytes and what the agent
decodes have their shape whatever was in the memory. `ConnectPortsNeverCount`: the
port the agent reads for a connection is 0 or a multiple of 256, so none of the
rules about ports ever applies to one.

`EventLayout_proofs` solves the two recursions over the field list, of the C struct
and of `binary.Read`, with an explicit table of offsets for each (`CEquation`,
`GoEquation`), from which follow the field a byte belongs to (`FieldOfByte`), what is in a written
byte (`WrittenByte`), and `AgentReadsOneByteEarly`: what the agent makes of the
network fields a probe has written, byte for byte, whatever was in the memory before. `DetectionAssumption`
says that memory consists of bytes, ports have 16 bits and addresses 4 bytes.

`Forensics_proofs` proves for any keys, zones, windows and times:

- `RowsGoAfterTwoDays`, `RowsStayADay`: from `TInv`, which says that `created_at` is the
  time of the last write (`RowsAreDated`) and that what is there is younger than a day
  at the last cleanup that did not fail (`SurvivorsAreYoung`).
- `HistoriesAreComplete`, `ReportsAgree`: from `RInv`, one conjunct per part of the
  report, each relating the part as it was read to the rows as they are now, up to
  the keys touched since. That counts of two sets which agree outside of `touched`
  differ by at most its size is `CountsAreNear`; `NearStays` carries a part over a step
  of the table.
- `StatisticsAreConsistent`: each distribution of the statistics adds up to their
  total, up to the rows touched between the statements. The invariant `SInv` relates
  each number to the rows as they are now, as `RInv` does for the report. A sum over a set is the number of pairs of a group and a number up to
  its count (`Sum`), so it needs no induction; `GroupsAddUp` says that groups which
  cover the rows add up to their number. Agents cover them by `EventAssumption`, which
  takes types of any number: what putting counts under names makes of them is
  `CountedByName`, and `NamesAddUp` says that the names add up to the rows where at
  most one type has none, and to no more where several share `UNKNOWN`.

`Dashboard_proofs` proves for any events, fetches and changes of the filter:
`TypeCorrect`; `BothViewsAgree`, from the relation of `card` and `current`; and
`ListIsFresh`, from `FreshInv`: unless something that leads to a fetch is still to
come (`Pending`: an announcement, the connection, a message, the timer), the newest
fetch under way, or else the list, misses none of the newest events (`Covered`). A list
that misses none still does when rows are deleted, whichever they are (`FreshStays`), and a
fetch that is not late is behind all that are (`LateFirst`).

`Sessions_proofs` proves `SessionsAreCutRight` for lists of any length: no event is
lost or in two sessions, and each is in the first session it may join. The loop of the
page is a recursive function of the number of events it has looked at
(`SessionsUpTo`). That the function exists, and what holds of its value at every number
(`LoopInvStep`, `LoopInvHolds`), is shown by induction over a set of numbers
(`AllNumbers`), which comes from the least element of its complement (`LeastNumber`)
and so needs no induction theorem. `ShownSessionsAreRight` in `Dashboard_proofs` is the
page's property: `TypeOK` says that what it lists is a finite set of events, in
whatever order, and `RowAssumption` that an event has the fields the loop reads.

Only model-checked are the liveness properties with their fairness, which are out of
this prover's reach, and the violations. Every invariant, every action property and
both refinements of the passing runs are proved.

## 5. What could follow

1. `Pipeline`: `Collector` and `Ingest` together, with slots held by requests that
   wait for the broadcast channel; `hub_stall` shows the part in the server.
2. `WhiteList`: load and fallback; there is no reader to race with, as `Reload` is
   never called.

## 6. Not modelled

- `src/kernel/vmlinux.h`: 131,950 lines of types generated from a kernel's BTF. They
  hold no behaviour; the one declaration the monitor depends on, that of the hook
  `task_fix_setuid`, is used in `KernelProbes`. They are almost all of the lines of C
  in the repository, so a share of all its lines says little about the modelling.
- The text and the conclusion of reports, log messages, exports, the markup of the
  page, its statistics panel (which polls by itself) and its dialogs: pure
  formatting of what `Forensics` and `Dashboard` hold.
- Parsing of query parameters, among it that a limit of -1 passes by the cap of
  1000 of `/api/events`, and that the page's names of event types end at 2.
- Loading of the whitelist: once, before the server listens, with a fallback;
  `Reload` is never called. What the list lets through is in `Programs`.
- The timeline by pid: one statement, hence nothing to interleave.
- `getBootTime` and the conversion of boot time to Unix time: no decision depends on
  them beyond `Retention.Lag`.
- HTTP routing, TLS and authentication (there is none). `handleHealth` reads the
  length of the map without its lock; nothing depends on the value.
- Deployment, maintenance and test scripts: sequential shell run by hand.

Programs and paths are representatives of the classes the comparisons of strings
make; `Programs` says which.
