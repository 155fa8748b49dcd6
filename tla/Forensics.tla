------------------------------ MODULE Forensics ------------------------------
(***************************************************************************)
(* The requests that read security_events in several statements            *)
(* (src/server/forensic_report.go, handlePrivilegeEscalationTimeline in    *)
(* src/server/main.go, GetEventStatistics in src/server/database.go).      *)
(*                                                                         *)
(* No transaction holds the statements of one request together: events     *)
(* arrive, are rewritten and deleted in between (Retention), so each       *)
(* statement is an action.  Requests only read and do not disturb each     *)
(* other; one at a time is followed.                                       *)
(***************************************************************************)
EXTENDS Retention, FiniteSets, Sequences

CONSTANTS
    Event,   \* Event[k]: the columns of a row that no upsert changes
    Agents,
    Window,  \* 10 minutes
    None

ASSUME EventAssumption ==
    \A k \in Keys :
        /\ DOMAIN Event[k] = {"pid", "ppid", "agent", "type", "target"}
        /\ Event[k].type \in Nat /\ Event[k].agent \in Agents

ASSUME WindowAssumption == Window \in Nat

ASSUME FiniteAssumption == IsFiniteSet(Keys)

ASSUME NoneAssumption == None \notin Keys /\ None \notin [key : Keys, ts : Int]

VARIABLES
    kind,    \* which request is followed
    at,      \* the statement it runs next, or its outcome
    subject, \* the event it is about, as it was read: key and time
    report,  \* what it has gathered
    touched, \* keys whose row was written or deleted since it began
    cut      \* its list of events was cut off by an error

rvars == <<kind, at, subject, report, touched, cut>>
vars == <<tvars, rvars>>

Kinds == {"report", "escalation", "statistics"}

(* The codes of target_file_type and event_type that queries ask for. *)
Files   == {1, 2}
Network == {4, 5}

(* What the program calls an event type; nothing keeps an agent from sending
   one it has no name for. *)
Named     == <<"EXECVE", "SETUID", "FILE_WRITE", "OPENAT", "CONNECT", "BIND", "EXIT">>
TypeNames == {Named[i] : i \in DOMAIN Named} \cup {"UNKNOWN"}

typeName(eventType) ==
    IF eventType < Len(Named) THEN Named[eventType + 1] ELSE "UNKNOWN"

(* A timeline gathers the first of these, a report those down to byType, the
   statistics the total, byType and what follows. *)
Nothing == [timeline |-> {}, parent |-> None, children |-> {},
            total |-> 0, files |-> 0, network |-> 0,
            byType |-> [n \in TypeNames |-> 0], byRisk |-> [r \in Risks |-> 0],
            byAgent |-> [a \in Agents |-> 0], last24 |-> 0]

Init ==
    /\ TInit
    /\ kind = None
    /\ at = "idle"
    /\ subject = None
    /\ report = Nothing
    /\ touched = {}
    /\ cut = FALSE

-----------------------------------------------------------------------------
(* The queries. *)
NameOf  == [k \in Keys |-> typeName(Event[k].type)]
AgentOf == [k \in Keys |-> Event[k].agent]
RiskOf  == [k \in Present |-> rows[k].risk]

(* GROUP BY over all of Vs: a value without a row counts nothing. *)
GroupBy(S, column, Vs) ==
    [v \in Vs |-> Cardinality({k \in S : column[k] = v})]

(* GROUP BY event_type, and each count put under the name of its type: of the
   types without a name the one that comes last replaces the others, and the
   query asks for no order. *)
UnnamedTypes(S) == {Event[k].type : k \in {q \in S : NameOf[q] = "UNKNOWN"}}

UnnamedCounts(S) ==
    IF UnnamedTypes(S) = {} THEN {0}
    ELSE {Cardinality({k \in S : Event[k].type = t}) : t \in UnnamedTypes(S)}

CountsByName(S) ==
    {[GroupBy(S, NameOf, TypeNames) EXCEPT !["UNKNOWN"] = n] :
        n \in UnnamedCounts(S)}

InWindowOpen(k) == \* variant: the end of the window excluded
    /\ Event[k].pid = Event[subject.key].pid
    /\ rows[k].ts >= subject.ts - Window /\ rows[k].ts < subject.ts

(* pid = ? AND timestamp BETWEEN ? AND ?: both ends belong to it, and the
   host is not asked for. *)
InWindow(k) ==
    /\ Event[k].pid = Event[subject.key].pid
    /\ rows[k].ts \in (subject.ts - Window) .. subject.ts

HistoryIn(S) == {k \in S : InWindow(k)}

OfSubject(S) == {k \in S : Event[k].pid = Event[subject.key].pid}

(* Rows of the processes that rows of the subject's process name as parent. *)
ParentsIn(S) ==
    {k \in S : \E q \in OfSubject(S) : Event[k].pid = Event[q].ppid}

ChildrenIn(S) ==
    {Event[k].pid : k \in {q \in S : Event[q].ppid = Event[subject.key].pid}}

History == HistoryIn(Present)

-----------------------------------------------------------------------------
(* One statement of the request: it reads, and the next is `to`. *)
Statement(from, to) ==
    /\ up
    /\ at = from
    /\ at' = to
    /\ UNCHANGED <<tvars, kind, touched>>

Gather(from, to, gathered) ==
    /\ Statement(from, to)
    /\ report' = gathered
    /\ UNCHANGED <<subject, cut>>

GatherOneOf(from, to, reports) ==
    /\ Statement(from, to)
    /\ report' \in reports
    /\ UNCHANGED <<subject, cut>>

(* A loop over rows ends at an error as it does at the end of the rows, and
   nobody asks for rows.Err: the rest is missing and nothing says so.  Bound:
   one such error in a request. *)
GatherCut(from, to, reports) ==
    /\ ~cut
    /\ Statement(from, to)
    /\ report' \in reports
    /\ cut' = TRUE
    /\ UNCHANGED subject

Begin ==
    \E k \in Kinds :
        /\ at = "idle"
        /\ up
        /\ kind' = k
        /\ at' = IF k = "statistics" THEN "count" ELSE "event"
        /\ touched' = {}
        /\ UNCHANGED <<tvars, subject, report, cut>>

GetEventByID ==
    \E k \in Present :
        /\ Statement("event", "timeline")
        /\ subject' = [key |-> k, ts |-> rows[k].ts]
        /\ UNCHANGED <<report, cut>>

(* The pages of the list know ids of rows that are gone, and any statement
   may fail; the error of the query for the parent alone is ignored. *)
Fail ==
    /\ at \notin {"idle", "parent", "done", "failed"}
    /\ Statement(at, "failed")
    /\ UNCHANGED <<subject, report, cut>>

AfterTimeline == IF kind = "report" THEN "parent" ELSE "done"

GetProcessTimeline ==
    Gather("timeline", AfterTimeline, [report EXCEPT !.timeline = History])

(* The rows come in the order of their time. *)
GetProcessTimelineCut ==
    GatherCut("timeline", AfterTimeline,
        {[report EXCEPT !.timeline = {k \in History : rows[k].ts < end}] :
            end \in (subject.ts - Window) .. subject.ts})

GetParentPid == \* variant: the number of the parent, not its row
    /\ Statement("parent", "children")
    /\ \E k \in ParentsIn(Present) :
          report' = [report EXCEPT !.parent = Event[k].pid]
    /\ UNCHANGED <<subject, cut>>

GetParent ==
    /\ Statement("parent", "children")
    /\ \E k \in ParentsIn(Present) : report' = [report EXCEPT !.parent = k]
    /\ UNCHANGED <<subject, cut>>

GetParentNone ==
    /\ Gather("parent", "children", report)
    /\ ParentsIn(Present) = {}

GetParentError ==
    /\ Statement("parent", "children")
    /\ cut' = TRUE
    /\ UNCHANGED <<subject, report>>

GetChildren ==
    Gather("children", "total", [report EXCEPT !.children = ChildrenIn(Present)])

GetChildrenCut ==
    GatherCut("children", "total",
        {[report EXCEPT !.children = seen] :
            seen \in SUBSET ChildrenIn(Present)})

CountTotal ==
    Gather("total", "files", [report EXCEPT !.total = Cardinality(History)])

CountFiles ==
    Gather("files", "network", [report EXCEPT !.files =
        Cardinality({k \in History : Event[k].target \in Files})])

CountNetworkAlways == \* variant: the window forgotten
    Gather("network", "types", [report EXCEPT !.network =
        Cardinality({k \in Present : /\ Event[k].type \in Network
                                     /\ Event[k].pid = Event[subject.key].pid})])

CountNetwork ==
    Gather("network", "types", [report EXCEPT !.network =
        Cardinality({k \in History : Event[k].type \in Network})])

CountTypes ==
    GatherOneOf("types", "done",
        {[report EXCEPT !.byType = counts] : counts \in CountsByName(History)})

(* The groups seen before the error. *)
Partly(groups, seen) ==
    [v \in DOMAIN groups |-> IF v \in seen THEN groups[v] ELSE 0]

NamesIn(S) == {NameOf[k] : k \in S}

CountTypesCut ==
    GatherCut("types", "done",
        {[report EXCEPT !.byType = Partly(counts, seen)] :
            counts \in CountsByName(History), seen \in SUBSET NamesIn(History)})

(* GetEventStatistics. *)
CountAll ==
    Gather("count", "risks", [report EXCEPT !.total = Cardinality(Present)])

CountRisks ==
    Gather("risks", "allTypes", [report EXCEPT !.byRisk =
        GroupBy(Present, RiskOf, Risks)])

CountRisksCut ==
    GatherCut("risks", "allTypes",
        {[report EXCEPT !.byRisk = Partly(GroupBy(Present, RiskOf, Risks), seen)] :
            seen \in SUBSET Risks})

CountAllTypesOfDay == \* variant: of the last day's events only
    GatherOneOf("allTypes", "last24",
        {[report EXCEPT !.byType = counts] :
            counts \in CountsByName({k \in Present : rows[k].ts > now - Day})})

CountAllTypes ==
    GatherOneOf("allTypes", "last24",
        {[report EXCEPT !.byType = counts] : counts \in CountsByName(Present)})

CountAllTypesCut ==
    GatherCut("allTypes", "last24",
        {[report EXCEPT !.byType = Partly(counts, seen)] :
            counts \in CountsByName(Present), seen \in SUBSET NamesIn(Present)})

CountLast24 ==
    Gather("last24", "agents", [report EXCEPT !.last24 =
        Cardinality({k \in Present : rows[k].ts >= now - Day})])

CountAgents ==
    Gather("agents", "done", [report EXCEPT !.byAgent =
        GroupBy(Present, AgentOf, Agents)])

CountAgentsCut ==
    GatherCut("agents", "done",
        {[report EXCEPT !.byAgent = Partly(GroupBy(Present, AgentOf, Agents), seen)] :
            seen \in SUBSET Agents})

-----------------------------------------------------------------------------
ProcessStatistics ==
    \/ CountTotal \/ CountFiles \/ CountNetwork
    \/ CountTypes \/ CountTypesCut

GenerateReport ==
    \/ GetEventByID
    \/ GetProcessTimeline \/ GetProcessTimelineCut
    \/ GetParent \/ GetParentNone \/ GetParentError
    \/ GetChildren \/ GetChildrenCut
    \/ ProcessStatistics

GetEventStatistics ==
    \/ CountAll
    \/ CountRisks \/ CountRisksCut
    \/ CountAllTypes \/ CountAllTypesCut
    \/ CountLast24
    \/ CountAgents \/ CountAgentsCut

Ended == {"done", "failed"}

(* The table changes under the request; a crash cuts it off.  A request is
   short against a tick of the clock. *)
Meanwhile ==
    /\ at \notin Ended
    /\ TNext
    /\ at # "idle" => now' = now
    /\ touched' = IF at = "idle" THEN {}
                  ELSE touched \cup {k \in Keys : rows'[k] # rows[k]}
    /\ at' = IF up' \/ at = "idle" THEN at ELSE "failed"
    /\ UNCHANGED <<kind, subject, report, cut>>

(* A request that has ended disturbs nothing: the next one is followed. *)
Forget ==
    /\ at \in Ended
    /\ kind' = None /\ at' = "idle" /\ subject' = None
    /\ report' = Nothing /\ touched' = {} /\ cut' = FALSE
    /\ UNCHANGED tvars

Next ==
    \/ Meanwhile
    \/ Begin
    \/ GenerateReport
    \/ GetEventStatistics
    \/ Fail
    \/ Forget

Spec == Init /\ [][Next]_vars

-----------------------------------------------------------------------------
Steps == {"idle", "event", "timeline", "parent", "children", "total",
          "files", "network", "types", "count", "risks", "allTypes",
          "last24", "agents"}

Report == [timeline : SUBSET Keys, parent : {None} \cup Keys,
           children : SUBSET {Event[k].pid : k \in Keys},
           total : Nat, files : Nat, network : Nat, last24 : Nat,
           byType : [TypeNames -> Nat], byRisk : [Risks -> Nat],
           byAgent : [Agents -> Nat]]

TypeOK ==
    /\ TableTypeOK
    /\ kind \in {None} \cup Kinds
    /\ at \in Steps \cup Ended
    /\ subject \in {None} \cup [key : Keys, ts : Int]
    /\ report \in Report
    /\ touched \in SUBSET Keys
    /\ cut \in BOOLEAN

Done(k) == at = "done" /\ kind = k

(* The rows that stayed as they were while the request ran. *)
Untouched == Present \ touched

(* A report or a timeline lists every event of its process in the ten minutes
   up to its own, that one included, and a report names a parent and all
   children there were: what is missing was written or deleted while it was
   made, or an error cut the list off unseen. *)
HistoryIsComplete ==
    (at = "done" /\ kind # "statistics" /\ ~cut) =>
        LET pid == Event[subject.key].pid IN
        /\ \A k \in Untouched :
              (Event[k].pid = pid /\ subject.ts - rows[k].ts \in 0 .. Window)
                  => k \in report.timeline
        /\ kind = "report" =>
              \A k \in Untouched :
                  /\ Event[k].ppid = pid => Event[k].pid \in report.children
                  /\ (\E q \in Untouched : /\ Event[q].pid = pid
                                           /\ Event[k].pid = Event[q].ppid)
                        => report.parent # None

Near(m, n) == m - n \in -Cardinality(touched) .. Cardinality(touched)

(* Two types without a name share one: the counts of all but one of them are
   lost. *)
AtMostOneUnnamed(S) == \A t, u \in UnnamedTypes(S) : t = u

(* The list of a report and the numbers under it are read by five statements.
   They tell of one process in one window: they differ by no more than the
   number of rows that changed in the meantime.  The number of events of
   unknown type is that of one such type: it is not too large either, but
   right only where there is no second one. *)
ReportAgrees ==
    (Done("report") /\ ~cut) =>
        LET listed == report.timeline
            Called(n) == {k \in listed : NameOf[k] = n}
        IN
        /\ Near(report.total, Cardinality(listed))
        /\ Near(report.files,
                Cardinality({k \in listed : Event[k].target \in Files}))
        /\ Near(report.network,
                Cardinality({k \in listed : Event[k].type \in Network}))
        /\ \A n \in TypeNames :
              (n # "UNKNOWN" \/ AtMostOneUnnamed(listed \cup touched)) =>
                  Near(report.byType[n], Cardinality(Called(n)))
        /\ report.byType["UNKNOWN"]
              <= Cardinality(Called("UNKNOWN")) + Cardinality(touched)

(* The sum of a distribution: each value counts as often as it says.  As a
   cardinality, and not as a fold, it can be reasoned about. *)
Sum(f) == Cardinality(UNION {{v} \X (1 .. f[v]) : v \in DOMAIN f})

(* The distributions of the statistics and their total are five statements as
   well: each distribution adds up to the total, and no more events are of the
   last day than there are, up to the rows that changed in the meantime.  The
   event types add up to no more than the total, and to less where two of them
   have no name. *)
StatisticsAgree ==
    (Done("statistics") /\ ~cut) =>
        /\ Near(Sum(report.byRisk), report.total)
        /\ Sum(report.byType) <= report.total + Cardinality(touched)
        /\ AtMostOneUnnamed(Present \cup touched) =>
              Near(Sum(report.byType), report.total)
        /\ Near(Sum(report.byAgent), report.total)
        /\ report.last24 <= report.total + Cardinality(touched)
=============================================================================
