------------------------------ MODULE Detection ------------------------------
(***************************************************************************)
(* The way of one system call to its verdict: the probe that sees it, the  *)
(* bytes in the ring buffer, the agent that decodes and filters them, and  *)
(* the server that rates the event.  Concurrency, loss and deduplication   *)
(* on this way are the matter of Collector and Ingest; here is what each   *)
(* station decides, and whether the stations agree.                        *)
(***************************************************************************)
EXTENDS AgentFilter

CONSTANTS
    Calls,    \* the system calls a process may make
    Memories, \* what the ring buffer's memory may hold beforehand
    Hours,    \* the hours at which the server may handle an event
    None

(* Memory holds bytes, an address is four of them and a port two. *)
ASSUME DetectionAssumption ==
    /\ Memories \subseteq [TailBytes -> Byte]
    /\ \A c \in Calls :
          c.port \in U16 /\ c.addr \in [1 .. 4 -> Byte]

VARIABLES
    call,  \* the system call
    stage, \* the station the event has reached
    event, \* the event there
    now,   \* the hour of its rating
    level  \* its risk level

vars == <<call, stage, event, now, level>>

Init ==
    /\ call \in Calls
    /\ stage = "call"
    /\ event = None
    /\ now = None
    /\ level = None

Record ==
    \E old \in Memories, read \in BOOLEAN :
        \E e \in Recorded(call, old, read) :
            /\ stage = "call"
            /\ stage' = "recorded"
            /\ event' = e
            /\ UNCHANGED <<call, now, level>>

Ignore ==
    /\ stage = "call"
    /\ \E old \in Memories : Recorded(call, old, TRUE) = {}
    /\ stage' = "ignored"
    /\ UNCHANGED <<call, event, now, level>>

Forward ==
    /\ stage = "recorded"
    /\ event' = Decoded(event)
    /\ stage' = IF Sent(event') THEN "sent" ELSE "filtered"
    /\ UNCHANGED <<call, now, level>>

Rate ==
    \E hour \in Hours :
        /\ stage = "sent"
        /\ stage' = "rated"
        /\ now' = hour
        /\ level' = Evaluate(event, hour)
        /\ UNCHANGED <<call, event>>

Next == Record \/ Ignore \/ Forward \/ Rate

Spec == Init /\ [][Next]_vars

-----------------------------------------------------------------------------
(* Only the events of attached programs come in, and the server gives them
   one of its four levels. *)
TypeOK ==
    /\ stage \in {"call", "recorded", "ignored", "sent", "filtered", "rated"}
    /\ stage \in {"recorded", "sent", "filtered", "rated"} =>
            event.type \in {EXECVE, SETUID, OPENAT, CONNECT}
    /\ stage \in {"sent", "filtered", "rated"} =>
            event.src_port \in U16 /\ event.dst_port \in U16
    /\ IF stage = "rated"
       THEN now \in Hours /\ level \in {Levels[i] : i \in 1 .. 4}
       ELSE now = None /\ level = None

AtServer == stage \in {"sent", "filtered", "rated"}

(* The verdict never depends on memory nobody wrote: execve and setuid events
   carry whatever the ring buffer held before in their network fields, and no
   station looks at them.  Whatever bytes are there, the agent sends and the
   server rates the event the same. *)
WithMemory(d, mem) ==
    [d EXCEPT !.dst_addr = Decode(mem).dst_addr,
              !.src_port = Decode(mem).src_port,
              !.dst_port = Decode(mem).dst_port,
              !.exit_code = Decode(mem).exit_code]

GarbageIsHarmless ==
    (AtServer /\ event.type \in {EXECVE, SETUID}) =>
        \A mem \in Memories :
            LET d == WithMemory(event, mem)
            IN  /\ Sent(d) <=> Sent(event)
                /\ \A h \in Hours : Evaluate(d, h) = Evaluate(event, h)

(* A program that a setuid-root process executes ends up HIGH unless its name
   is on the server's whitelist: no other rule of the score, of the filter or
   of the probe takes it below. *)
EscalatedExecIsHigh ==
    (call.call = "execve" /\ call.uid # 0 /\ call.euid = 0
        /\ call.comm # "agent" /\ ~IsWhitelisted(call.comm)) =>
            /\ stage \notin {"ignored", "filtered"}
            /\ stage = "rated" => level = "HIGH"

(* The rule that setuid(0) by a process that is not root is of high risk
   (risk_analyzer.go:238) survives the rules that override the sum: whatever
   its credentials, its name and the hour, the event is HIGH if it is sent and
   the name is not on the server's whitelist. *)
SetuidToRootIsHigh ==
    (call.call = "setuid" /\ stage = "rated" /\ ~IsWhitelisted(call.comm)) =>
        level = "HIGH"

(* The flag for an escalation overrides the score, 27 for sudo and su, 25 for
   others, sometimes with a lower one; it never lowers the level. *)
FlagNeverLowersLevel ==
    AtServer => \A h \in Hours :
        EvaluateRank([event EXCEPT !.is_privilege_escalation = TRUE], h)
            >= EvaluateRank([event EXCEPT !.is_privilege_escalation = FALSE], h)

(* The hour only adds: an event is rated at night at least as it is by day,
   whichever rule overrides the sum. *)
NightNeverLowersLevel ==
    AtServer => \A h, k \in Hours :
        (h \notin 6 .. 21 /\ k \in 6 .. 21) =>
            EvaluateRank(event, h) >= EvaluateRank(event, k)

-----------------------------------------------------------------------------
(* What the repository's documents say and the code does not do. *)

(* agent/main.go:48, the destination port: the agent's field is what the
   probe wrote into the C struct's. *)
PortIsDecoded ==
    (stage \in {"sent", "filtered"} /\ call.call = "connect") =>
        event.dst_port \in {0, NetworkOrder(call.port)[1]
                                 + 256 * NetworkOrder(call.port)[2]}

(* PRIVILEGE_MONITOR_GUIDE.md:20, the hook task_fix_setuid detects "any
   operation that goes from non-root to root". *)
RootTransitionIsRecorded ==
    (call.call = "fix_setuid" /\ (call.uid # 0 \/ call.euid # 0)
        /\ (call.new_uid = 0 \/ call.new_euid = 0)) => stage # "ignored"
=============================================================================
