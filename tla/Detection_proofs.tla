--------------------------- MODULE Detection_proofs ---------------------------
(***************************************************************************)
(* Two facts about the score that hold for every event, whatever the       *)
(* calls, the memory and the hours of an instance: neither the flag of an  *)
(* escalation nor the night ever lowers the level.                         *)
(***************************************************************************)
EXTENDS Detection, EventLayout_proofs

(* Every part of the sum is a natural number. *)
LEMMA IfIsNat ==
    ASSUME NEW cond, NEW points \in Nat
    PROVE  If(cond, points) \in {0, points} /\ If(cond, points) \in Nat
BY DEF If

LEMMA TypeScoreIsNat ==
    ASSUME NEW e
    PROVE  TypeScore(e) \in Nat
BY DEF TypeScore, If

(* The sum before any rule overrides it. *)
Sum(e, hour) == EscalationScore(e) + TypeScore(e) + NightScore(hour)

LEMMA SumIsNat ==
    ASSUME NEW e, NEW hour
    PROVE  Sum(e, hour) \in Nat
<1>1. EscalationScore(e) \in Nat
  BY IfIsNat DEF EscalationScore
<1>2. NightScore(hour) \in Nat
  BY IfIsNat DEF NightScore
<1> QED
  BY <1>1, <1>2, TypeScoreIsNat DEF Sum

(* The fields on which the score depends, other than the flag. *)
Alike(e, f) ==
    /\ e.type = f.type /\ e.comm = f.comm
    /\ e.uid = f.uid /\ e.euid = f.euid
    /\ e.old_uid = f.old_uid /\ e.new_uid = f.new_uid
    /\ e.filename = f.filename /\ e.target_file_type = f.target_file_type
    /\ e.src_port = f.src_port /\ e.dst_port = f.dst_port
    /\ e.exit_code = f.exit_code

(* Of two events that differ only in the flag, the one that has it is rated
   at least as the other: FlagRule puts nothing under the threshold of HIGH. *)
LEMMA FlagCounts ==
    ASSUME NEW e, NEW f, NEW hour, Alike(e, f),
           e.is_privilege_escalation = TRUE, f.is_privilege_escalation = FALSE
    PROVE  EvaluateRank(e, hour) >= EvaluateRank(f, hour)
<1> DEFINE se == RootRule(e, Sum(e, hour))
           sf == RootRule(f, Sum(f, hour))
<1>1. TypeScore(e) = TypeScore(f)
  BY DEF Alike, TypeScore
<1>2. EscalationScore(e) >= EscalationScore(f)
    /\ EscalationScore(e) \in Nat /\ EscalationScore(f) \in Nat
  BY DEF EscalationScore, isRealPrivilegeEscalation, Alike, If
<1>3. NightScore(hour) \in Nat
  BY IfIsNat DEF NightScore
<1>4. Sum(e, hour) >= Sum(f, hour) /\ Sum(e, hour) \in Nat /\ Sum(f, hour) \in Nat
  <2>1. TypeScore(f) \in Nat
    BY TypeScoreIsNat
  <2> QED
    BY <1>1, <1>2, <1>3, <2>1 DEF Sum
<1>5. se >= sf /\ se \in Nat /\ sf \in Nat
  BY <1>4 DEF RootRule, Alike
<1>6. /\ Score(e, hour) \in Nat /\ Score(f, hour) \in Nat
      /\ Score(e, hour) >= Score(f, hour) \/ Score(e, hour) >= 25
  <2>1. Score(e, hour) = FlagRule(e, se) /\ Score(f, hour) = FlagRule(f, sf)
    BY DEF Score, Sum
  <2>2. FlagRule(f, sf) = sf
    BY DEF FlagRule
  <2>3. FlagRule(e, se) \in {se, 25, 27}
    BY DEF FlagRule
  <2> HIDE DEF se, sf
  <2> QED
    BY <1>5, <2>1, <2>2, <2>3
<1>7. Rank(Score(e, hour)) >= Rank(Score(f, hour))
  BY <1>6 DEF Rank
<1>8. Rank(Score(f, hour)) >= 1
  BY <1>6 DEF Rank
<1> QED
  BY <1>7, <1>8 DEF EvaluateRank, Alike

(* An event is rated at night at least as it is by day: the rules that set
   the score look at the sum only to tell whether it is zero. *)
LEMMA NightCounts ==
    ASSUME NEW e, NEW h, NEW k, NightScore(h) >= NightScore(k)
    PROVE  EvaluateRank(e, h) >= EvaluateRank(e, k)
<1> DEFINE sh == RootRule(e, Sum(e, h))
           sk == RootRule(e, Sum(e, k))
<1>1. Sum(e, h) >= Sum(e, k) /\ Sum(e, h) \in Nat /\ Sum(e, k) \in Nat
  <2>1. EscalationScore(e) \in Nat
    BY IfIsNat DEF EscalationScore
  <2>2. NightScore(h) \in Nat /\ NightScore(k) \in Nat
    BY IfIsNat DEF NightScore
  <2> QED
    BY <2>1, <2>2, TypeScoreIsNat DEF Sum
<1>2. sh >= sk /\ sh \in Nat /\ sk \in Nat
  BY <1>1 DEF RootRule
<1>3. /\ Score(e, h) >= Score(e, k)
      /\ Score(e, h) \in Nat /\ Score(e, k) \in Nat
  <2>1. Score(e, h) = FlagRule(e, sh) /\ Score(e, k) = FlagRule(e, sk)
    BY DEF Score, Sum
  <2>2. \/ FlagRule(e, sh) = sh /\ FlagRule(e, sk) = sk
        \/ FlagRule(e, sk) = 0
        \/ FlagRule(e, sh) = FlagRule(e, sk) /\ FlagRule(e, sh) \in Nat
    BY <1>2 DEF FlagRule
  <2>3. FlagRule(e, sh) \in Nat /\ FlagRule(e, sk) \in Nat
    BY <1>2 DEF FlagRule
  <2> HIDE DEF sh, sk
  <2> QED
    BY <1>2, <2>1, <2>2, <2>3
<1>4. Rank(Score(e, h)) >= Rank(Score(e, k))
  BY <1>3 DEF Rank
<1> QED
  BY <1>4 DEF EvaluateRank

-----------------------------------------------------------------------------
(* What the agent has decoded has these fields, whatever was recorded. *)
DecodedFields ==
    {"type", "comm", "uid", "euid", "old_uid", "new_uid", "filename",
     "filepath", "target_file_type", "is_privilege_escalation", "dst_addr",
     "src_port", "dst_port", "exit_code"}

IsFunction(f) == f = [x \in DOMAIN f |-> f[x]]

IsDecoded == AtServer => IsFunction(event) /\ DOMAIN event = DecodedFields

LEMMA DecodedHasFields ==
    ASSUME NEW e
    PROVE  IsFunction(Decoded(e)) /\ DOMAIN Decoded(e) = DecodedFields
BY DEF Decoded, DecodedFields, IsFunction

LEMMA IsDecodedInvariant == Spec => []IsDecoded
<1>1. Init => IsDecoded
  BY DEF Init, IsDecoded, AtServer
<1>2. IsDecoded /\ [Next]_vars => IsDecoded'
  <2> SUFFICES ASSUME IsDecoded, [Next]_vars
               PROVE  IsDecoded'
    OBVIOUS
  <2>1. CASE Record
    BY <2>1 DEF Record, IsDecoded, AtServer
  <2>2. CASE Ignore
    BY <2>2 DEF Ignore, IsDecoded, AtServer
  <2>3. CASE Forward
    BY <2>3, DecodedHasFields DEF Forward, IsDecoded
  <2>4. CASE Rate
    BY <2>4 DEF Rate, IsDecoded, AtServer
  <2>5. CASE UNCHANGED vars
    BY <2>5 DEF vars, IsDecoded, AtServer
  <2> QED
    BY <2>1, <2>2, <2>3, <2>4, <2>5 DEF Next
<1> QED
  BY <1>1, <1>2, PTL DEF Spec

(* The flag of an escalation, which overrides the score of an event, never
   lowers its level: for any calls, contents of memory and hours. *)
THEOREM FlagNeverLowers == Spec => []FlagNeverLowersLevel
<1>1. IsDecoded => FlagNeverLowersLevel
  <2> SUFFICES ASSUME IsDecoded, AtServer, NEW h \in Hours
               PROVE  EvaluateRank([event EXCEPT
                          !.is_privilege_escalation = TRUE], h)
                        >= EvaluateRank([event EXCEPT
                          !.is_privilege_escalation = FALSE], h)
    BY DEF FlagNeverLowersLevel
  <2> DEFINE e == [event EXCEPT !.is_privilege_escalation = TRUE]
             f == [event EXCEPT !.is_privilege_escalation = FALSE]
  <2>1. e.is_privilege_escalation = TRUE /\ f.is_privilege_escalation = FALSE
    BY DEF IsDecoded, DecodedFields
  <2>2. Alike(e, f)
    BY DEF IsDecoded, DecodedFields, Alike
  <2> HIDE DEF e, f
  <2>3. EvaluateRank(e, h) >= EvaluateRank(f, h)
    BY <2>1, <2>2, FlagCounts
  <2> QED
    BY <2>3 DEF e, f
<1> QED
  BY <1>1, IsDecodedInvariant, PTL

(* No event is rated lower for coming at night: for any calls, contents of
   memory and hours. *)
THEOREM NightNeverLowers == Spec => []NightNeverLowersLevel
<1>1. NightNeverLowersLevel
  <2> SUFFICES ASSUME NEW h \in Hours, NEW k \in Hours, k \in 6 .. 21
               PROVE  EvaluateRank(event, h) >= EvaluateRank(event, k)
    BY DEF NightNeverLowersLevel
  <2>1. NightScore(k) = 0
    BY DEF NightScore, If
  <2>2. NightScore(h) \in Nat
    BY IfIsNat DEF NightScore
  <2>3. NightScore(h) >= NightScore(k)
    BY <2>1, <2>2
  <2> QED
    BY <2>3, NightCounts
<1> QED
  BY <1>1, PTL

-----------------------------------------------------------------------------
(* What an event keeps of the call it is of, from the probe to the server. *)
OfExecve(d) ==
    /\ d.type = EXECVE /\ d.comm = call.comm
    /\ d.uid = call.uid /\ d.euid = call.euid
    /\ d.is_privilege_escalation = TRUE

OfSetuid(d) ==
    /\ d.type = SETUID /\ d.comm = call.comm
    /\ d.uid = call.uid /\ d.euid = call.euid
    /\ d.old_uid = call.euid /\ d.new_uid = call.new_uid
    /\ d.is_privilege_escalation = TRUE
    /\ call.euid # 0 /\ call.new_uid = 0

EscalatedExec ==
    /\ call.call = "execve" /\ call.uid # 0 /\ call.euid = 0
    /\ call.comm # "agent" /\ ~IsWhitelisted(call.comm)

Traced ==
    /\ stage \in {"call", "recorded", "ignored", "sent", "filtered", "rated"}
    /\ (stage = "recorded" \/ AtServer) =>
            /\ call.call = "execve" => OfExecve(event)
            /\ call.call = "setuid" => OfSetuid(event)
    /\ EscalatedExec => stage \notin {"ignored", "filtered"}
    /\ stage = "rated" => \E h \in Hours : level = Evaluate(event, h)

LEMMA RecordedFields ==
    ASSUME NEW c, NEW old, NEW read, NEW e \in Recorded(c, old, read)
    PROVE  /\ c.call = "execve" =>
                /\ e.type = EXECVE /\ e.comm = c.comm
                /\ e.uid = c.uid /\ e.euid = c.euid
                /\ e.is_privilege_escalation = TRUE
           /\ c.call = "setuid" =>
                /\ e.type = SETUID /\ e.comm = c.comm
                /\ e.uid = c.uid /\ e.euid = c.euid
                /\ e.old_uid = c.euid /\ e.new_uid = c.new_uid
                /\ e.is_privilege_escalation = TRUE
                /\ c.euid # 0 /\ c.new_uid = 0
<1>1. CASE c.call = "execve"
  <2>1. e = ExecveEvent(c, old)
    BY <1>1 DEF Recorded, EventsOf, When, Attached
  <2>. QED
    BY <1>1, <2>1 DEF ExecveEvent, Event
<1>2. CASE c.call = "setuid"
  <2>1. e = SetuidEvent(c, old) /\ SetuidRecorded(c)
    BY <1>2 DEF Recorded, EventsOf, When, Attached
  <2>. QED
    BY <1>2, <2>1 DEF SetuidEvent, Event, SetuidRecorded
<1>. QED
  BY <1>1, <1>2

LEMMA TracedStep == Traced /\ [Next]_vars => Traced'
<1>. SUFFICES ASSUME Traced, [Next]_vars
             PROVE  Traced'
  OBVIOUS
<1>. USE DEF Traced, AtServer, EscalatedExec
<1>1. CASE Record
  <2>1. PICK old \in Memories, read \in BOOLEAN : event' \in Recorded(call, old, read)
    BY <1>1 DEF Record
  <2>2. call' = call /\ stage' = "recorded"
    BY <1>1 DEF Record
  <2>3. /\ call.call = "execve" => OfExecve(event)'
        /\ call.call = "setuid" => OfSetuid(event)'
    <3>. DEFINE e == event'
    <3>1. e \in Recorded(call, old, read)
      BY <2>1
    <3>. HIDE DEF e
    <3>2. /\ call.call = "execve" =>
               /\ e.type = EXECVE /\ e.comm = call.comm
               /\ e.uid = call.uid /\ e.euid = call.euid
               /\ e.is_privilege_escalation = TRUE
          /\ call.call = "setuid" =>
               /\ e.type = SETUID /\ e.comm = call.comm
               /\ e.uid = call.uid /\ e.euid = call.euid
               /\ e.old_uid = call.euid /\ e.new_uid = call.new_uid
               /\ e.is_privilege_escalation = TRUE
               /\ call.euid # 0 /\ call.new_uid = 0
      BY <3>1, RecordedFields, Zenon
    <3>. QED
      BY <2>2, <3>2 DEF e, OfExecve, OfSetuid
  <2>. QED
    BY <2>2, <2>3
<1>2. CASE Ignore
  <2>1. ~EscalatedExec
    <3>1. PICK old \in Memories : Recorded(call, old, TRUE) = {}
      BY <1>2 DEF Ignore
    <3>. QED
      BY <3>1 DEF Recorded, EventsOf, When, Attached, ExecveRecorded, Privileged
  <2>. QED
    BY <1>2, <2>1 DEF Ignore
<1>3. CASE Forward
  <2>1. /\ stage = "recorded" /\ call' = call /\ event' = Decoded(event)
        /\ stage' = IF Sent(event') THEN "sent" ELSE "filtered"
    BY <1>3 DEF Forward
  <2>2. /\ event'.type = event.type /\ event'.comm = event.comm
        /\ event'.uid = event.uid /\ event'.euid = event.euid
        /\ event'.old_uid = event.old_uid /\ event'.new_uid = event.new_uid
        /\ event'.is_privilege_escalation = event.is_privilege_escalation
    BY <2>1 DEF Decoded
  <2>3. /\ call.call = "execve" => OfExecve(event)'
        /\ call.call = "setuid" => OfSetuid(event)'
    BY <2>1, <2>2 DEF OfExecve, OfSetuid
  <2>4. EscalatedExec => Sent(event')
    BY <2>1, <2>3 DEF OfExecve, Sent, IsOwn, ToLocalServer, LooksDangerous,
                      EXECVE, CONNECT
  <2>. QED
    BY <2>1, <2>3, <2>4
<1>4. CASE Rate
  BY <1>4 DEF Rate, OfExecve, OfSetuid
<1>5. CASE UNCHANGED vars
  BY <1>5 DEF vars, OfExecve, OfSetuid
<1>. QED
  BY <1>1, <1>2, <1>3, <1>4, <1>5 DEF Next

LEMMA TracedInvariant == Spec => []Traced
<1>1. Init => Traced
  BY DEF Init, Traced, AtServer
<1>. QED
  BY <1>1, TracedStep, PTL DEF Spec

LEMMA HighIsHigh ==
    ASSUME NEW e, NEW h, ~IsWhitelisted(e.comm),
           Score(e, h) \in Nat, Score(e, h) >= 25
    PROVE  Evaluate(e, h) = "HIGH"
<1>1. EvaluateRank(e, h) = 4
  BY DEF EvaluateRank, Rank
<1>. QED
  BY <1>1 DEF Evaluate, Levels

(* A program that a setuid-root process executes is HIGH in the end: for any
   calls, contents of memory and hours. *)
THEOREM EscalatedExecsAreHigh == Spec => []EscalatedExecIsHigh
<1>1. Traced => EscalatedExecIsHigh
  <2>. SUFFICES ASSUME Traced, EscalatedExec, stage = "rated"
               PROVE  level = "HIGH"
    BY DEF EscalatedExecIsHigh, EscalatedExec, Traced
  <2>1. PICK h \in Hours : level = Evaluate(event, h)
    BY DEF Traced
  <2>2. OfExecve(event) /\ isRealPrivilegeEscalation(event)
    BY DEF Traced, EscalatedExec, OfExecve, AtServer, isRealPrivilegeEscalation
  <2>3. Sum(event, h) \in Nat /\ Sum(event, h) >= 20
    <3>1. NightScore(h) \in Nat
      BY IfIsNat DEF NightScore
    <3>. QED
      BY <2>2, <3>1, TypeScoreIsNat DEF Sum, EscalationScore
  <2>4. Score(event, h) \in {25, 27}
    <3>1. RootRule(event, Sum(event, h)) = Sum(event, h)
      BY <2>2 DEF RootRule, isRealPrivilegeEscalation
    <3>2. Score(event, h) = FlagRule(event, Sum(event, h))
      BY <3>1 DEF Score, Sum
    <3>. QED
      BY <2>2, <2>3, <3>2 DEF FlagRule, OfExecve
  <2>. QED
    BY <2>1, <2>2, <2>4, HighIsHigh DEF OfExecve, EscalatedExec
<1>. QED
  BY <1>1, TracedInvariant, PTL

(* setuid(0) by a process that is not root is HIGH if it is sent: for any
   calls, contents of memory and hours. *)
THEOREM SetuidsToRootAreHigh == Spec => []SetuidToRootIsHigh
<1>1. Traced => SetuidToRootIsHigh
  <2>. SUFFICES ASSUME Traced, call.call = "setuid", stage = "rated",
                      ~IsWhitelisted(call.comm)
               PROVE  level = "HIGH"
    BY DEF SetuidToRootIsHigh
  <2>1. PICK h \in Hours : level = Evaluate(event, h)
    BY DEF Traced
  <2>2. OfSetuid(event)
    BY DEF Traced, AtServer
  <2>3. Sum(event, h) \in Nat /\ Sum(event, h) >= 30
    <3>1. NightScore(h) \in Nat /\ EscalationScore(event) \in Nat
      BY IfIsNat DEF NightScore, EscalationScore
    <3>2. TypeScore(event) \in Nat /\ TypeScore(event) >= 30
      BY <2>2 DEF TypeScore, If, OfSetuid
    <3>. QED
      BY <3>1, <3>2 DEF Sum
  <2>4. Score(event, h) \in Nat /\ Score(event, h) >= 25
    <3>1. RootRule(event, Sum(event, h)) = Sum(event, h)
      BY <2>2 DEF RootRule, OfSetuid
    <3>2. Score(event, h) = FlagRule(event, Sum(event, h))
      BY <3>1 DEF Score, Sum
    <3>. QED
      BY <2>2, <2>3, <3>2 DEF FlagRule, OfSetuid, isRealPrivilegeEscalation
  <2>. QED
    BY <2>1, <2>2, <2>4, HighIsHigh DEF OfSetuid
<1>. QED
  BY <1>1, TracedInvariant, PTL

(* The bytes nobody wrote change no decision about an execve or a setuid:
   for any bytes. *)
THEOREM GarbageNeverMatters == Spec => []GarbageIsHarmless
<1>1. IsDecoded => GarbageIsHarmless
  <2>. SUFFICES ASSUME IsDecoded, AtServer, event.type \in {EXECVE, SETUID},
                      NEW mem \in Memories
               PROVE  /\ Sent(WithMemory(event, mem)) <=> Sent(event)
                      /\ \A h \in Hours :
                            Evaluate(WithMemory(event, mem), h) = Evaluate(event, h)
    BY DEF GarbageIsHarmless
  <2>. DEFINE d == WithMemory(event, mem)
  <2>1. /\ d.type = event.type /\ d.comm = event.comm
        /\ d.uid = event.uid /\ d.euid = event.euid
        /\ d.old_uid = event.old_uid /\ d.new_uid = event.new_uid
        /\ d.filename = event.filename
        /\ d.target_file_type = event.target_file_type
        /\ d.is_privilege_escalation = event.is_privilege_escalation
    BY DEF IsDecoded, DecodedFields, WithMemory
  <2>. HIDE DEF d
  <2>2. event.type # CONNECT /\ event.type # BIND /\ event.type # EXIT
    BY DEF EXECVE, SETUID, CONNECT, BIND, EXIT
  <2>3. Sent(d) <=> Sent(event)
    BY <2>1, <2>2 DEF Sent, IsOwn, ToLocalServer, LooksDangerous
  <2>4. TypeScore(d) = TypeScore(event)
    BY <2>1, <2>2 DEF TypeScore, If
  <2>5. ASSUME NEW h PROVE Evaluate(d, h) = Evaluate(event, h)
    <3>1. EscalationScore(d) = EscalationScore(event)
      BY <2>1 DEF EscalationScore, isRealPrivilegeEscalation
    <3>2. \A n : RootRule(d, n) = RootRule(event, n)
                 /\ FlagRule(d, n) = FlagRule(event, n)
      BY <2>1 DEF RootRule, FlagRule, isRealPrivilegeEscalation
    <3>. QED
      BY <2>1, <2>4, <3>1, <3>2 DEF Evaluate, EvaluateRank, Score
  <2>. QED
    BY <2>3, <2>5 DEF d
<1>. QED
  BY <1>1, IsDecodedInvariant, PTL

-----------------------------------------------------------------------------
(* Types, and what the agent finds in the memory of an event: the ports of a
   connection are zero, whichever branch the probe took, but for the high
   byte of the destination, which the agent takes for the high byte too. *)
AttachedTypes == {EXECVE, SETUID, OPENAT, CONNECT}

HighBytes == {256 * k : k \in Byte}

Shaped ==
    /\ call \in Calls
    /\ stage \in {"call", "recorded", "ignored", "sent", "filtered", "rated"}
    /\ stage = "recorded" =>
            /\ event.type \in AttachedTypes
            /\ event.mem \in [TailBytes -> Byte]
            /\ event.type = CONNECT =>
                    Decode(event.mem).dst_port \in HighBytes
    /\ AtServer =>
            /\ event.type \in AttachedTypes
            /\ event.src_port \in U16 /\ event.dst_port \in U16
            /\ event.type = CONNECT => event.dst_port \in HighBytes
    /\ IF stage = "rated"
       THEN now \in Hours /\ level \in {Levels[i] : i \in 1 .. 4}
       ELSE now = None /\ level = None

LEMMA ZeroTailIsTail == ZeroTail \in Tails
<1>1. /\ <<0, 0, 0, 0>> \in [1 .. 4 -> Byte]
      /\ <<0, 0>> \in [1 .. 2 -> Byte]
      /\ <<0>> \in [1 .. 1 -> Byte]
  BY DEF Byte
<1>. QED
  BY <1>1 DEF ZeroTail, Tails

LEMMA ConnectTailIsTail ==
    ASSUME NEW c \in Calls, NEW read
    PROVE  /\ ConnectTail(c, read) \in Tails
           /\ ConnectTail(c, read).src_port[2] = 0
<1>1. <<6>> \in [1 .. 1 -> Byte]
  BY DEF Byte
<1>2. NetworkOrder(c.port) \in [1 .. 2 -> Byte]
  <2>1. c.port \in U16
    BY DetectionAssumption
  <2>2. c.port \in Nat /\ c.port < 256 * 256
    BY <2>1, MaxU16IsNat DEF U16
  <2>3. /\ c.port \div 256 \in Nat /\ c.port \div 256 < 256
        /\ c.port % 256 \in Nat /\ c.port % 256 < 256
    BY <2>2
  <2>4. c.port \div 256 \in Byte /\ c.port % 256 \in Byte
    BY <2>3 DEF Byte
  <2>. QED
    BY <2>4 DEF NetworkOrder
<1>3. c.addr \in [1 .. 4 -> Byte]
  BY DetectionAssumption
<1>4. ZeroTail.src_port[2] = 0
  BY DEF ZeroTail
<1>. QED
  BY <1>1, <1>2, <1>3, <1>4, ZeroTailIsTail DEF ConnectTail, Tails

LEMMA ConnectIsDecoded ==
    ASSUME NEW c \in Calls, NEW read, NEW old
    PROVE  Decode(WriteTail(old, ConnectTail(c, read))).dst_port \in HighBytes
<1>. DEFINE tail == ConnectTail(c, read)
<1>1. tail.dst_port[1] \in Byte /\ tail.src_port[2] = 0
  BY ConnectTailIsTail DEF Tails
<1>. HIDE DEF tail
<1>2. Decode(WriteTail(old, tail)).dst_port
          = tail.src_port[2] + 256 * tail.dst_port[1]
  BY AgentReadsOneByteEarly
<1>3. Decode(WriteTail(old, tail)).dst_port = 256 * tail.dst_port[1]
  BY <1>1, <1>2 DEF Byte
<1>. QED
  BY <1>1, <1>3 DEF tail, HighBytes

LEMMA RecordedShape ==
    ASSUME NEW c \in Calls, NEW old \in Memories, NEW read,
           NEW e \in Recorded(c, old, read)
    PROVE  /\ e.type \in AttachedTypes
           /\ e.mem \in [TailBytes -> Byte]
           /\ e.type = CONNECT => Decode(e.mem).dst_port \in HighBytes
<1>. USE DEF AttachedTypes, EXECVE, SETUID, OPENAT, CONNECT
<1>1. old \in [TailBytes -> Byte]
  BY DetectionAssumption
<1>2. CASE c.call = "execve"
  <2>1. e = ExecveEvent(c, old)
    BY <1>2 DEF Recorded, EventsOf, When, Attached
  <2>2. e.type = EXECVE /\ e.mem = old
    BY <2>1 DEF ExecveEvent, Event
  <2>. QED
    BY <1>1, <2>2
<1>3. CASE c.call = "setuid"
  <2>1. e = SetuidEvent(c, old)
    BY <1>3 DEF Recorded, EventsOf, When, Attached
  <2>2. e.type = SETUID /\ e.mem = old
    BY <2>1 DEF SetuidEvent, Event
  <2>. QED
    BY <1>1, <2>2
<1>4. CASE c.call = "fix_setuid"
  <2>1. e = FixSetuidEvent(c, old)
    BY <1>4 DEF Recorded, EventsOf, When, Attached
  <2>2. e.type = SETUID /\ e.mem = old
    BY <2>1 DEF FixSetuidEvent, Event
  <2>. QED
    BY <1>1, <2>2
<1>5. CASE c.call = "openat"
  <2>1. e = OpenatEvent(c, old)
    BY <1>5 DEF Recorded, EventsOf, When, Attached
  <2>2. e.type = OPENAT /\ e.mem = WriteTail(old, ZeroTail)
    BY <2>1 DEF OpenatEvent, Event
  <2>3. WriteTail(old, ZeroTail) \in [TailBytes -> Byte]
    BY <1>1, ZeroTailIsTail, WriteTailIsBytes
  <2>. QED
    BY <2>2, <2>3
<1>6. CASE c.call = "connect"
  <2>1. e = ConnectEvent(c, old, read)
    BY <1>6 DEF Recorded, EventsOf, When, Attached
  <2>2. e.type = CONNECT /\ e.mem = WriteTail(old, ConnectTail(c, read))
    BY <2>1 DEF ConnectEvent, Event
  <2>3. WriteTail(old, ConnectTail(c, read)) \in [TailBytes -> Byte]
    BY <1>1, ConnectTailIsTail, WriteTailIsBytes
  <2>4. Decode(WriteTail(old, ConnectTail(c, read))).dst_port \in HighBytes
    BY ConnectIsDecoded
  <2>. QED
    BY <2>2, <2>3, <2>4
<1>7. CASE c.call = "file_permission"
  BY <1>7 DEF Recorded, EventsOf, Attached
<1>8. CASE c.call \notin Attached
  BY <1>8 DEF Recorded
<1>. QED
  BY <1>2, <1>3, <1>4, <1>5, <1>6, <1>7, <1>8 DEF Attached

LEMMA DecodedPorts ==
    ASSUME NEW mem \in [TailBytes -> Byte]
    PROVE  Decode(mem).src_port \in U16
           /\ Decode(mem).dst_port \in U16
<1>1. /\ mem[GoSrcPort] \in Byte /\ mem[GoSrcPort + 1] \in Byte
      /\ mem[GoDstPort] \in Byte /\ mem[GoDstPort + 1] \in Byte
  BY Layout
<1>2. ASSUME NEW low \in Byte, NEW high \in Byte
      PROVE  low + 256 * high \in U16
  <2>1. low + 256 * high \in Nat /\ low + 256 * high < 256 * 256
    BY DEF Byte
  <2>. QED
    BY <2>1, MaxU16IsNat DEF U16
<1>. QED
  BY <1>1, <1>2 DEF Decode, U16At

LEMMA LevelOfRank ==
    ASSUME NEW e, NEW hour
    PROVE  Evaluate(e, hour) \in {Levels[i] : i \in 1 .. 4}
<1>1. EvaluateRank(e, hour) \in 1 .. 4
  BY DEF EvaluateRank, Rank
<1>. QED
  BY <1>1 DEF Evaluate

LEMMA ShapedStep == Shaped /\ [Next]_vars => Shaped'
<1>. SUFFICES ASSUME Shaped, [Next]_vars
             PROVE  Shaped'
  OBVIOUS
<1>. USE DEF Shaped, AtServer
<1>1. CASE Record
  <2>1. PICK old \in Memories, read \in BOOLEAN :
            event' \in Recorded(call, old, read)
    BY <1>1 DEF Record
  <2>. DEFINE e == event'
  <2>2. e \in Recorded(call, old, read)
    BY <2>1
  <2>. HIDE DEF e
  <2>3. /\ e.type \in AttachedTypes
        /\ e.mem \in [TailBytes -> Byte]
        /\ e.type = CONNECT => Decode(e.mem).dst_port \in HighBytes
    BY <2>2, RecordedShape
  <2>. QED
    BY <1>1, <2>3 DEF Record, e
<1>2. CASE Ignore
  BY <1>2 DEF Ignore
<1>3. CASE Forward
  <2>1. /\ stage = "recorded" /\ event' = Decoded(event)
        /\ stage' \in {"sent", "filtered"}
        /\ UNCHANGED <<call, now, level>>
    BY <1>3 DEF Forward
  <2>2. /\ event'.type = event.type
        /\ event'.src_port = Decode(event.mem).src_port
        /\ event'.dst_port = Decode(event.mem).dst_port
    BY <2>1 DEF Decoded
  <2>3. event'.src_port \in U16 /\ event'.dst_port \in U16
    BY <2>1, <2>2, DecodedPorts
  <2>. QED
    BY <2>1, <2>2, <2>3
<1>4. CASE Rate
  <2>1. PICK hour \in Hours : now' = hour /\ level' = Evaluate(event, hour)
    BY <1>4 DEF Rate
  <2>2. level' \in {Levels[i] : i \in 1 .. 4}
    BY <2>1, LevelOfRank
  <2>. QED
    BY <1>4, <2>1, <2>2 DEF Rate
<1>5. CASE UNCHANGED vars
  BY <1>5 DEF vars
<1>. QED
  BY <1>1, <1>2, <1>3, <1>4, <1>5 DEF Next

LEMMA ShapedInvariant == Spec => []Shaped
<1>1. Init => Shaped
  BY DEF Init, Shaped, AtServer
<1>. QED
  BY <1>1, ShapedStep, PTL DEF Spec

(* Only the events of attached programs come in, the ports the agent decodes
   are sixteen bits whatever the ring buffer held, and the server gives one of
   its four levels: for any calls, contents of memory and hours. *)
THEOREM TypeCorrect == Spec => []TypeOK
<1>1. Shaped => TypeOK
  BY DEF Shaped, TypeOK, AttachedTypes, AtServer
<1>. QED
  BY <1>1, ShapedInvariant, PTL

(* Of the port of a connection the agent sees the high byte at most.  So the
   rule for the ports of attacks never adds to the score of one, and the
   agent never takes one for its own to the server: for any calls, ports,
   addresses and contents of memory. *)
ConnectPortsAreLost ==
    (AtServer /\ event.type = CONNECT) =>
        ~isUnusualPort(event.dst_port) /\ ~ToLocalServer(event)

THEOREM ConnectPortsNeverCount == Spec => []ConnectPortsAreLost
<1>1. ASSUME NEW port \in HighBytes
      PROVE  port \notin AttackPorts /\ port # 36895
  BY DEF HighBytes, Byte, AttackPorts
<1>2. Shaped => ConnectPortsAreLost
  BY <1>1 DEF Shaped, ConnectPortsAreLost, isUnusualPort, ToLocalServer
<1>. QED
  BY <1>2, ShapedInvariant, PTL
=============================================================================
