---------------------------- MODULE RiskAnalyzer ----------------------------
(***************************************************************************)
(* RiskAnalyzer.Evaluate (src/server/risk_analyzer.go): the score of an    *)
(* event, step by step as the code adds it up and overrides it, and its    *)
(* level.  now is the hour at which the server handles the event.          *)
(***************************************************************************)
EXTENDS Programs

EXECVE     == 0
SETUID     == 1
FILE_WRITE == 2
OPENAT     == 3
CONNECT    == 4
BIND       == 5
EXIT       == 6

CommonPorts == {21, 22, 23, 25, 53, 80, 110, 143, 443, 3306, 3389, 5432, 8080}
AttackPorts == {4444, 5555, 6666, 1234, 12345, 31337}

isUnusualPort(port) ==
    port # 0 /\ port \notin CommonPorts /\ port \in AttackPorts

If(cond, points) == IF cond THEN points ELSE 0

isRealPrivilegeEscalation(e) == e.uid # 0 /\ e.euid = 0

EscalationScore(e) ==
    IF isRealPrivilegeEscalation(e) THEN 20
    ELSE If(e.is_privilege_escalation, 3)

TypeScoreAnyPort(e) == \* variant: the port counts for every type
    If(e.type = SETUID /\ e.new_uid = 0 /\ e.old_uid # 0, 30)
        + If(isUnusualPort(e.dst_port), 15)

(* The cases of the switch are exclusive, so their points may be added. *)
TypeScore(e) ==
    If(e.type = EXECVE /\ isHighRiskProgram(e.comm), 15)
    + If(e.type = EXECVE /\ isSensitivePath(e.filename), 10)
    + If(e.type = SETUID /\ e.new_uid = 0 /\ e.old_uid # 0, 30)
    + If(e.type = FILE_WRITE /\ e.target_file_type \in {1, 2}, 35)
    + If(e.type = OPENAT /\ isSensitiveFileAccess(e.target_file_type), 20)
    + If(e.type = CONNECT /\ isReverseShell(e.comm), 40)
    + If(e.type = CONNECT /\ isSuspiciousTool(e.comm), 25)
    + If(e.type = CONNECT /\ isUnusualPort(e.dst_port), 15)
    + If(e.type = BIND /\ e.src_port > 0 /\ e.src_port < 1024, 20)
    + If(e.type = EXIT /\ e.exit_code # 0, 5)

NightScoreByDay(now) == If(now < 22 /\ now >= 6, 5) \* variant: negated

NightScore(now) == If(now >= 22 \/ now < 6, 5)

RootRuleAny(e, score) == \* variant: || for &&
    IF e.uid # 0 /\ e.euid # 0 THEN score
    ELSE IF isHighRiskProgram(e.comm) THEN 15
    ELSE IF isSensitivePath(e.filename) \/ isReverseShell(e.comm) THEN score
    ELSE 0

(* A program run by root as root: ordinary ones count nothing, and one of
   high risk exactly 15, whatever was added up so far. *)
RootRule(e, score) ==
    IF e.uid # 0 \/ e.euid # 0 THEN score
    ELSE IF isHighRiskProgram(e.comm) THEN 15
    ELSE IF isSensitivePath(e.filename) \/ isReverseShell(e.comm) THEN score
    ELSE 0

FlagRuleBelowHigh(e, score) == \* variant: below the threshold of HIGH
    IF ~e.is_privilege_escalation \/ score = 0 THEN score
    ELSE IF e.comm \in {"sudo", "su"} THEN 24
    ELSE IF isRealPrivilegeEscalation(e) THEN 20
    ELSE score

(* An event flagged as an escalation that counts anything: sudo and su are
   27, a real escalation is 25, others stay. *)
FlagRule(e, score) ==
    IF ~e.is_privilege_escalation \/ score = 0 THEN score
    ELSE IF e.comm \in {"sudo", "su"} THEN 27
    ELSE IF isRealPrivilegeEscalation(e) THEN 25
    ELSE score

Score(e, now) ==
    FlagRule(e, RootRule(e, EscalationScore(e) + TypeScore(e) + NightScore(now)))

Levels == <<"NONE", "LOW", "MEDIUM", "HIGH">>

(* The rank of a level in Levels; the code's thresholds are 25, 12 and 0. *)
Rank(score) ==
    IF score >= 25 THEN 4 ELSE IF score >= 12 THEN 3
    ELSE IF score > 0 THEN 2 ELSE 1

EvaluateRank(e, now) == IF IsWhitelisted(e.comm) THEN 1 ELSE Rank(Score(e, now))

Evaluate(e, now) == Levels[EvaluateRank(e, now)]
=============================================================================
