---------------------------- MODULE MC_Detection ----------------------------
(* Every program, credentials and paths of the tables; ports and addresses
   that the rules tell apart; a buffer of zeros and one that held an event
   whose bytes read as an attack port at every offset. *)
EXTENDS Detection, TLC

Uids == {0, 1000, 1001}

Call(name, comm, uid, euid, new_uid, new_euid, path, port, addr) ==
    [call |-> name, comm |-> comm, uid |-> uid, euid |-> euid,
     new_uid |-> new_uid, new_euid |-> new_euid, path |-> path,
     port |-> port, addr |-> addr, code |-> 1]

Localhost == <<127, 0, 0, 1>>
Elsewhere == <<10, 0, 0, 9>>

MCCalls ==
    LET P(S(_, _, _)) == UNION {S(c, u, e) : c \in Comms, u \in Uids, e \in Uids}
        Exec(c, u, e) == {Call("execve", c, u, e, u, e, p, 0, Elsewhere) :
                            p \in {"/usr/bin/p", "/home/u/f"}}
        Setuid(c, u, e) == {Call(k, c, u, e, nu, ne, "", 0, Elsewhere) :
                            k \in {"setuid", "fix_setuid"},
                            nu \in {0, 1000}, ne \in {0, 1000}}
        Open(c, u, e) == {Call("openat", c, u, e, u, e, p, 0, Elsewhere) :
                            p \in Paths \ {""}}
        Conn(c, u, e) == {Call(k, c, u, e, u, e, "", p, a) :
                            k \in {"connect", "bind"},
                            p \in {80, 4444, 8080}, a \in {Localhost, Elsewhere}}
        Other(c, u, e) == {Call(k, c, u, e, u, e, "/etc/passwd", 0, Elsewhere) :
                            k \in {"file_permission", "exit"}}
    IN  P(Exec) \cup P(Setuid) \cup P(Open) \cup P(Conn) \cup P(Other)

MCMemories == {[b \in TailBytes |-> 0],
               [b \in TailBytes |-> IF b % 2 = 1 THEN 92 ELSE 17]}

MCHours == {5, 6, 12, 21, 22}
=============================================================================
