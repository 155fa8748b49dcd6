----------------------------- MODULE AgentFilter -----------------------------
(***************************************************************************)
(* What the agent (src/agent/main.go) makes of an event it has read: its   *)
(* own are skipped, those of whitelisted programs are sent only when they  *)
(* look dangerous, the rest are sent.                                      *)
(***************************************************************************)
EXTENDS KernelProbes

(* The fields of the event as binary.Read decodes them. *)
Decoded(e) ==
    [type |-> e.type, comm |-> e.comm, uid |-> e.uid, euid |-> e.euid,
     old_uid |-> e.old_uid, new_uid |-> e.new_uid,
     filename |-> e.filename, filepath |-> e.filepath,
     target_file_type |-> e.target_file_type,
     is_privilege_escalation |-> e.is_privilege_escalation,
     dst_addr |-> Decode(e.mem).dst_addr, src_port |-> Decode(e.mem).src_port,
     dst_port |-> Decode(e.mem).dst_port, exit_code |-> Decode(e.mem).exit_code]

IsOwn(d) == d.comm = "agent"

(* 127.0.0.1 in network order, and 8080 in network order read as a u16. *)
ToLocalServer(d) ==
    /\ d.type = CONNECT
    /\ d.dst_addr = <<127, 0, 0, 1>>
    /\ d.dst_port = 36895

LooksDangerousByType(d) == \* variant: credentials are not looked at
    \/ d.type = FILE_WRITE /\ d.target_file_type \in {1, 2}
    \/ d.type = CONNECT /\ AgentShell(d.comm)

LooksDangerous(d) ==
    \/ d.uid # 0 /\ d.euid = 0
    \/ d.type = FILE_WRITE /\ d.target_file_type \in {1, 2}
    \/ d.type = CONNECT /\ AgentShell(d.comm)

Sent(d) ==
    /\ ~IsOwn(d)
    /\ ~ToLocalServer(d)
    /\ AgentWhitelisted(d.comm) => LooksDangerous(d)
=============================================================================
