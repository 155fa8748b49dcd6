---------------------------- MODULE KernelProbes ----------------------------
(***************************************************************************)
(* The eBPF programs (src/kernel/process_monitor.bpf.c) as functions of    *)
(* what a process does: whether an event is recorded, and what is in it.   *)
(*                                                                         *)
(* A call is a record of the process (comm, uid, euid) and what the system *)
(* call is about.  old is what the reserved memory of the ring buffer held *)
(* before: the fields a program does not write stay as they were.          *)
(***************************************************************************)
EXTENDS RiskAnalyzer, EventLayout

(* The columns every program fills in the same way. *)
Event(c, type, flag, old_uid, new_uid, mem) ==
    [type |-> type, comm |-> c.comm, uid |-> c.uid, euid |-> c.euid,
     old_uid |-> old_uid, new_uid |-> new_uid,
     filename |-> "", filepath |-> "", target_file_type |-> FILE_NONE,
     is_privilege_escalation |-> flag, mem |-> mem]

(* The network fields and exit code of a program that has none. *)
ZeroTail ==
    [src_addr |-> <<0, 0, 0, 0>>, dst_addr |-> <<0, 0, 0, 0>>,
     src_port |-> <<0, 0>>, dst_port |-> <<0, 0>>,
     protocol |-> <<0>>, exit_code |-> <<0>>]

(* root and setuid processes; the filter of openat, connect, bind and exit. *)
Privileged(c) == c.euid = 0 \/ c.euid # c.uid

(* execve: recorded for a privileged caller, before the new image and its
   credentials are in place. *)
ExecveRecorded(c) == Privileged(c)
ExecveEvent(c, old) ==
    [Event(c, EXECVE, TRUE, c.uid, c.euid, old) EXCEPT !.filename = c.path]

(* sys_enter_setuid: setuid(0) by a process that is not root, before it is
   known whether the call will succeed. *)
SetuidRecorded(c) == c.euid # 0 /\ c.new_uid = 0
SetuidEvent(c, old) == Event(c, SETUID, TRUE, c.euid, c.new_uid, old)

(* lsm/task_fix_setuid.  The kernel calls the hook with the new credentials,
   the old ones and flags (kernel/vmlinux.h declares it so); the program takes
   them for a task, the new and the old credentials.  What it reads as the new
   ones are the old, and the flags are not an address: both reads of the old
   ones fail and leave the zeros they were initialised with. *)
HookNew(c) == [uid |-> c.uid, euid |-> c.euid]
HookOld(c) == [uid |-> 0, euid |-> 0]

FixSetuidRecorded(c) ==
    /\ HookOld(c).uid # 0 \/ HookOld(c).euid # 0
    /\ HookNew(c).uid = 0 \/ HookNew(c).euid = 0
FixSetuidEvent(c, old) ==
    [Event(c, SETUID, TRUE, HookOld(c).euid, HookNew(c).euid, old)
        EXCEPT !.uid = HookOld(c).uid, !.euid = HookNew(c).euid]

(* openat: sensitive files, and every file of a privileged process. *)
OpenatRecorded(c) == TargetFileType(c.path) # FILE_NONE \/ Privileged(c)
OpenatEvent(c, old) ==
    [Event(c, OPENAT, c.euid # c.uid, c.uid, c.euid,
           WriteTail(old, ZeroTail))
        EXCEPT !.filepath = c.path,
               !.target_file_type = TargetFileType(c.path)]

(* connect: shells, tools and privileged processes.  The address is in user
   memory but is read with bpf_probe_read_kernel, which on most kernels fails
   and leaves zeros; read tells whether it succeeds. *)
ConnectRecorded(c) ==
    KernelShell(c.comm) \/ KernelTool(c.comm) \/ Privileged(c)
ConnectTail(c, read) ==
    IF read
    THEN [ZeroTail EXCEPT !.dst_addr = c.addr,
                          !.dst_port = NetworkOrder(c.port), !.protocol = <<6>>]
    ELSE [ZeroTail EXCEPT !.protocol = <<6>>]
ConnectEvent(c, old, read) ==
    Event(c, CONNECT, c.euid # c.uid, c.uid, c.euid,
          WriteTail(old, ConnectTail(c, read)))

BindRecorded(c) == Privileged(c)
BindTail(c, read) ==
    IF read
    THEN [ZeroTail EXCEPT !.src_addr = c.addr,
                          !.src_port = NetworkOrder(c.port), !.protocol = <<6>>]
    ELSE [ZeroTail EXCEPT !.protocol = <<6>>]
BindEvent(c, old, read) ==
    Event(c, BIND, c.euid # c.uid, c.uid, c.euid,
          WriteTail(old, BindTail(c, read)))

ExitRecorded(c) == Privileged(c)
ExitEvent(c, old) ==
    Event(c, EXIT, c.euid # c.uid, c.uid, c.euid,
          WriteTail(old, [ZeroTail EXCEPT !.exit_code = <<c.code>>]))

AttachedAll == \* variant: every program of the object file
    {"execve", "setuid", "fix_setuid", "file_permission", "openat", "connect",
     "bind", "exit"}

(* What the agent's main attaches: trace_bind and trace_exit are not there. *)
Attached == {"execve", "setuid", "fix_setuid", "file_permission", "openat",
             "connect"}

(* The events of a call: none or one.  handle_file_permission returns 0
   whatever it is asked. *)
When(cond, e) == IF cond THEN {e} ELSE {}

EventsOf(c, old, read) ==
    CASE c.call = "execve"     -> When(ExecveRecorded(c), ExecveEvent(c, old))
      [] c.call = "setuid"     -> When(SetuidRecorded(c), SetuidEvent(c, old))
      [] c.call = "fix_setuid" -> When(FixSetuidRecorded(c), FixSetuidEvent(c, old))
      [] c.call = "openat"     -> When(OpenatRecorded(c), OpenatEvent(c, old))
      [] c.call = "connect"    -> When(ConnectRecorded(c), ConnectEvent(c, old, read))
      [] c.call = "bind"       -> When(BindRecorded(c), BindEvent(c, old, read))
      [] c.call = "exit"       -> When(ExitRecorded(c), ExitEvent(c, old))
      [] c.call = "file_permission" -> {}

Recorded(c, old, read) == IF c.call \in Attached THEN EventsOf(c, old, read) ELSE {}
=============================================================================
