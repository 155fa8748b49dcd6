----------------------------- MODULE EventLayout -----------------------------
(***************************************************************************)
(* The bytes of an event between the probes and the agent: where the C     *)
(* compiler puts the fields of struct process_event                        *)
(* (src/kernel/process_monitor.bpf.c), and where binary.Read looks for the *)
(* fields of the agent's ProcessEvent (src/agent/main.go), which it takes  *)
(* one after the other without padding.                                    *)
(***************************************************************************)
EXTENDS Naturals, Sequences

(* The fields, in the order both declare them, with their sizes; each is
   aligned to the size of its elements. *)
Field(name, size, align) == [name |-> name, size |-> size, align |-> align]

ProcessEvent == <<
    Field("timestamp", 8, 8),
    Field("pid", 4, 4), Field("ppid", 4, 4),
    Field("uid", 4, 4), Field("gid", 4, 4),
    Field("euid", 4, 4), Field("egid", 4, 4),
    Field("old_uid", 4, 4), Field("new_uid", 4, 4),
    Field("comm", 16, 1), Field("filename", 256, 1), Field("filepath", 256, 1),
    Field("is_privilege_escalation", 1, 1), Field("event_type", 1, 1),
    Field("target_file_type", 1, 1),
    Field("src_addr", 4, 4), Field("dst_addr", 4, 4),
    Field("src_port", 2, 2), Field("dst_port", 2, 2),
    Field("protocol", 1, 1), Field("exit_code", 1, 1) >>

(* What a byte holds, and two of them. *)
Byte   == 0 .. 255
MaxU16 == 65535
U16    == 0 .. MaxU16

RoundUp(n, align) == ((n + align - 1) \div align) * align

COffset[i \in DOMAIN ProcessEvent] ==
    IF i = 1 THEN 0
    ELSE RoundUp(COffset[i - 1] + ProcessEvent[i - 1].size,
                 ProcessEvent[i].align)

GoOffset[i \in DOMAIN ProcessEvent] ==
    IF i = 1 THEN 0 ELSE GoOffset[i - 1] + ProcessEvent[i - 1].size

IndexOf(name) == CHOOSE i \in DOMAIN ProcessEvent : ProcessEvent[i].name = name

COff(name)  == COffset[IndexOf(name)]
GoOff(name) == GoOffset[IndexOf(name)]

(* The C struct ends on a multiple of its largest alignment. *)
CSize == RoundUp(COff("exit_code") + 1, 8)

-----------------------------------------------------------------------------
(* The fields that do not lie where the agent reads them are the network
   fields and the exit code: one byte of padding precedes them.  Memory is
   given byte by byte from there to the end of the struct. *)
TailStart == GoOff("src_addr")
TailBytes == TailStart .. CSize - 1

(* The field of the C struct that a byte belongs to and its position there,
   none for padding. *)
FieldsAt(b) ==
    {i \in DOMAIN ProcessEvent :
        b >= COffset[i] /\ b < COffset[i] + ProcessEvent[i].size}

Place == [b \in TailBytes |->
            {<<ProcessEvent[i].name, b - COffset[i] + 1>> : i \in FieldsAt(b)}]

(* A probe that writes its network fields leaves the padding as the buffer
   had it (old).  tail gives the bytes of each field in the order of memory:
   ports and addresses are in network byte order. *)
WriteTail(old, tail) ==
    [b \in TailBytes |->
        IF Place[b] = {} THEN old[b]
        ELSE LET at == CHOOSE p \in Place[b] : TRUE IN tail[at[1]][at[2]]]

NetworkOrder(port) == <<port \div 256, port % 256>>

(* What the agent makes of the bytes: its ports are little-endian. *)
GoDstAddr  == GoOff("dst_addr")
GoSrcPort  == GoOff("src_port")
GoDstPort  == GoOff("dst_port")
GoExitCode == GoOff("exit_code")

U16At(mem, off) == mem[off] + 256 * mem[off + 1]

Decode(mem) ==
    [dst_addr  |-> [i \in 1 .. 4 |-> mem[GoDstAddr + i - 1]],
     src_port  |-> U16At(mem, GoSrcPort),
     dst_port  |-> U16At(mem, GoDstPort),
     exit_code |-> mem[GoExitCode]]
=============================================================================
