------------------------------ MODULE MC_Ingest ------------------------------
(* Small instances of Ingest for TLC. *)
EXTENDS Ingest

CONSTANTS r1, r2

Ev(type, filename, filepath, time, agent) ==
    [type |-> type, proc |-> "p", filename |-> filename,
     filepath |-> filepath, peer |-> "none", time |-> time, agent |-> agent]

(* Two requests for one fingerprint: every race on one row. *)
SameEvent == [r \in {r1, r2} |-> Ev("EXECVE", "su", "", 0, "host1")]

(* One process opens two files: the path is in filepath, filename is empty. *)
TwoFiles == [r \in {r1, r2} |->
    Ev("OPENAT", "", IF r = r1 THEN "/etc/shadow" ELSE "/etc/sudoers", 0,
       "host1")]
=============================================================================
