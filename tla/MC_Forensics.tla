---------------------------- MODULE MC_Forensics ----------------------------
(* A small instance of Forensics for TLC. *)
EXTENDS Forensics, TLC

CONSTANTS a, b, c

Ev(pid, ppid, agent, type, target) ==
    [pid |-> pid, ppid |-> ppid, agent |-> agent, type |-> type,
     target |-> target]

(* A process connects and does something unknown to a file of interest, its
   child something else unknown. *)
MCEvent == (a :> Ev(7, 1, "host1", 4, 0)) @@
           (b :> Ev(7, 1, "host2", 7, 1)) @@
           (c :> Ev(8, 7, "host1", 8, 0))

(* Night is every other tick. *)
MCRiskAt == [k \in {a, b, c} |-> [t \in 0 .. 5 |->
                IF k = b \/ t % 2 = 1 THEN "HIGH" ELSE "NONE"]]
MCLag == [k \in {a, b, c} |-> IF k = b THEN 1 ELSE 0]

MCZones == {-1, 1}

(* Requests are followed only once rows of every age may be there. *)
RequestsWhenSettled == at # "idle" => now = 3
=============================================================================
