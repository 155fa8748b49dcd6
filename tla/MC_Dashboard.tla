---------------------------- MODULE MC_Dashboard ----------------------------
(* A small instance of Dashboard for TLC. *)
EXTENDS Dashboard, TLC

CONSTANTS e1, e2, e3

(* Two processes of one parent, at the two ends of the window of a session,
   and between them, at the time of the older one, its child. *)
MCRow ==
    (e1 :> [id |-> 1, pid |-> 7, ppid |-> 1, ts |-> 3, risk |-> 0]) @@
    (e2 :> [id |-> 2, pid |-> 8, ppid |-> 7, ts |-> 3, risk |-> 3]) @@
    (e3 :> [id |-> 3, pid |-> 9, ppid |-> 1, ts |-> 8, risk |-> 0])
=============================================================================
