---------------------------- MODULE MC_Collector ----------------------------
(* A small instance of Collector for TLC: e4 is the agent's own event, e5 one
   of a whitelisted program. *)
EXTENDS Collector

CONSTANTS e1, e2, e4, e5
=============================================================================
