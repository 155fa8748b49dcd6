------------------------------ MODULE Delivery ------------------------------
(***************************************************************************)
(* What the way from a probe to the server promises for each event,        *)
(* without buffers, slots, goroutines or requests: it arrives at most      *)
(* once, the outcome the agent holds is never wrong, and it may be none.   *)
(* Collector implements this.                                              *)
(***************************************************************************)
EXTENDS Sequences

CONSTANTS
    Events,     \* the events that may happen
    Reportable  \* those the server is meant to see

(* "lost": not sent and never will be; "unsure": sent, outcome unknown;
   "told": sent, and the server said so. *)
Statuses == {"new", "open", "posted", "lost", "unsure", "told"}

VARIABLES
    status, \* what the agent knows of each event
    log     \* the events that have arrived, in order

vars == <<status, log>>

Arrived == {e \in Events : \E i \in DOMAIN log : log[i] = e}

Init ==
    /\ status = [e \in Events |-> "new"]
    /\ log = <<>>

Becomes(e, from, to) ==
    /\ status[e] \in from
    /\ status' = [status EXCEPT ![e] = to]
    /\ UNCHANGED log

Notice(e) == Becomes(e, {"new"}, "open")
Lose(e)   == Becomes(e, {"new", "open"}, "lost")
Post(e)   == e \in Reportable /\ Becomes(e, {"open"}, "posted")
Doubt(e)  == Becomes(e, {"posted"}, "unsure")
Tell(e)   == e \in Arrived /\ Becomes(e, {"posted"}, "told")

(* A post that was given up may still arrive. *)
Arrive(e) ==
    /\ status[e] \in {"posted", "unsure"}
    /\ e \notin Arrived
    /\ log' = Append(log, e)
    /\ UNCHANGED status

(* The agent leaves: what it has not sent is lost, what it has is open. *)
Leave ==
    /\ status' = [e \in Events |->
                    CASE status[e] = "open"   -> "lost"
                      [] status[e] = "posted" -> "unsure"
                      [] OTHER                -> status[e]]
    /\ UNCHANGED log

Next ==
    \/ \E e \in Events :
          Notice(e) \/ Lose(e) \/ Post(e) \/ Doubt(e) \/ Tell(e) \/ Arrive(e)
    \/ Leave

Spec == Init /\ [][Next]_vars
=============================================================================
