-------------------------------- MODULE Feed --------------------------------
(***************************************************************************)
(* What the live feed promises a dashboard, without goroutines, channel,   *)
(* lock and sockets: from the oldest event of its greeting on it gets      *)
(* every event that has been broadcast, and nothing that was not posted,   *)
(* until it leaves, which is for good: it goes away, or its connection is  *)
(* spoiled by two that write to it at once.  In which order, and how       *)
(* often, is not promised.  WebSocketHub implements this.                  *)
(***************************************************************************)
EXTENDS Naturals, Sequences

CONSTANTS
    Events,
    Clients

VARIABLES
    log,      \* the events posted, in the order they were
    finished, \* those whose broadcast is over
    stage,    \* of each client: "out", "greeted", "following" or "left"
    from,     \* the place in log its feed begins at; 0 without one
    received  \* the events it was sent

vars == <<log, finished, stage, from, received>>

Posted == {log[i] : i \in DOMAIN log}

(* What a feed that begins at the n-th event has to hold of the events S. *)
Due(n, S) == {e \in S : \E i \in DOMAIN log : i >= n /\ log[i] = e}

Init ==
    /\ log = <<>>
    /\ finished = {}
    /\ stage = [c \in Clients |-> "out"]
    /\ from = [c \in Clients |-> 0]
    /\ received = [c \in Clients |-> {}]

Post(e) ==
    /\ e \notin Posted
    /\ log' = Append(log, e)
    /\ UNCHANGED <<finished, stage, from, received>>

(* The feed of a client begins with the last of the events there are. *)
Greet(c) ==
    /\ stage[c] = "out"
    /\ stage' = [stage EXCEPT ![c] = "greeted"]
    /\ \E n \in 1 .. Len(log) + 1 : from' = [from EXCEPT ![c] = n]
    /\ UNCHANGED <<log, finished, received>>

Deliver(c, e) ==
    /\ e \in Posted
    /\ received' = [received EXCEPT ![c] = @ \cup {e}]
    /\ UNCHANGED <<log, finished, stage, from>>

(* It has caught up with what was broadcast in the meantime. *)
Follow(c) ==
    /\ stage[c] = "greeted"
    /\ Due(from[c], finished) \subseteq received[c]
    /\ stage' = [stage EXCEPT ![c] = "following"]
    /\ UNCHANGED <<log, finished, from, received>>

(* A broadcast ends when every client that follows has the event. *)
Finish(e) ==
    /\ e \in Posted
    /\ \A c \in Clients :
          stage[c] = "following" => Due(from[c], {e}) \subseteq received[c]
    /\ finished' = finished \cup {e}
    /\ UNCHANGED <<log, stage, from, received>>

Leave(c) ==
    /\ stage' = [stage EXCEPT ![c] = "left"]
    /\ from' = [from EXCEPT ![c] = 0]
    /\ UNCHANGED <<log, finished, received>>

Next ==
    \/ \E e \in Events : Post(e) \/ Finish(e)
    \/ \E c \in Clients :
          Greet(c) \/ Follow(c) \/ Leave(c) \/ \E e \in Events : Deliver(c, e)

Spec == Init /\ [][Next]_vars
=============================================================================
