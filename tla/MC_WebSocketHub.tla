--------------------------- MODULE MC_WebSocketHub ---------------------------
(* Small instances of WebSocketHub for TLC. *)
EXTENDS WebSocketHub, TLC

CONSTANTS e1, e2, e3, c1, c2

Symmetric == Permutations({e1, e2, e3} \cap Events) \cup Permutations({c1, c2})
=============================================================================
