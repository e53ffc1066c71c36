--------------------------- MODULE MCEventSource --------------------------
(* An instance of EventSource for TLC: three notifications, of which the   *)
(* first does not decode and the second names two objects; the third names *)
(* one of them again.                                                      *)
EXTENDS EventSource, TLC

CONSTANTS o1, o2

ThreeMessages == 1 :> {o2} @@ 2 :> {o1, o2} @@ 3 :> {o1}
============================================================================
