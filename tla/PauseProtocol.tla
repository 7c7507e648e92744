----------------------------- MODULE PauseProtocol -----------------------------
(***************************************************************************)
(* What a debugger front end is promised of a run it can pause: the run    *)
(* stops, each stop with a later number than any before it; only the       *)
(* front end, or the end of the run, takes it out of a stop; and what it   *)
(* may inspect is what the run stopped with.                               *)
(***************************************************************************)
EXTENDS Naturals

VARIABLES
  state,  (* the run as the front end knows it                             *)
  count,  (* stops so far                                                  *)
  view    (* the activations the client can inspect, 0 while it runs       *)

States == {"running", "stopped", "over"}

Init == state = "running" /\ count = 0 /\ view = 0

Stop ==
  /\ state = "running"
  /\ state' = "stopped" /\ count' = count + 1 /\ view' \in Nat \ {0}

Resume ==
  /\ state = "stopped"
  /\ state' = "running" /\ view' = 0 /\ UNCHANGED count

End ==
  /\ state # "over"
  /\ state' = "over" /\ view' = 0 /\ UNCHANGED count

Next == Stop \/ Resume \/ End

Spec == Init /\ [][Next]_<<state, count, view>>
=============================================================================
