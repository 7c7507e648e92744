--------------------------- MODULE AttemptProtocol ---------------------------
(***************************************************************************)
(* What observers, trace hooks and trace readers are promised about the    *)
(* attempts of an invocation that runs in parallel levels: the stream of a *)
(* run of one step at a time, but for first attempts announced together.   *)
(* An attempt is announced, then completed under the next number of its    *)
(* step; a retry is reported, then announced like any attempt.  Announced  *)
(* steps complete in step order, and nothing else is reported from a       *)
(* step's first retry until its last attempt completes.                    *)
(***************************************************************************)
EXTENDS Naturals

CONSTANT Steps      (* step numbers                                        *)

VARIABLES
  stage,            (* how far the stream has got with each step           *)
  number            (* completed attempts of each step                     *)

streamVars == <<stage, number>>

Stages == {"new", "announced", "completed", "scheduled"}

StreamInit ==
  /\ stage = [i \in Steps |-> "new"]
  /\ number = [i \in Steps |-> 0]

Retrying(i) == stage[i] = "scheduled" \/ (stage[i] = "announced" /\ number[i] > 0)

NothingElseRetrying(i) == \A j \in Steps \ {i} : ~Retrying(j)

Announce(i) ==
  /\ stage[i] \in {"new", "scheduled"}
  /\ NothingElseRetrying(i)
  /\ stage' = [stage EXCEPT ![i] = "announced"]
  /\ UNCHANGED number

Complete(i) ==
  /\ stage[i] = "announced"
  /\ NothingElseRetrying(i)
  /\ \A j \in Steps : j < i => stage[j] # "announced"
  /\ stage' = [stage EXCEPT ![i] = "completed"]
  /\ number' = [number EXCEPT ![i] = @ + 1]

ReportRetry(i) ==
  /\ stage[i] = "completed"
  /\ NothingElseRetrying(i)
  /\ stage' = [stage EXCEPT ![i] = "scheduled"]
  /\ UNCHANGED number

StreamNext == \E i \in Steps : Announce(i) \/ Complete(i) \/ ReportRetry(i)

StreamSpec == StreamInit /\ [][StreamNext]_streamVars
=============================================================================
