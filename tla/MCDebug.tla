-------------------------------- MODULE MCDebug --------------------------------
(***************************************************************************)
(* Debugging, for TLC.  A behaviour is the gate with an engine that calls  *)
(* and a client that may do anything at any time; a whole session of the   *)
(* adapter, its three threads and the gate between them; or the source     *)
(* index of a document that is being parsed.                               *)
(***************************************************************************)
EXTENDS DapSession, SourceIndex

CONSTANTS atStep, atOutput

VARIABLE part      (* the component at work                                *)

vars == <<dapVars, docVars, part>>

(***************************************************************************)
(* A step checkpoint and an output checkpoint, at which a client may break *)
(* always, on a condition, or on a condition and then always.              *)
(***************************************************************************)
Always == [place |-> atOutput, conditional |-> FALSE]
Maybe  == [place |-> atOutput, conditional |-> TRUE]

MCPlaces == {atStep, atOutput}
MCOutputs == {atOutput}
MCBreakpointLists == {<<>>, <<Maybe>>, <<Maybe, Always>>}

(***************************************************************************)
(* A session is explored with one checkpoint, no calls, one kind of step   *)
(* command and one breakpoint at most.                                     *)
(***************************************************************************)
SmallSession ==
  /\ chain' \in {<<NoPlace>>, <<atOutput>>}
  /\ asked'.kind \in {"Continue", "StepIn"}
  /\ pending' \in {<<>>, <<Maybe>>}

DebuggingInit ==
  /\ SessionInit /\ SourceInit
  /\ part \in {"gate", "session", "source"}

DebuggingNext ==
  \/ part = "gate" /\ DebugNext /\ UNCHANGED <<sessionVars, docVars, part>>
  \/ part = "session" /\ SessionNext /\ SmallSession /\ UNCHANGED <<docVars, part>>
  \/ part = "source" /\ SourceNext /\ UNCHANGED <<dapVars, part>>

DebuggingSpec == DebuggingInit /\ [][DebuggingNext]_vars

(***************************************************************************)
(* Blocking tasks are scheduled, and the wait at a gate polls.             *)
(***************************************************************************)
FairGate ==
  /\ WF_debugVars(part = "gate" /\ LeaveGate)
  /\ WF_debugVars(part = "gate" /\ (PassGate \/ FailGate \/ StopAtGate))
  /\ WF_debugVars(part = "gate" /\ EngineEnds)

(***************************************************************************)
(* So are the threads of a session; its client may never send anything.    *)
(***************************************************************************)
FairSession ==
  /\ WF_dapVars(part = "session" /\ Coordinator /\ SmallSession)
  /\ WF_dapVars(part = "session" /\ Monitor)
  /\ WF_dapVars(part = "session" /\ ThreadDone)
  /\ WF_dapVars(part = "session" /\ started /\ LeaveGate /\ UNCHANGED sessionVars)
  /\ WF_dapVars(part = "session" /\ started /\ (PassGate \/ FailGate \/ StopAtGate) /\ UNCHANGED sessionVars)
  /\ WF_dapVars(part = "session" /\ started /\ EngineEnds /\ UNCHANGED sessionVars)

FairDebugging == DebuggingSpec /\ FairGate /\ FairSession
=============================================================================
