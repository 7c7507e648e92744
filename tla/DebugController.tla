--------------------------- MODULE DebugController ---------------------------
(***************************************************************************)
(* The gate between a running engine and whoever debugs it.  The engine    *)
(* passes gate_step at every checkpoint; the controller's mutex makes each *)
(* of its operations atomic, except that gate_step, which holds the mutex, *)
(* reads the cancellation token twice, so it has two actions, during which *)
(* no other operation runs.                                                *)
(*                                                                         *)
(* The engine is any sequence of checkpoints, calls and returns: chain[i]  *)
(* is the checkpoint that the activation at depth i - 1 last passed.       *)
(* Evaluation contexts and scopes are the checkpoint they belong to.       *)
(***************************************************************************)
EXTENDS Naturals, Sequences, SequencesExt, FiniteSetsExt

CONSTANTS
  Places,        (* checkpoints: a step, a criterion, an action, an output *)
  NoPlace,       (* an activation that has passed none                     *)
  Outputs,       (* the places that are output checkpoints                 *)
  Entries,       (* how the engine may be entered                          *)
  StepKinds,     (* the step commands that the client uses                 *)
  MaxDepth,      (* bound of the model: the deepest activation             *)
  MaxStops,      (* bound of the model: the stops of a run                 *)
  MaxDiagnostics (* bound of the model: unresolved outputs of a run        *)

ASSUME PlacesAssumption == NoPlace \notin Places /\ Outputs \subseteq Places
ASSUME EntriesAssumption ==
  Entries \subseteq {"execute", "execute_step"} /\ StepKinds \subseteq {"StepIn", "StepOver", "StepOut"}
ASSUME DebugBoundsAssumption ==
  MaxDepth \in Nat /\ MaxStops \in Nat /\ MaxDiagnostics \in Nat

VARIABLES
  entry,         (* execute, or execute_step                               *)
  engine,        (* where the engine's task is                             *)
  chain,         (* its activations                                        *)
  cancelled,     (* the token                                              *)
  breakpoints, pauseRequested, runMode, waiting, permit,
  stops, nextSeq, stack, frames,
  diagnostics,   (* unresolved outputs not yet taken                       *)
  poisoned,      (* a thread panicked while it held the mutex              *)
  asked,         (* history: the step the client was last granted          *)
  answered       (* history: the stop that grant was for                   *)

ctlVars == <<breakpoints, pauseRequested, runMode, waiting, permit, stops, nextSeq,
             stack, frames, diagnostics, poisoned>>
engineVars == <<entry, engine, chain, cancelled>>
askVars == <<asked, answered>>
debugVars == <<engineVars, ctlVars, askVars>>

Breakpoint == [place : Places, conditional : BOOLEAN]
Mode == [kind : {"Continue", "StepIn", "StepOver", "StepOut"}, seq : Nat, depth : Nat]
Continue == [kind |-> "Continue", seq |-> 0, depth |-> 0]

Depth == Len(chain) - 1
Top == chain[Len(chain)]

DebugTypeOK ==
  /\ entry \in Entries
  /\ engine \in {"running", "deciding", "paused", "ended"}
  /\ chain \in Seq(Places \union {NoPlace}) /\ Len(chain) \in 1 .. MaxDepth + 1
  /\ breakpoints \in Seq(Breakpoint)
  /\ {cancelled, pauseRequested, waiting, permit, poisoned} \subseteq BOOLEAN
  /\ runMode \in Mode /\ asked \in Mode
  /\ stops \in Seq([seq : Nat, depth : Nat, place : Places,
                    reason : {"Breakpoint", "Pause", "Step"}])
  /\ nextSeq \in 0 .. MaxStops /\ answered \in 0 .. MaxStops
  /\ stack \in Seq(Places \union {NoPlace}) /\ frames \in Seq(Places)
  /\ diagnostics \in 0 .. MaxDiagnostics

\* The mutex is free: its holder is the engine, between the actions of a gate.
Unlocked == engine # "deciding" /\ ~poisoned

DebugInit ==
  /\ entry \in Entries /\ engine = "running" /\ chain = <<NoPlace>> /\ cancelled = FALSE
  /\ breakpoints = <<>> /\ pauseRequested \in BOOLEAN /\ runMode = Continue
  /\ waiting = FALSE /\ permit = FALSE /\ stops = <<>> /\ nextSeq = 0
  /\ stack = <<>> /\ frames = <<>> /\ diagnostics = 0 /\ poisoned = FALSE
  /\ asked = Continue /\ answered = 0

-----------------------------------------------------------------------------
(***************************************************************************)
(* The engine between two gates.  A step's own checkpoint comes before     *)
(* anything else of the step in a workflow run; execute_step has none for  *)
(* the steps it selects.                                                   *)
(***************************************************************************)
Call ==
  /\ engine = "running" /\ ~cancelled /\ Depth < MaxDepth
  /\ Top # NoPlace \/ (entry = "execute_step" /\ Depth = 0)
  /\ chain' = Append(chain, NoPlace)
  /\ UNCHANGED <<entry, engine, cancelled, ctlVars, askVars>>

Return ==
  /\ engine = "running" /\ Depth > 0
  /\ chain' = Front(chain)
  /\ UNCHANGED <<entry, engine, cancelled, ctlVars, askVars>>

\* execute_step begins its next step, which has no checkpoint of its own.
BeginUngated ==
  /\ engine = "running" /\ ~cancelled /\ entry = "execute_step" /\ Depth = 0
  /\ chain' = <<NoPlace>>
  /\ UNCHANGED <<entry, engine, cancelled, ctlVars, askVars>>

EngineEnds ==
  /\ engine = "running" /\ (Depth = 0 \/ cancelled)
  /\ engine' = "ended"
  /\ UNCHANGED <<entry, chain, cancelled, ctlVars, askVars>>

\* A workflow's outputs are built when its steps are done; one that does not
\* resolve is reported without a checkpoint.
ReportWorkflowOutput ==
  /\ engine = "running" /\ ~poisoned /\ diagnostics < MaxDiagnostics
  /\ diagnostics' = diagnostics + 1
  /\ UNCHANGED <<engineVars, breakpoints, pauseRequested, runMode, waiting, permit, stops,
                 nextSeq, stack, frames, poisoned, askVars>>

Cancel ==
  /\ ~cancelled /\ cancelled' = TRUE
  /\ UNCHANGED <<entry, engine, chain, ctlVars, askVars>>

-----------------------------------------------------------------------------
(***************************************************************************)
(* gate_step.                                                              *)
(***************************************************************************)
\* mutant: deeper entries of a returned call stay
UpsertKeeping(stk, place, depth) ==
  [i \in 1 .. (IF Len(stk) > depth THEN Len(stk) ELSE depth + 1) |->
     IF i = depth + 1 THEN place ELSE IF i <= Len(stk) THEN stk[i] ELSE NoPlace]

\* upsert_stack_frame: exactly depth + 1 entries, blank where no activation
\* has passed a gate.
Upsert(stk, place, depth) ==
  [i \in 1 .. depth + 1 |->
     IF i = depth + 1 THEN place ELSE IF i <= Len(stk) THEN stk[i] ELSE NoPlace]

\* frames.truncate(depth), then push.
PushFrame(frs, place, depth) ==
  Append(IF Len(frs) > depth THEN SubSeq(frs, 1, depth) ELSE frs, place)

EnterGate(p) ==
  /\ engine = "running" /\ Unlocked /\ ~cancelled /\ nextSeq < MaxStops
  /\ chain' = [chain EXCEPT ![Len(chain)] = p]
  /\ \E unresolved \in {0} \union (IF p \in Outputs THEN {1} ELSE {}) :
       /\ diagnostics + unresolved <= MaxDiagnostics
       /\ diagnostics' = diagnostics + unresolved
  /\ frames' = PushFrame(frames, p, Depth)
  /\ stack' = Upsert(stack, p, Depth)
  /\ engine' = "deciding"
  /\ UNCHANGED <<entry, cancelled, breakpoints, pauseRequested, runMode, waiting, permit,
                 stops, nextSeq, poisoned, askVars>>

\* should_stop_for_step_mode
ShouldStop(mode, seq, depth) ==
  CASE mode.kind = "Continue" -> FALSE
    [] mode.kind = "StepIn"   -> seq > mode.seq
    [] mode.kind = "StepOver" -> seq > mode.seq /\ depth <= mode.depth
    [] mode.kind = "StepOut"  -> seq > mode.seq /\ depth <= mode.depth

\* first_matching_breakpoint: what evaluating the conditions in order may
\* come to.  The first breakpoint at the place that holds, or cannot be
\* evaluated, decides.
Verdicts ==
  LET here == {i \in DOMAIN breakpoints : breakpoints[i].place = Top} IN
  {v \in {"miss", "hit", "error"} :
     CASE v = "miss"  -> \A i \in here : breakpoints[i].conditional
       [] v = "hit"   -> here # {}
       [] v = "error" -> here # {} /\ breakpoints[Min(here)].conditional}

Reason(verdict) ==
  IF verdict = "hit" THEN "Breakpoint"
  ELSE IF pauseRequested THEN "Pause"
  ELSE IF ShouldStop(runMode, nextSeq + 1, Depth) THEN "Step" ELSE "none"

\* No reason to stop, or the token fired since the gate was entered; the
\* engine fails when it finds the token fired.
PassGate ==
  /\ engine = "deciding"
  /\ cancelled \/ \E v \in Verdicts \ {"error"} : Reason(v) = "none"
  /\ engine' = IF cancelled THEN "ended" ELSE "running"
  /\ UNCHANGED <<entry, chain, cancelled, ctlVars, askVars>>

FailGate ==
  /\ engine = "deciding" /\ "error" \in Verdicts
  /\ engine' = "ended"
  /\ UNCHANGED <<entry, chain, cancelled, ctlVars, askVars>>

StopAtGate ==
  /\ engine = "deciding" /\ ~cancelled
  /\ \E v \in Verdicts \ {"error"} :
       /\ Reason(v) # "none"
       /\ stops' = Append(stops, [seq |-> nextSeq + 1, depth |-> Depth, place |-> Top,
                                  reason |-> Reason(v)])
  /\ nextSeq' = nextSeq + 1
  /\ pauseRequested' = FALSE /\ runMode' = Continue /\ waiting' = TRUE
  /\ engine' = "paused"
  /\ asked' = Continue
  /\ UNCHANGED <<entry, chain, cancelled, breakpoints, permit, stack, frames, diagnostics,
                 poisoned, answered>>

\* mutant: a pause requested since the resume is taken for an old one
LeaveDroppingPause ==
  /\ engine = "paused" /\ (permit \/ cancelled)
  /\ permit' = FALSE /\ waiting' = FALSE /\ pauseRequested' = FALSE
  /\ engine' = IF cancelled THEN "ended" ELSE "running"
  /\ UNCHANGED <<entry, chain, cancelled, breakpoints, runMode, stops, nextSeq, stack, frames,
                 diagnostics, poisoned, askVars>>

\* mutant: the wait does not watch the token
LeaveByPermitOnly ==
  /\ engine = "paused" /\ permit
  /\ permit' = FALSE /\ waiting' = FALSE
  /\ engine' = IF cancelled THEN "ended" ELSE "running"
  /\ UNCHANGED <<entry, chain, cancelled, breakpoints, pauseRequested, runMode, stops, nextSeq,
                 stack, frames, diagnostics, poisoned, askVars>>

\* The wait ends by a permit or by the token, which is polled.
LeaveGate ==
  /\ engine = "paused" /\ (permit \/ cancelled)
  /\ permit' = FALSE /\ waiting' = FALSE
  /\ engine' = IF cancelled THEN "ended" ELSE "running"
  /\ UNCHANGED <<entry, chain, cancelled, breakpoints, pauseRequested, runMode, stops, nextSeq,
                 stack, frames, diagnostics, poisoned, askVars>>

\* The blocking task panics, for one while it evaluates a condition, and dies
\* with the mutex.
GatePanics ==
  /\ engine = "deciding" /\ \E i \in DOMAIN breakpoints : breakpoints[i].conditional
  /\ engine' = "ended" /\ poisoned' = TRUE
  /\ UNCHANGED <<entry, chain, cancelled, breakpoints, pauseRequested, runMode, waiting,
                 permit, stops, nextSeq, stack, frames, diagnostics, askVars>>

-----------------------------------------------------------------------------
(***************************************************************************)
(* The client.  A refused operation changes nothing and is no action.      *)
(***************************************************************************)
SetBreakpoints(bps) ==
  /\ Unlocked /\ breakpoints' = bps
  /\ UNCHANGED <<engineVars, pauseRequested, runMode, waiting, permit, stops, nextSeq, stack,
                 frames, diagnostics, poisoned, askVars>>

RequestPause ==
  /\ Unlocked /\ pauseRequested' = TRUE
  /\ UNCHANGED <<engineVars, breakpoints, runMode, waiting, permit, stops, nextSeq, stack,
                 frames, diagnostics, poisoned, askVars>>

Arm(mode) ==
  /\ Unlocked /\ waiting
  /\ runMode' = mode /\ pauseRequested' = FALSE /\ permit' = TRUE
  /\ answered' = nextSeq
  /\ UNCHANGED <<engineVars, breakpoints, waiting, stops, nextSeq, stack, frames, diagnostics,
                 poisoned>>

\* continue_execution, and force_resume when it does something.
ContinueExecution == Arm(Continue) /\ asked' = Continue

\* arm_run_mode_from_stop: the mode a step command arms, seen from a stop.
ArmedMode(kind, stop) ==
  [kind |-> kind, seq |-> stop.seq,
   depth |-> CASE kind = "StepIn"   -> 0
               [] kind = "StepOver" -> stop.depth
               [] kind = "StepOut"  -> IF stop.depth = 0 THEN 0 ELSE stop.depth - 1]

StepCommand(kind) ==
  /\ stops # <<>>
  /\ Arm(ArmedMode(kind, Last(stops)))
  /\ asked' = [kind |-> kind, seq |-> nextSeq, depth |-> Depth]

\* take_stop_events, clear_stop_events
TakeStopEvents ==
  /\ Unlocked /\ stops # <<>> /\ stops' = <<>>
  /\ UNCHANGED <<engineVars, breakpoints, pauseRequested, runMode, waiting, permit, nextSeq,
                 stack, frames, diagnostics, poisoned, askVars>>

TakeDiagnostics ==
  /\ Unlocked /\ diagnostics > 0 /\ diagnostics' = 0
  /\ UNCHANGED <<engineVars, breakpoints, pauseRequested, runMode, waiting, permit, stops,
                 nextSeq, stack, frames, poisoned, askVars>>

\* mutant: a resumed engine may still be inspected
InspectableResumed(depth) == waiting /\ ~poisoned /\ depth + 1 <= Len(frames)

\* inspect_frame refuses unless the engine is stopped and not yet resumed.
Inspectable(depth) ==
  waiting /\ ~permit /\ ~poisoned /\ depth + 1 <= Len(frames)

-----------------------------------------------------------------------------
EngineStep ==
  \/ Call \/ Return \/ BeginUngated \/ EngineEnds \/ ReportWorkflowOutput
  \/ \E p \in Places : EnterGate(p)
  \/ PassGate \/ FailGate \/ StopAtGate \/ LeaveGate \/ GatePanics

CONSTANT BreakpointLists   \* what a client may install

ASSUME BreakpointListsAssumption == BreakpointLists \subseteq Seq(Breakpoint)

ClientStep ==
  \/ \E bps \in BreakpointLists : SetBreakpoints(bps)
  \/ RequestPause \/ ContinueExecution
  \/ \E kind \in StepKinds : StepCommand(kind)
  \/ TakeStopEvents \/ TakeDiagnostics

DebugNext == EngineStep \/ ClientStep \/ Cancel

DebugSpec == DebugInit /\ [][DebugNext]_debugVars

\* At a stop, the stack the client is shown and the saved contexts it may
\* select are exactly the activations of the engine: nothing is left of calls
\* that returned, and every caller is there with its own step.
StackIsCallChain ==
  engine = "paused" /\ entry = "execute" => stack = chain /\ frames = chain

\* The engine leaves a stop for a resume that was accepted at that stop; one
\* left over from an earlier stop, however commands raced the wake-up, never
\* counts.
ResumedByOwnGrant ==
  [][engine = "paused" /\ engine' = "running" => answered = nextSeq]_debugVars

\* What the client was granted is due at a gate of this depth: stepping in,
\* at the next gate; over, at the next that is not in a call; out, at the next
\* in the caller, or, without a caller, at the next of the same activation.
Due(depth) ==
  CASE asked.kind = "Continue" -> FALSE
    [] asked.kind = "StepIn"   -> TRUE
    [] asked.kind = "StepOver" -> depth <= asked.depth
    [] asked.kind = "StepOut"  -> depth < asked.depth \/ (asked.depth = 0 /\ depth = 0)

\* No gate is passed while a step the client was granted is due or a pause is
\* requested, and the engine never stops for a step that is not due.
StepsLand ==
  [][/\ engine = "deciding" /\ engine' = "running" => ~Due(Depth) /\ ~pauseRequested
     /\ engine = "deciding" /\ engine' = "paused" /\ Last(stops').reason = "Step"
          => Due(Depth)]_debugVars

\* A requested pause is taken back by a stop or by the client's next resume,
\* never by the engine leaving the stop before.
PauseSurvivesWake ==
  [][pauseRequested /\ ~pauseRequested' => nextSeq' > nextSeq \/ permit']_debugVars

\* The gate implements the abstract protocol: a stop is one event, the client's
\* accepted resume ends it at once, although the engine wakes later, and the
\* paused activation can be inspected from its stop to its resume.
Protocol ==
  INSTANCE PauseProtocol WITH
    state <- IF engine = "ended" THEN "over"
             ELSE IF waiting /\ ~permit THEN "stopped" ELSE "running",
    count <- nextSeq,
    view  <- IF engine = "paused" /\ Inspectable(Depth) THEN Depth + 1 ELSE 0

ImplementsPauses == Protocol!Spec

\* An engine held at a gate when its token fires is let go, whether the client
\* resumes it or not.
CancelReleases == cancelled ~> engine = "ended"

\* What a client is granted at the gate and nothing else moves the engine: a stop is
\* left by a resume of that stop, a step lands where it is due, and a pause requested
\* while the engine wakes is not lost (gate_step, arm_run_mode_from_stop).
GateHonoursGrants == ResumedByOwnGrant /\ StepsLand /\ PauseSurvivesWake
=============================================================================
